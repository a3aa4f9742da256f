# A TLA+ model of the course's operating-system projects

The repository holds three programs: an xv6 kernel for RISC-V with a lottery
scheduler (`xv6-riscv`), a user-level block file system with a shell
(`File-System`, "MyFileSystem") and a small container runner (`zocker`). This
directory holds TLA+ modules for their parts, TLC configurations that check the
modules on small instances, and TLAPS proofs. `PROJECT.json` lists every
component, run, mutant, finding, hazard and theorem, and maps each definition to
the lines it models.

## Inventory

| Part | State | Operations | How it interacts | What is hard, what makes it correct |
|---|---|---|---|---|
| Process table (`kernel/proc.c`, `trap.c`) | `proc[]`: state, pid, parent, chan, killed; `nextpid`; `wait_lock`, each `p->lock` | fork, exit, wait, kill, sleep, wakeup, yield | every other part sleeps and wakes through it | locks dropped between steps, wakeups that race with sleeps, a kernel stack in use after exit; no lost wakeup, no orphan, no reuse, `sched()` never panics |
| Lottery scheduler (`kernel/proc.c`) | tickets; per hart the sum, the draw, the place in the walk | `scheduler`, `settickets` | switches to the threads of the process table | two walks over a table that changes, `int` sums; one hart per process, the owner of the ticket runs, nobody starves |
| Random numbers (`kernel/rng.c`) | two 64-bit words | `rand_int` | the scheduler's draws | state written back without the lock it was read under |
| Log (`kernel/log.c`) | header in memory and on disk, log blocks, `outstanding`, `committing` | `begin_op`, `log_write`, `end_op`, commit, recovery | file-system calls above, buffer cache below | crashes at any disk write, space reservation, group commit; all or nothing |
| Buffer cache, disk driver (`bio.c`, `virtio_disk.c`, `sleeplock.c`) | buffers, reference counts, sleep locks, descriptors | `bread`, `bwrite`, `brelse`, `bpin`, requests and interrupts | log, inodes | recycling, descriptors at their limit, completion races; one buffer per block with its latest content |
| Inodes, directories (`fs.c`, `sysfile.c`) | inode table, bitmap, directories | `iget`, `ilock`, `iput`, link, unlink, create | log, open files | unlinked but open inodes, failures half-way, crashes; link counts, references and block ownership exact |
| Open files, pipes (`file.c`, `pipe.c`) | file table, ring buffers | open, dup, close, read, write | process table (sleep/wakeup) | wraparound of counters, close while the other end sleeps, `pipe()` failing half-way; a queue of bytes, references exact |
| Console, UART | input ring with three indices, transmit state | `consoleread`, `consoleintr`, `uartwrite` | interrupts, locks | interrupt against reader and writer, echoes without the lock; no lost wakeup, no deadlock, no lost line |
| Memory (`kalloc.c`, `vm.c`, `exec.c`) | free pages, page tables | `kalloc`, `kfree`, fork's copy, lazy allocation | process table | failures half-way, holes left by lazy growth; every page owned once, no panic |
| User library (`umalloc.c`) | circular free list | malloc, free, calloc, realloc | user programs | coalescing, overflow |
| MyFileSystem blocks and files (`filesystem.c`, `cli.c`) | super block, file table, free list, open files, the shell's file | create, open, close, write, shrink, rm, format, restart | one image file | allocation and merging in every order, rebuild at start; no block twice, none lost |
| MyFileSystem users | user and group tables, current user | useradd, userdel, groupadd, usermod, chmod, chown, chgrp, checks | file table | uids against slots, a stop between two saves; identities unique, writes permitted |
| zocker | a process and its namespaces | setup, run | Linux | failures half-way |

`mkfs`, the user programs and the test programs are clients or build tools and
are not modelled.

## Plan

Done, in this order:

1. `Proc`, `ProcProofs`: the process table, then its invariants proved.
2. `AtomicDisk`, `Log`: the log and the abstract disk it implements.
3. `Scheduler`: the lottery inside the `Dispatch` step of `Proc`.
4. `FreeList`, `MyFS`: MyFileSystem's blocks and files.
5. `BytePipe`, `Files`: the file table and pipes, and the byte queue they implement.
6. `Bcache`: buffer cache, sleep locks and disk driver in one module, because a
   buffer's owner sleeps in the driver.
7. `Inodes`: inodes, blocks, directories and the calls on them, above the promise
   of `Log`.
8. `Memory`: page allocator, page tables, fork, exec, sbrk and lazy allocation.
9. `Console`: console, UART, and the locks and interrupts they depend on.
10. `Users`: MyFileSystem's users, groups and permissions.

11. `ResourceProofs` (the scheduler), `LogProofs`, `BcacheProofs`, `ConsoleProofs`, `UsersProofs`,
    `FilesProofs`: the properties of these modules proved, and the refinements of
    `AtomicDisk` and `BytePipe`.
12. `InodesProofs`: references, link counts, blocks and copies of inodes proved.
13. `ResourceProofs` (MyFileSystem's blocks and files): the operators on the free list,
    the division of the disk, the statistics and the open file proved.
14. `ResourceProofs` (memory): pages, panics and the copies of fork() proved.

## Modules

**`Proc`** has one kernel thread per slot of `proc[]`: `pc` says where it is, and
`idx`, `widx`, `arg`, `kids` are the locals of the call it is in. A section under
one `p->lock` is one step, guarded by that lock being free. `wait_lock`, and a
`p->lock` that is kept across `swtch()` or over the return of `allocproc()`, are
state (`waitlock`, `plock`). The loops over `proc[]` take one step per slot. A
thread leaves its hart in two steps, as in the code: it sets its state with its
lock held (`Yield`, `WaitSleep`, `ExitZombie`), and later the hart's scheduler
drops that lock (`SwitchOut`); `onCpu` is the set of threads whose stack is in use
in between. Failing allocations and copies to user space are free choices
(`ForkFail`, `WaitFault`).

**`Scheduler`** opens up the choice that `Proc`'s `Dispatch` leaves open: each hart
sums (`Count`), idles (`Idle`) or draws (`DrawTicket`) and walks (`Skip`,
`Dispatch`, `NoWinner`), one slot at a time, while processes block, wake and
change tickets. Sums are ints that wrap above MAXINT, as `addw` does.

**`Log`** has the disk (home blocks, log blocks, header), the buffer cache as the
value `bread` would return with a pin count per block, and the processes inside
begin_op/end_op. A block's content is the number of the call that wrote it last.
`commit()` takes one step per disk write; `Crash` keeps only the disk; recovery
takes one step per disk write and can crash as well. `Recycle` lets the cache drop
any block that is not pinned. A call may log up to MAXOPBLOCKS blocks, each as often as
it likes (`wrote` is the set of them); `log_write()` panics at a full log before it looks for absorption, and a
process that panicked keeps `log.lock` (`Halted`). **`AtomicDisk`** is what log.c's opening comment
promises; `Log` maps to it with `durable` = the disk as recovery would leave it.

**`FreeList`** is the region list as a sequence with one operator per C function.
**`MyFS`** is a root session of the shell over it; sizes are bytes, rounded to
blocks as the C code does it (also below zero). `saved` is the metadata on disk,
and `Restart` may happen at any time. `grown` and `negative` remember whether a write has
extended a file and whether a shrink has gone below zero blocks; after the latter the
free list may begin at block -1, which `fs_write()` takes for a failure (`WriteLost`).

**`Files`** has the descriptors of each process, the file table and pipe pages. A
step is a section of `ftable.lock` or one turn of a loop under `pi->lock`; the
test of `killed` and the `sleep()` after it are two steps. The loop of exit
over the descriptors takes one step per `fileclose()`. `closing` holds the files a
process has still to give to `fileclose()` (two when `pipe()` fails late), and `ff` is
the copy that `fileclose()` makes before it drops `ftable.lock` and calls
`pipeclose()`. `pipe()` can fail after its first file, its second file, its page and
its descriptors. **`BytePipe`** is what a pipe promises: a queue of at most PIPESIZE bytes with two ends. `Files` maps to it with
the bytes between the two wrapping counters.

**`Bcache`** has the buffers with their sleep locks, the LRU list, the descriptors,
the two rings, the interrupt line and the disk itself. A process gets a block, locks
it, reads, changes, writes, pins and releases it. The device takes any request of
the ring next; the handler's acknowledgement and its loop are two steps. `latest` is
a history variable: what was last stored in a block. If every buffer is held or
pinned, `bget()` panics, as in the code.

**`Inodes`** has the inodes on disk and in the table, the bitmap, and for each
process its directory, one open file and the call it is in. A path is walked one
inode lock at a time. `unlink` and `create` keep the directory locked over two
steps; `link` raises `nlink` in one step and adds or gives up the entry in another.
`iput()` of the last reference to an inode without links takes three steps: it frees the
inode (`IputFree`), unlocks it (`IputUnlock`) and counts down (`IputEnd`); before each of
the last two others may look the inode up or allocate it again. `Crash` happens between calls
(by `AtomicDisk` the disk is always one of those) and includes `ireclaim()`.
Directory contents are functions from names to inodes with a number of blocks;
contents of files are their blocks. `lost` counts the entries that vanish with a
removed directory.

**`Memory`** has the free list, and for each process its size, trapframe and page
table with the inner pages and leaves. Operations are compositions of operators named
after the C functions, on a record of free pages, one page table and the outcome,
so each error path frees what it frees in the code. `Grab` and `Give` stand for the
other users of `kalloc()` and make each allocation fail in some state.

**`Console`** has the input ring, `tx_busy`, the locks, the interrupt state of each
hart, a process and a handler per hart, and the UART's two FIFOs. `acquire` is
`push_off()` and then the swap; an interrupt is taken only by a hart with interrupts
on. A killed process, line editing, ^D put back by a short read, echoes and kernel
prints are included.

**`Users`** has the three tables, their copy on disk, the current user and the
shell's file. A command compares names as they are typed and stores them cut
(`StoredName`, `StoredFile`), so a long name can be in a table twice (`WholeName` and
`WholeFile` are the names that no longer one is cut to). `useradd` is two steps with a
save each; `Restart` may come anywhere.
Modes are sets of rights for owner, group and others.

**Composition.** The modules meet at their promises: `Log` uses of the cache what
`Bcache` shows (an owner sees the latest content, a pinned block stays); `Inodes`
relies on `AtomicDisk` for crashes; `Scheduler` refines the choice in `Proc`;
sleep and wakeup appear in each module as the code uses them, with the check and
the sleep under the lock that `sleep()` gives up.

Definitions introduced by a comment "Mutant of X" are X with a plausible bug; no
specification uses them. Each shows that a property notices such a bug.

## Runs

| Run | Instance | Result |
|---|---|---|
| `proc` | 3 slots, 2 harts, pids up to 4, kill of 0 and 3 | safety of fork/exit/wait/kill holds (1.3 million states) |
| `proc_live` | 3 slots, 1 hart, pids up to 3 | wait returns, killed processes die |
| `scheduler` | 3 slots, 2 harts, tickets 1 and 2, 5-bit ints | one hart per process; undisturbed draws are fair; idle only when nothing is runnable (1.3 million) |
| `log` | 3 processes, 4 blocks, 2 blocks per call, log of 4, 3 calls, 2 crashes | refinement of `AtomicDisk`, log never full before a call has used its reservation up, no lost wakeup, pins balanced, whether or not `log_write()` panics (55 thousand) |
| `myfs` | 4 data blocks of 2 bytes, 2 entries, 3 names (one too long), 1 extending write or 1 shrink below zero blocks | file count exact and disk up to date, used blocks exact until a shrink below zero, blocks partitioned until either (2.3 million) |
| `myfs_growth` | same, without that shrink | violated: a file that grows overlaps its neighbour, the finding in `PROJECT.json` |
| `files` | 2 processes, 2 files, 2 descriptors each, 1 pipe of 2 bytes, 2-bit counters | references and ends exact, no lost wakeup, refinement of `BytePipe` (1 million) |
| `bcache` | 3 processes, 4 blocks (1 changed), 3 buffers, 7 descriptors, 1 pin | owners see the latest content; references and descriptors exact; no lost completion (1.3 million) |
| `inodes` | 2 processes, 3 inodes, paths `/a` and `a`, 5 blocks, 1 direct and 1 indirect block, 2 entries per block | link counts, references, blocks and copies exact; no inode freed under a process; unlinked inodes freed but for the race of `MCInodesOrphan.cfg` (2.2 million) |
| `memory` | 2 processes, 18 pages, page-table pages of 2 entries, pages of 2 bytes | no page lost or doubled, no panic, fork exact (126 thousand shapes) |
| `console` | 2 harts, 5 keys, ring of 2, 2-bit indices, UART of 3 | no lost wakeup, no self-deadlock, transmitter never overrun, committed input kept (2.3 million) |
| `users` | root and a name, typed whole or too long, 3 user and 2 group slots, 2 files, 3 file names (one too long), modes 0644 and 0600 | identities unique; new files get their creator's group; writes permitted (760 thousand) |

`TypeOK` of each module holds in the instance of its passing run as well.

### Further configurations

Each of these asks one question more of a module above. Those with
"violated" record what the code does; TLC prints the behaviour.

| Configuration | Module | Result |
|---|---|---|
| `MCProcKill.cfg` | `MCProc` | `FreshNotKilled` violated. `kkill()` (proc.c:619) compares pids in free slots too, so `kill(0)` marks a free slot and the next process forked into it starts killed |
| `MCSchedulerLive.cfg` | `MCScheduler` | `EventuallyRuns` holds on one hart: every runnable process runs |
| `MCSchedulerWrap.cfg` | `MCScheduler` | `IdleOnlyWhenEmpty` violated with 3-bit ints. The sum of tickets (proc.c:451) wraps to 0 and the hart idles beside runnable processes |
| `MCLogLive.cfg` | `MCLog` | `BeginWoken` and `CommitEnds` hold: sleepers in `begin_op()` are woken, commits end |
| `MCLogFull.cfg` | `MCLog` | `NeverPanics` violated. A call that has logged as many blocks as were reserved for it may find the log exactly full, and `log_write()` of a block that is in it panics before the test for absorption (log.c:221). No call of the kernel logs MAXOPBLOCKS different blocks, see below |
| `MCMyFSCoalesce.cfg` | `MCMyFS` | `Coalesced` violated. Deleting a file that was shrunk to nothing (filesystem.c:583) leaves a region of no blocks that keeps its neighbours apart |
| `MCMyFSNames.cfg` | `MCMyFS` | `NamesUnique` violated. Long names are compared whole and stored cut (filesystem.c:423) |
| `MCMyFSNegative.cfg` | `MCMyFS` | `NoOverlap` violated after a shrink to a negative size, which `cmd_shrink()` (cli.c:241) and `fs_shrink()` do not refuse: it frees blocks of the file in front |
| `MCInodesOrphan.cfg` | `MCInodes` | `NoOrphan` violated. The `iput()` that has freed an inode unlocks it before its `ref--` (fs.c:356-361); in between `create()` may allocate it again, fail and put it at `ref` 2, and it stays allocated without name and reference until the next start |
| `MCInodesDotDot.cfg` | `MCInodes` | `AllocatedRefs` violated with paths that contain `..`. A process in `/a/a` after both directories are removed keeps an inode whose `..` names a freed one; `chdir("..")` then panics in `ilock()` (fs.c:315) |
| `MCInodesOpen.cfg` | `MCInodes` | the six properties of `inodes` hold with read-only and truncating opens and `mknod` in place of `mkdir`, `link` and `chdir`, and with the paths `/` and the empty one |
| `MCInodesRoot.cfg` | `MCInodes` | the same six hold with all calls of `inodes` on the paths `/` and the empty one too (4 blocks) |
| `MCUsersGroup.cfg` | `MCUsers` | `CreatorsGroupAlways` violated. `fs_create()` uses the uid as a slot of `user_table` (filesystem.c:429); after a deletion a file may get another user's group |
| `MCUsersNames.cfg` | `MCUsers` | `UserNamesUnique` violated. `fs_useradd()` looks for the name as typed (filesystem.c:707) and stores it cut (742), so a long name is added twice |

### What the modelling showed besides

* A writer killed after it has put bytes into a pipe returns without waking
  readers (pipe.c:84); they sleep beside data until the next call on the pipe.
  `quiet` marks this case in `NoSleepBesideData`.
* NBUF is as large as the log, so a full transaction can pin every buffer and
  the next `bget()` panics. `RefsExact` shows that no lost reference adds to it.
* `create()` and `link()` do not look whether the directory has been removed; what
  they add there is lost with it, and its inode never freed (`lost`).
* `sbrk(-n)` with n above the size wraps, does nothing and succeeds;
  `copyinstr()` does not fault lazy pages in, `copyin()` and `copyout()` do.
* The shell's `shrink` and `open` with `c` make no permission check; memberships of
  deleted groups stay and apply to a later group with the same gid; `useradd` stopped
  between its saves leaves a group that keeps the name from being added.

### Bounds, and why they are enough

* `Proc`: with three slots init, a parent and its child exist, so a zombie can be
  inherited by init and a slot can be reused while its last owner is still
  switching out; with two harts every pair of kernel paths overlaps. `MAXPID`
  bounds how often slots are reused. (The proofs below have no such bound.)
* `Scheduler`: three slots give an owner, a winner before it and one behind it;
  in the passing runs the ints are wide enough for all sums, in
  `MCSchedulerWrap.cfg` they are not, as with four processes of 2^30 tickets.
* `Log`: a log of two calls' size makes the third call wait, and four blocks can
  fill it; calls of two blocks can be torn and can overlap in one group; three
  calls make up to three groups; two crashes let recovery crash. A call may log all it
  reserves, so the panics of `log_write()` are reached and the properties hold around
  them.
* `MyFS`: four data blocks allow a region before, after and on both sides of a
  freed one. `MaxRegions` bounds the empty regions that deletes leave behind,
  `MaxGrow` the extending writes and `MaxNegative` the shrinks below zero; a constraint
  keeps one from following the other (after either, files overlap by the code's error).
* `Files`: two files are just one pipe, so the next `pipe()` fails at each place;
  writes of two bytes fill the ring, and counters of four values wrap. With one
  page the page of a closed pipe is used again while closes are pending.
* `Bcache`: three processes and three buffers make a process wait for another's
  buffer and recycle a third; seven descriptors serve two requests, so the third
  waits with one descriptor left over. When the three are held or
  pinned, the fourth block meets the panic of `bget()`. The theorems are about any number of
  buffers, also fewer than processes (30 and 64 in param.h).
* `Inodes`: one name is enough to make two processes meet in every pair of calls;
  three inodes give a directory, a file or directory in it, and exhaustion; two
  entries per block make a directory grow with its first name; a directory reaches its
  indirect block, and the disk is full where a file has got its indirect block and
  wants a data block for it.
* `Memory`: eighteen pages are less than two processes and an exec need, so each
  allocation fails in some state; tables of two entries need inner pages of both
  levels; sizes are not multiples of the page.
* `Console`: a ring of two is full after two keys, indices of four values wrap;
  two harts give a reader against a writer, each with a handler on top. The
  transmitter has room for three characters and is filled: with room for two the run
  finds a third.
* `Users`: three slots are root and two users, so slots and ids are used again after a
  deletion, and one name can be added as typed and cut; two entries hold two files whose
  names are cut alike, or one of them beside another. `MaxUid`, `MaxGid` and `MaxMembers`
  bound the growth.

`files`, `bcache` and `log` do not check for deadlock: a process may wait for itself at
both ends of its own pipe, and a panic of `bget()` or `log_write()` stops the machine. All
other passing runs do.

`OpenFileValid` of `MyFS` (the shell's open file is an entry in use) is not in the runs; it
is proved.

Symmetry is used for processes, harts and blocks that no
definition orders or tells apart, and in runs of safety properties only. Three runs
have a VIEW: `Shape` (names of pages), `Live` in `MCConsole` (places of the ring, saved
interrupt flags and characters that will not be read again) and `Live` in `MCUsers`
(deleted entries, and whether the disk is up to date in place of its content).
States with one view have the same next steps up to the view, and the properties
are functions of it: for `PagesExact` the numbers of free, grabbed and mapped pages.

### Fairness

* `Proc`: a hart keeps executing; the timer interrupts user code; a thread is not
  preempted at the same instruction for ever and a spinlock that is free again and
  again is acquired at some time (strong fairness of a thread's kernel steps); the
  lottery picks a process that is runnable again and again with probability one.
  User programs need not make any call.
* `Scheduler` (`MCSchedulerLive.cfg`): weak fairness of each hart's steps, with the
  timer ending `wfi` and time slices; strong fairness of a draw in favour of each
  process, which holds with probability one for a random generator. This is checked
  on one hart: with several, a process may be drawn and lose its chance to another
  hart's change of the table each time.
* `Log` (`MCLogLive.cfg`): a process that is not asleep goes on, and each call reaches
  `end_op()`. Nothing is assumed about which waiter gets in, so only the wakeup is
  promised. The run `log` has the same promise as an invariant, `SleepersWoken`.
* The other modules state lost wakeups as invariants, which need no fairness: nobody
  sleeps while what it waits for is there and nobody is about to wake it.

## Proofs

Eight modules hold theorems, seven about one module each and `ResourceProofs` about three,
`Scheduler`, `MyFS` and `Memory`, which have nothing to do with each other but that each
shares something out: harts, blocks, pages. A theorem is about `Spec` (`FsSpec` in `MyFS`,
`MemSpec` in `Memory`) and holds for every value of the constants that the named
assumptions of the module allow: any number of processes, harts, blocks, buffers, files
and so on, where TLC has the instances above. The assumptions are the ones TLC evaluates in every run;
they say that sizes are positive naturals, that 0 (nobody, no block) is no process and
no block, that sets of processes (and names) are finite where they are counted, and these
facts of the code:

* `Log`: `LOGBLOCKS >= MAXOPBLOCKS` (param.h has three times as much);
* `Console`, `Files`: the unsigned counters wrap at a multiple of the buffer's size
  (2^32 and 128 or 512) that is larger than the buffer;
* `Bcache`: there are at least three descriptors (NUM is 8);
* `Users`: 0644 is among the modes; cutting a name twice is cutting it once, and no other
  name is cut to "root" (names have room for 31 characters);
* `Inodes`: an inode has a direct block, and a block of a directory has room for `.` and
  `..` (there are 12 and 64); paths are sequences of names and `..`;
* `Memory`: there are four pages, what the first process needs, and `ImagesFit`: programs
  with their stacks fit below the trapframe. exec() does not check this, but uvmalloc()
  takes a page for each page of the image before it maps it, and 128 MB have far fewer
  pages than the address space.

Some theorems have a hypothesis of their own, because the code does not guarantee
what they need: `IdleOnlyWhenEmptyHolds` and `HonestDrawHolds` assume that NPROC times
the largest number of tickets fits an int (`Fits`; `settickets()` does not check it and
`MCSchedulerWrap.cfg` shows what happens otherwise). `OutputFitsHolds` assumes that the
UART has room for three bytes, one each for `printf()`, an echo and `uartwrite()`, which
do not wait for each other (the 16550's FIFO has sixteen). The theorems about `Inodes`
assume that no path contains `..` (`NoDots`): a removed directory keeps its `..`, which
may name an inode that is freed and allocated again, and `MCInodesDotDot.cfg` shows how a
walk gets there. Paths are otherwise any sequences of names, the empty one included.

What the code does not promise is in the properties themselves, not in hypotheses.
`Partition` holds until a write extends a file or a shrink goes below zero blocks, the
count of used blocks in `Accounting` until the latter; `Identity` and `WritePermitted` are
about names that no longer one is cut to. `LogNeverFull` is about a call that has not
logged all the blocks reserved for it. All calls of the kernel are like that, by counting:
a chunk of `filewrite()` logs at most four data blocks, the inode, the indirect block and
the one block of the bitmap (FSSIZE is 2000 and a bitmap block has 8192 bits), seven of
MAXOPBLOCKS = 10; create, link and unlink log seven or fewer.

Every proof follows the same plan. The property is not inductive, so there is an
invariant `Inv` (`IInv` in `ProcProofs`) made of named parts; `Init_Inv` and one lemma
per action, with a step per part, show that it is preserved; the theorems follow
from it. Refinements and action properties are then shown one action at a time, from
`Inv` in the state before.

| Module | Proved of `Spec` |
|---|---|
| `ProcProofs` | `TypeOK`, `NoLostExit`, `SleeperHasChild`, `LiveParent`, `NoReuseOnCpu`, `SchedLocks` |
| `ResourceProofs` | of `Spec` of `Scheduler`: `TypeOK`, `OneHart`, `IdleOnlyWhenEmpty`, `HonestDraw`; of `FsSpec` of `MyFS`: `FsTypeOK`, `Accounting`, `OpenFileValid`, `Partition`; of `MemSpec` of `Memory`: `PagesExact`, `NoPanic`, `ForkCopies` |
| `LogProofs` | `TypeOK`, `LogNeverFull`, `SleepersWoken`, `PinsBalanced`, `AtomicDiskSpec` |
| `BcacheProofs` | `TypeOK`, `RefsExact`, `OwnerSeesLatest`, `Descriptors`, `NoLostCompletion` |
| `ConsoleProofs` | `TypeOK`, `NoLostWakeup`, `NoSelfDeadlock`, `OutputFits`, `CommittedKept` |
| `UsersProofs` | `TypeOK`, `Identity`, `CreatorsGroup`, `WritePermitted` |
| `FilesProofs` | `TypeOK`, `RefCounts`, `OneOwner`, `NoSleepBesideData`, `BytePipeSpec` |
| `InodesProofs` | `TypeOK`, `LinkCounts`, `OrphansByRace`, `InodeRefs`, `AllocatedRefs`, `BlocksExact`, `CopiesCurrent` |

### The process table

None of these is inductive. The inductive invariant `IInv` has these parts:

* `WaitLockInv`: `waitlock` is the thread whose `pc` lies in the sections of
  `wait_lock`. This makes exit and wait exclude each other.
* `PCInv`: where a thread may be in each state of its slot, and where loop indices
  are valid.
* `PLockInv`: a kept `p->lock` belongs to the process itself around a context
  switch or to the parent that is still setting the slot up.
* `ForkInv`: a slot between `allocproc()` and RUNNABLE belongs to one forking
  parent.
* `ParentInv`: free slots have no parent, parents are alive, and a thread that has
  passed slot i in `reparent()` has no child up to i.
* `WakeInv`: the heart of the argument. A sleeper has a zombie child only while
  the thread that has just handed that zombie to init is about to wake init, and a
  thread past `wakeup(p->parent)` has a parent that does not sleep.
* `KidsInv`: `havekids` is still true when the process sleeps, since nobody else
  can take its children away.

### The scheduler

* `RunInv`: a hart has a process exactly while it is outside `scheduler()`, and a
  process is RUNNING exactly when one hart has it. `OneHart` follows; the check of the
  state under `p->lock` in the second walk is what keeps it.
* `SumInv(M)`: the sum of the first walk is at most M for each slot it has passed, and 0
  only if none of them was runnable. With `Fits(M)` it never wraps.
* `DrawInv`: while the table is as the first walk found it (`stable`), the two sums are
  the sums of the table (`SumBefore`, a recursive function of the slot), and the ticket
  drawn lies between the sum so far and the sum of all. So the second walk cannot run out
  of slots before it has a winner.

### The log

* `SpaceInv`: `log.outstanding` is the number of calls, and the blocks in the log and
  the blocks the calls may still log fit together. This is the argument of `begin_op()`'s
  test, counted as the cardinality of the set of reserved blocks.
* `WroteInv`: what a call has logged is in the log while the call runs. So a call that
  has not used its reservation up leaves room in the log, and `LogNeverFull` follows.
* `TurnInv`: commits are alone; whoever sleeps sleeps beside a commit or a call.
* `LoopInv`: where the loops over the log are.
* `DataInv`: which of the copies of a block (cache, log, home) agree at each place of
  `commit()` and of recovery.
* `PinInv`: a block is pinned once from `log_write()` until `install_trans()` has
  reached it.

`LogIsAtomicDisk` is the refinement: with `durable` mapped to the home blocks overlaid
with a log whose header is on disk, the write of the header is the one step that
changes it; all other writes of the commit, the crash and the writes of recovery are
stutters, because `DataInv` says that what they overwrite is what they write.

### The buffer cache

* `UserInv`: whose reference is to which buffer, and no block is in two buffers.
* `LockInv`: the holder of the sleep lock, and whose request the disk has.
* `RingInv`: the rings hold the requests of the processes that sleep, each once, and
  a used ring that is not empty has an interrupt or a handler coming.
* `ChainInv`: descriptors belong to one request or are free.
* `DataInv`: a valid buffer, a block that is not cached, and a request in progress hold
  what was last stored. A buffer recycled in `bget()` has no reference, so no pin and no
  unwritten content.

### The console

* `HartInv`: the interrupt flag and the depth of `push_off()` at each place of a process
  and of the handler on top of it.
* `HoldInv`: who holds `cons.lock`, `tx_lock` and `pr.lock`.
* `TxInv`, `RxInv`: sleepers against `tx_busy`, r and w; e is at most INPUT_BUF_SIZE ahead
  of r and w is between them, across the wrap.
* `OutInv`: bytes in the UART, and those `printf()`, an echo and `uartwrite()` may put
  without another look at it, are three at most.

`CommittedKept` is about the characters from r to w as a sequence: a step stores at e
only, which is none of those places as long as the buffer is not full.

### MyFileSystem's users

* `UserInv`, `GroupInv`, `SessionInv`: ids and whole names are unique, and the session's user
  exists.
* `AddInv`: in the middle of `useradd` the name as it was typed, a slot and a uid are still
  free.
* `FileInv`: a whole name is that of one file at most, and the name the shell keeps is
  that of the entry it has open. This is why a check by such a name is a check of the
  entry: `WritePermitted`.
* `SlotInv`: before the first deletion users fill the first slots, each in the one of
  its uid. This is what `user_table[current_uid]` needs: `CreatorsGroup`.

### Open files and pipes

* `FdInv`, `CallInv`: descriptors name files that are ends, and a call is on the end of a
  descriptor of its process.
* `CloseInv`: what each process has still to close; the first file of a `pipe()` in
  progress is known to nobody else.
* `RefInv`: `RefCounts`, and a file without references is FD_NONE.
* `OwnerInv`: an end is open exactly while a file or a `pipeclose()` to come holds it, and it
  has one holder.
* `LockInv`, `SleepInv`: a sleeper cannot go on, or whoever has `pi->lock` has moved bytes
  and is about to wake it.
* `RingInv`: the counters are at most PIPESIZE apart.

`PipesAreQueues` is the refinement of `BytePipe`. Its lemmas are about the ring: the slot of
a counter does not change when the counter wraps, PIPESIZE consecutive counters have
different slots, a put appends to the bytes between the counters and a get removes the
first. A close by the last holder empties the queue, and a page that is used again
starts empty, by `OwnerInv`.

### Inodes and directories

The properties hold each other up, so there is one invariant for all of them. A
process has six *slots* that may hold a reference (`Slots`); a slot is "new" for the
inode that `create()` has just allocated, "freed" for the one that `iput()` is freeing,
"dropped" once it has unlocked that one, and "plain" otherwise (`Kind`).

* `CallInv`, `WorkInv`: the fields of a call fit together, and what `create()` and
  `unlink()` have looked up stays so while they keep the directory locked.
* `RefInv`: `ref` counts the slots. `SoleInv`: a new or freed inode has no second slot,
  except that `ialloc()` may take an inode between the steps of its `iput()`.
* `AllocInv`, `SpecialInv`: the inode of a slot is allocated unless the slot is "freed" or
  "dropped"; that of a new or freed one has no links.
* `LockInv`: who holds a sleep lock is to give it up. With `ref == 1` there is one slot,
  so a holder is the process itself: this is the argument of the comment in `iput()`.
* `MemInv`, `OrphanInv`: copies are those of the disk; an inode without links that has
  references is in the table and not yet being freed, or just being created, so its last
  `iput()` sees it. The `ref--` of an `iput()` that has freed its inode does not look:
  `OrphansByRace` allows this step and no other (`StepTame`: all others lower no count or
  write only inodes that have references).
* `DiskInv`, `TreeInv`: free inodes are empty, only directories have entries; a directory
  other than the root has at most one name, and that is in its parent.
* `LinkInv`: `LinkCounts` with the sets counted as fibres of functions (`NameTo`,
  `ParentOf`, `LinkTo`), because a step changes such a function at a point or two.
* `BlocksOK`: `BlocksExact` with "no block twice in an inode" (`Apart`) in place of
  cardinalities.

`Tally(D, f, i)` is the number of arguments at which a function on D has the value i; the
lemmas `TallySet`, `TallyRow` and `TallyClear` say what changing one value, a process's six
slots or a part of the domain does to it. `Fits`, `Grown` and `Wider` say what `bmap()`,
`dirlink()` and `writei()` may do to an inode and the bitmap: nothing but take free blocks.
`writei()`'s loop is the one recursive function; a write of n blocks that broke its
invariant would have a first turn that does (`WriteRunOK`).

### MyFileSystem's blocks and files

First what the operators of `FreeList` do, for every list of regions that share no block
(`GoodList`; regions without blocks, which shrinking a file to nothing leaves, are
allowed, and so are regions that touch):

* `AllocateTakesFree`: what `allocate_blocks()` returns was free, and just that leaves
  the list.
* `FreeGivesBack`: `free_blocks()` of blocks that are not free puts just these on the
  list, in all four cases of merging. The list need not be in order for this.
* `LoadRebuilds`: `load_metadata()` leaves what no entry in use claims. It goes through
  the table and for each entry through the list, so this is an induction in an induction.

The loops are recursive functions on 0 .. n (`Cut`, `Loaded`, `PartialSums`). That such a
function exists and takes its steps is `Recursion`, and `UpTo` is the induction, both
from `LeastNatural`.

The inductive invariant `FsInv` has two parts:

* `TablesInv`: the metadata are on the disk; `used_blocks` is the sum of what the entries
  hold (`TotalChange` says what a change of one entry does to the sum) and `file_count`
  the number of used ones; a file without a start has no blocks, without which the blocks
  counted at a restart would not be those counted before it; until a write has extended
  a file or a shrink has gone below zero blocks the list is good and `Divided` holds, which
  is `Partition` said of one block. After that only the statistics are exact: `Accounting`
  holds whatever is extended, its count of used blocks until a shrink below zero.
* `SessionInv`: at most one descriptor is in use, and the name the shell keeps is that of
  its entry. `cmd_rm()` compares names, not entries; because `StoredName` cuts a name
  once for all (`NamesAssumption`), a name that differs from the one kept leads to
  another entry, so `rm` never takes the open file: `OpenFileValid`. Two entries with
  one name (`MCMyFSNames.cfg`) do no harm here.

One lemma (`EntryStep`) serves every command: it changes one entry, the free list gets or
gives what the entry claims more or less, and the counters follow.

### Memory

An operation of `Memory` is one step, but a long one: it walks and builds a page table,
may run out of pages anywhere and then takes back what it did. So the proof follows the
code: one lemma per C function (`KallocSpec`, `WalkSpec`, `UserPageSpec`,
`UnmapUserSpec`, `FreewalkSpec`, `UvmallocSpec`, `UvmcopySpec`, `LoadSegmentsSpec`,
`StackSpec` and so on) says what it does to a record that is `Accounted`, whether it
succeeds or fails, and a caller uses the lemmas of what it calls. The loops over pages
and segments are recursive functions, and `Loop` is their induction: the invariant at
one index, or the stop, gives it at the next.

`Accounted` has two parts. `TableOK`: only mapped leaves have a page, and each hangs on a
page-table page that is there. `Split`: every page is on the free list, elsewhere, or in
just one cell of this table, where the cells are the trapframe, the root, the inner pages
and the leaves. A page only moves from one place to another (`SplitAlloc`, `SplitPlace`,
`SplitDrop`, `SplitFree`), so nothing is freed twice and nothing leaks.

The inductive invariant `MemInv` says it of each process, with the pages of all the
others as those elsewhere, and adds `SlotOK`: a slot is unused and holds nothing, or
holds an `Image`, user pages only below the size, the trampoline and its own trapframe on
top. This is why `freewalk()` finds no leaf and `mappages()` no mapping: `NoPanic`.
Between the steps:

* An operation of one process leaves the pages of the others alone (`SlotReplaced`).
* exec() builds a second table with the old one's pages put aside (`SplitAside`). After a
  failure the new table is gone and the old one is seen again (`OldImage`); otherwise the
  old one is freed (`NewImage`). `SplitSwap` exchanges the two: what the one sees of the
  other is what the other sees of it.
* fork() copies what the parent has below its size; `ForkCopies` follows from
  `UvmcopySpec`, which says which leaves the child has for each page copied so far.
* At the start `FirstTable` counts what `userinit()` takes: four pages, which is why the
  assumption asks for four.

### What is only model-checked

* Liveness under fairness and anything with `ENABLED`: `KilledExits`, the run `proc_live`,
  `MCSchedulerLive.cfg` and `MCLogLive.cfg`. The lost wakeups that these are about are
  invariants in the other modules, and proved.
* What the violated run and configurations show.

## Not modelled

* `rng.c`: 64-bit shifts and products are out of TLC's reach; `Scheduler` covers
  every draw by a free choice.
* User programs and `umalloc.c`, `mkfs`, the test program of MyFileSystem: sequential
  clients. What they call is the input of the modules, what `mkfs` makes is the
  initial state of `Log` and `Inodes`.
* `zocker`: a straight sequence of Linux calls without state of its own.
* Start-up code, the kernel's own page table, the tick counter with `sys_pause`,
  `procdump` (^P), formatting in `printf`.
* Within the modelled parts: exit status and trap frames of processes; bytes of
  pages, blocks and files; `fstat`; in MyFileSystem `fs_read`, `fs_alloc` and
  `fs_free` (library calls the shell does not make) and negative positions in
  `fs_write`. `MyFS` is root's session; permissions are in `Users`.
