------------------------------- MODULE Bcache -------------------------------
(***************************************************************************)
(* The buffer cache of the xv6 kernel and the disk below it                *)
(* (kernel/bio.c, kernel/sleeplock.c, kernel/virtio_disk.c).  Processes    *)
(* read, change, write, pin and release blocks; the cache recycles the     *)
(* least recently used buffer that nobody refers to; the driver shares NUM *)
(* descriptors, three to a request, and a completion interrupt.            *)
(*                                                                         *)
(* A step is one critical section of bcache.lock, of a sleep-lock's        *)
(* spinlock or of vdisk_lock; sleep() ends the section it is in.  Only the *)
(* interrupt handler's section is two steps, because the device may add a  *)
(* completion between them.  The avail and used rings are the sequences of *)
(* the entries not yet taken out.                                          *)
(***************************************************************************)
EXTENDS Integers, Sequences, FiniteSets

CONSTANTS
    Proc,
    Block,          \* block numbers; buffers hold 0 before their first use
    Changed,        \* blocks that processes modify
    NBUF,
    NUM,            \* virtio descriptors
    MaxPins         \* blocks that a transaction may pin

ASSUME BcacheAssumption ==
    /\ 0 \notin Block \cup Proc
    /\ Changed \subseteq Block
    /\ NUM \in Nat /\ NUM >= 3
    /\ MaxPins \in Nat
    /\ IsFiniteSet(Proc)
    /\ NBUF \in Nat

Buf  == 1 .. NBUF
Desc == 0 .. NUM - 1
Data == {0, 1}

VARIABLES
    buf,            \* the buffers, their sleep-lock's holder in locked (0: free)
    lru,            \* bcache.head's list, the most recently used buffer first
    platter,        \* the contents of the disk
    free,           \* free descriptors
    chain,          \* descriptors of the request that starts at a descriptor
    avail,          \* requests the device has not yet fetched
    used,           \* requests the device has finished
    irq,            \* the device's interrupt line
    handler,        \* virtio_disk_intr() is between the acknowledgement and its loop
    pc, cur, idx,   \* of a process: its step, its buffer, its request's first descriptor
    pinned,         \* blocks pinned by the log
    latest          \* history: what was last stored in the block's buffer

cache  == <<buf, lru>>
driver == <<free, chain, avail, used, irq, handler>>
vars   == <<cache, platter, driver, pc, cur, idx, pinned, latest>>

PCs == {"idle", "lock", "lsleep", "own", "read", "write", "rsleep", "wsleep",
        "rwait", "wwait", "rdone", "wdone", "unpin", "relse", "panic"}

TypeOK ==
    /\ buf \in [Buf -> [blockno : Block \cup {0}, valid : BOOLEAN, disk : BOOLEAN,
                        refcnt : Nat, data : Data,
                        locked : Proc \cup {0}]]
    /\ lru \in [Buf -> Buf] /\ {lru[k] : k \in Buf} = Buf
    /\ platter \in [Block -> Data]
    /\ free \subseteq Desc
    /\ chain \in [Desc -> [ids : SUBSET Desc, b : 0 .. NBUF, write : BOOLEAN]]
    /\ avail \in Seq(Desc) /\ used \in Seq(Desc)
    /\ irq \in BOOLEAN /\ handler \in BOOLEAN
    /\ pc \in [Proc -> PCs]
    /\ cur \in [Proc -> 0 .. NBUF]
    /\ idx \in [Proc -> Desc]
    /\ pinned \subseteq Changed
    /\ latest \in [Block -> Data]

\* An unused buffer, and a descriptor that starts no request.
EmptyBuf  == [blockno |-> 0, valid |-> FALSE, disk |-> FALSE, refcnt |-> 0, data |-> 0,
              locked |-> 0]
NoRequest == [ids |-> {}, b |-> 0, write |-> FALSE]

Goto(p, s) == pc' = [pc EXCEPT ![p] = s]
Mine(p) == buf[cur[p]]

----------------------------------------------------------------------------
(* bio.c and sleeplock.c                                                   *)

Cached(n) == {b \in Buf : buf[b].blockno = n}

\* bget() finds the block; its sleep-lock comes next.
BgetHit(p, n) ==
    /\ pc[p] = "idle"
    /\ \E b \in Cached(n) :
        /\ buf' = [buf EXCEPT ![b].refcnt = @ + 1]
        /\ cur' = [cur EXCEPT ![p] = b]
    /\ Goto(p, "lock")
    /\ UNCHANGED <<lru, platter, driver, idx, pinned, latest>>

Unused(k) == buf[lru[k]].refcnt = 0

\* Mutant of BgetMiss: the recycled buffer stays valid.
BgetMissValid(p, n) ==
    /\ pc[p] = "idle"
    /\ Cached(n) = {}
    /\ \E k \in Buf :
        /\ Unused(k) /\ \A j \in Buf : Unused(j) => j <= k
        /\ buf' = [buf EXCEPT ![lru[k]].blockno = n,
                              ![lru[k]].refcnt = 1]
        /\ cur' = [cur EXCEPT ![p] = lru[k]]
    /\ Goto(p, "lock")
    /\ UNCHANGED <<lru, platter, driver, idx, pinned, latest>>

\* bget() recycles the last unused buffer of the list.
BgetMiss(p, n) ==
    /\ pc[p] = "idle"
    /\ Cached(n) = {}
    /\ \E k \in Buf :
        /\ Unused(k) /\ \A j \in Buf : Unused(j) => j <= k
        /\ buf' = [buf EXCEPT ![lru[k]].blockno = n, ![lru[k]].valid = FALSE,
                              ![lru[k]].refcnt = 1]
        /\ cur' = [cur EXCEPT ![p] = lru[k]]
    /\ Goto(p, "lock")
    /\ UNCHANGED <<lru, platter, driver, idx, pinned, latest>>

\* panic("bget: no buffers"): every buffer is in use or pinned.
BgetPanic(p, n) ==
    /\ pc[p] = "idle"
    /\ Cached(n) = {}
    /\ \A k \in Buf : ~Unused(k)
    /\ Goto(p, "panic")
    /\ UNCHANGED <<cache, platter, driver, cur, idx, pinned, latest>>

\* bread() goes to the disk unless the buffer is valid.
BreadNext(p) == IF Mine(p).valid THEN "own" ELSE "read"

\* acquiresleep() takes the lock, or sleeps until releasesleep().
AcquireSleep(p) ==
    /\ pc[p] = "lock"
    /\ IF Mine(p).locked = 0
       THEN buf' = [buf EXCEPT ![cur[p]].locked = p] /\ Goto(p, BreadNext(p))
       ELSE UNCHANGED buf /\ Goto(p, "lsleep")
    /\ UNCHANGED <<lru, platter, driver, cur, idx, pinned, latest>>

\* The caller stores into the buffer and writes it through.
Store(p) ==
    /\ buf' = [buf EXCEPT ![cur[p]].data = 1 - @]
    /\ latest' = [latest EXCEPT ![Mine(p).blockno] = 1 - @]

BwriteNew(p) ==
    /\ pc[p] = "own"
    /\ Mine(p).blockno \in Changed \ pinned
    /\ Store(p)
    /\ Goto(p, "write")
    /\ UNCHANGED <<lru, platter, driver, cur, idx, pinned>>

\* log_write(): the caller stores into the buffer; bpin() keeps it in the cache.
Bpin(p) ==
    LET n == Mine(p).blockno IN
    /\ pc[p] = "own"
    /\ n \in Changed
    /\ n \in pinned \/ Cardinality(pinned) < MaxPins
    /\ buf' = [buf EXCEPT ![cur[p]].data = 1 - @,
                          ![cur[p]].refcnt = IF n \in pinned THEN @ ELSE @ + 1]
    /\ latest' = [latest EXCEPT ![n] = 1 - @]
    /\ pinned' = pinned \cup {n}
    /\ UNCHANGED <<lru, platter, driver, pc, cur, idx>>

\* install_trans() writes a pinned block to its home location.
BwritePinned(p) ==
    /\ pc[p] = "own"
    /\ Mine(p).blockno \in pinned
    /\ Goto(p, "write")
    /\ UNCHANGED <<cache, platter, driver, cur, idx, pinned, latest>>

Bunpin(p) ==
    /\ pc[p] = "unpin"
    /\ buf' = [buf EXCEPT ![cur[p]].refcnt = @ - 1]
    /\ pinned' = pinned \ {Mine(p).blockno}
    /\ Goto(p, "own")
    /\ UNCHANGED <<lru, platter, driver, cur, idx, latest>>

\* releasesleep() wakes the processes that wait for the buffer.
Releasesleep(p) ==
    pc' = [q \in Proc |-> CASE q = p -> "relse"
                            [] q # p /\ pc[q] = "lsleep" /\ cur[q] = cur[p] -> "lock"
                            [] OTHER -> pc[q]]

\* brelse(): first the sleep-lock ...
Brelse(p) ==
    /\ pc[p] = "own"
    /\ buf' = [buf EXCEPT ![cur[p]].locked = 0]
    /\ Releasesleep(p)
    /\ UNCHANGED <<lru, platter, driver, cur, idx, pinned, latest>>

\* The list with b taken out and put behind its head.
ToFront(b) ==
    LET i == CHOOSE i \in Buf : lru[i] = b IN
    [k \in Buf |-> IF k = 1 THEN b ELSE IF k <= i THEN lru[k - 1] ELSE lru[k]]

\* Mutant of BrelseRef: a buffer that somebody waits for keeps the reference.
BrelseRefKeeps(p) ==
    LET b == cur[p] IN
    /\ pc[p] = "relse"
    /\ buf' = [buf EXCEPT ![b].refcnt = IF @ = 1 THEN 0 ELSE @]
    /\ lru' = IF Mine(p).refcnt = 1 THEN ToFront(b) ELSE lru
    /\ cur' = [cur EXCEPT ![p] = 0]
    /\ Goto(p, "idle")
    /\ UNCHANGED <<platter, driver, idx, pinned, latest>>

\* ... then the reference; an unused buffer moves to the front of the list.
BrelseRef(p) ==
    LET b == cur[p] IN
    /\ pc[p] = "relse"
    /\ buf' = [buf EXCEPT ![b].refcnt = @ - 1]
    /\ lru' = IF Mine(p).refcnt = 1 THEN ToFront(b) ELSE lru
    /\ cur' = [cur EXCEPT ![p] = 0]
    /\ Goto(p, "idle")
    /\ UNCHANGED <<platter, driver, idx, pinned, latest>>

----------------------------------------------------------------------------
(* virtio_disk.c                                                           *)

\* alloc3_desc() takes the lowest free descriptors.
Three ==
    CHOOSE ids \in SUBSET free :
        Cardinality(ids) = 3 /\ \A i \in ids, j \in free \ ids : i < j
Lowest(ids) == CHOOSE i \in ids : \A j \in ids : i <= j

\* wakeup(&disk.free[0]), process p going on at s.
WakeFree(p, s) ==
    pc' = [q \in Proc |-> CASE q = p -> s
                            [] q # p /\ pc[q] = "rsleep" -> "read"
                            [] q # p /\ pc[q] = "wsleep" -> "write"
                            [] OTHER -> pc[q]]

\* virtio_disk_rw(): three descriptors are there; submit and sleep on the buffer.
Submit(p) ==
    LET head == Lowest(Three) IN
    /\ pc[p] \in {"read", "write"} /\ ~handler
    /\ Cardinality(free) >= 3
    /\ free' = free \ Three
    /\ chain' = [chain EXCEPT ![head] = [ids |-> Three, b |-> cur[p], write |-> pc[p] = "write"]]
    /\ buf' = [buf EXCEPT ![cur[p]].disk = TRUE]
    /\ avail' = Append(avail, head)
    /\ idx' = [idx EXCEPT ![p] = head]
    /\ Goto(p, IF pc[p] = "read" THEN "rwait" ELSE "wwait")
    /\ UNCHANGED <<lru, platter, used, irq, handler, cur, pinned, latest>>

\* There are not three: what was taken is freed again, which wakes the other
\* processes that wait, and the process sleeps.
NoDesc(p) ==
    LET s == IF pc[p] = "read" THEN "rsleep" ELSE "wsleep" IN
    /\ pc[p] \in {"read", "write"} /\ ~handler
    /\ Cardinality(free) < 3
    /\ IF free = {} THEN Goto(p, s) ELSE WakeFree(p, s)
    /\ UNCHANGED <<cache, platter, driver, cur, idx, pinned, latest>>

\* The device carries out a request, in any order, and raises its interrupt.
Device(k) ==
    LET d == avail[k]
        c == chain[d]
        n == buf[c.b].blockno
    IN
    /\ IF c.write
       THEN platter' = [platter EXCEPT ![n] = buf[c.b].data] /\ UNCHANGED buf
       ELSE buf' = [buf EXCEPT ![c.b].data = platter[n]] /\ UNCHANGED platter
    /\ avail' = [j \in 1 .. Len(avail) - 1 |-> avail[IF j < k THEN j ELSE j + 1]]
    /\ used' = Append(used, d)
    /\ irq' = TRUE
    /\ UNCHANGED <<lru, free, chain, handler, pc, cur, idx, pinned, latest>>

\* virtio_disk_intr(): acknowledge the interrupt ...
IntrAck ==
    /\ irq /\ ~handler
    /\ irq' = FALSE
    /\ handler' = TRUE
    /\ UNCHANGED <<cache, platter, free, chain, avail, used, pc, cur, idx, pinned, latest>>

\* Mutant of IntrLoop: it takes one entry of the used ring.
IntrLoopOne ==
    LET done == IF used = <<>> THEN {} ELSE {chain[used[1]].b} IN
    /\ handler
    /\ buf' = [b \in Buf |-> IF b \in done THEN [buf[b] EXCEPT !.disk = FALSE] ELSE buf[b]]
    /\ pc' = [p \in Proc |-> CASE pc[p] = "rwait" /\ cur[p] \in done -> "rdone"
                               [] pc[p] = "wwait" /\ cur[p] \in done -> "wdone"
                               [] OTHER -> pc[p]]
    /\ used' = IF used = <<>> THEN used ELSE Tail(used)
    /\ handler' = FALSE
    /\ UNCHANGED <<lru, platter, free, chain, avail, irq, cur, idx, pinned, latest>>

\* ... then take every entry of the used ring and wake the owner of its buffer.
IntrLoop ==
    LET done == {chain[used[k]].b : k \in DOMAIN used} IN
    /\ handler
    /\ buf' = [b \in Buf |-> IF b \in done THEN [buf[b] EXCEPT !.disk = FALSE] ELSE buf[b]]
    /\ pc' = [p \in Proc |-> CASE pc[p] = "rwait" /\ cur[p] \in done -> "rdone"
                               [] pc[p] = "wwait" /\ cur[p] \in done -> "wdone"
                               [] OTHER -> pc[p]]
    /\ used' = <<>>
    /\ handler' = FALSE
    /\ UNCHANGED <<lru, platter, free, chain, avail, irq, cur, idx, pinned, latest>>

\* Where virtio_disk_rw() returns to.
AfterDisk(p) ==
    CASE pc[p] = "rdone" -> "own"
      [] pc[p] = "wdone" /\ Mine(p).blockno \in pinned -> "unpin"
      [] OTHER -> "own"

\* Mutant of Finish: free_chain() does not follow the last link.
FinishShort(p) ==
    /\ pc[p] \in {"rdone", "wdone"} /\ ~handler /\ ~Mine(p).disk
    /\ free' = free \cup {i \in chain[idx[p]].ids : \E j \in chain[idx[p]].ids : i < j}
    /\ chain' = [chain EXCEPT ![idx[p]] = NoRequest]
    /\ WakeFree(p, AfterDisk(p))
    /\ buf' = [buf EXCEPT ![cur[p]].valid = TRUE]
    /\ idx' = [idx EXCEPT ![p] = 0]
    /\ UNCHANGED <<lru, platter, avail, used, irq, handler, cur, pinned, latest>>

\* free_chain() follows the links from the first descriptor.
FreeChain(d) == free' = free \cup chain[d].ids /\ chain' = [chain EXCEPT ![d] = NoRequest]

\* The process finds b->disk clear and frees the chain; bread() sets b->valid.
Finish(p) ==
    /\ pc[p] \in {"rdone", "wdone"} /\ ~handler /\ ~Mine(p).disk
    /\ FreeChain(idx[p])
    /\ WakeFree(p, AfterDisk(p))
    /\ buf' = [buf EXCEPT ![cur[p]].valid = TRUE]
    /\ idx' = [idx EXCEPT ![p] = 0]
    /\ UNCHANGED <<lru, platter, avail, used, irq, handler, cur, pinned, latest>>

----------------------------------------------------------------------------
(* The specification                                                       *)

\* virtio_disk_init(): all descriptors are unused, the rings are empty.
VirtioDiskInit ==
    /\ free = Desc
    /\ chain = [d \in Desc |-> NoRequest]
    /\ avail = <<>> /\ used = <<>>
    /\ irq = FALSE /\ handler = FALSE

\* binit(), and the driver.
Init ==
    /\ buf = [b \in Buf |-> EmptyBuf]
    /\ lru = [k \in Buf |-> NBUF + 1 - k]
    /\ platter = [n \in Block |-> 0]
    /\ VirtioDiskInit
    /\ pc = [p \in Proc |-> "idle"]
    /\ cur = [p \in Proc |-> 0]
    /\ idx = [p \in Proc |-> 0]
    /\ pinned = {}
    /\ latest = [n \in Block |-> 0]

Step(p) ==
    \/ \E n \in Block : BgetHit(p, n) \/ BgetMiss(p, n) \/ BgetPanic(p, n)
    \/ BwriteNew(p) \/ BwritePinned(p) \/ Bpin(p)
    \/ Bunpin(p) \/ Brelse(p) \/ BrelseRef(p)
    \/ AcquireSleep(p) \/ Submit(p) \/ NoDesc(p) \/ Finish(p)

Next ==
    \/ \E p \in Proc : Step(p)
    \/ IntrAck \/ IntrLoop
    \/ \E k \in DOMAIN avail : Device(k)

Spec == Init /\ [][Next]_vars

----------------------------------------------------------------------------
(* Properties                                                              *)

\* At most one buffer holds a block.
OneBuffer ==
    \A b, c \in Buf : buf[b].blockno # 0 /\ buf[b].blockno = buf[c].blockno => b = c

\* A process that holds a buffer sees what was last stored in the block, and it
\* is the only buffer for it, although buffers are recycled and blocks travel to
\* the disk and back.
OwnerSeesLatest ==
    /\ OneBuffer
    /\ \A p \in Proc : pc[p] = "own" =>
        /\ Mine(p).locked = p /\ ~Mine(p).disk
        /\ Mine(p).data = latest[Mine(p).blockno]

\* refcnt counts the processes that use or wait for the buffer, and the pin: no
\* buffer is recycled under anybody, and none is kept for nobody.
RefsExact ==
    \A b \in Buf : buf[b].refcnt =
        Cardinality({p \in Proc : cur[p] = b})
        + (IF buf[b].blockno \in pinned THEN 1 ELSE 0)

\* Every descriptor is free or belongs to one request in progress, and nobody
\* sleeps for descriptors while three are free.
Descriptors ==
    LET busy == {p \in Proc : pc[p] \in {"rwait", "wwait", "rdone", "wdone"}} IN
    /\ free = Desc \ UNION {chain[idx[p]].ids : p \in busy}
    /\ \A p, q \in busy : p # q => chain[idx[p]].ids \cap chain[idx[q]].ids = {}
    /\ \A p \in Proc : pc[p] \in {"rsleep", "wsleep"} => Cardinality(free) < 3

\* No completion is lost: the request of every process that sleeps for the disk
\* is with the device or in the used ring, and while the ring is not empty the
\* handler is going to look at it.
NoLostCompletion ==
    /\ \A p \in Proc : pc[p] \in {"rwait", "wwait"} =>
        Mine(p).disk /\ \E k \in DOMAIN (avail \o used) : (avail \o used)[k] = idx[p]
    /\ used # <<>> => irq \/ handler
=============================================================================
