---------------------------- MODULE BcacheProofs ----------------------------
(***************************************************************************)
(* Proofs about module Bcache, for any finite set of processes, any blocks,*)
(* any number of buffers and any number of descriptors from three on.      *)
(***************************************************************************)
EXTENDS Bcache, FiniteSetTheorems, SequenceTheorems, WellFoundedInduction, TLAPS

\* Between acquiresleep() and releasesleep(); in virtio_disk_rw() after the
\* request; asleep for its completion; in bread()'s part for an invalid buffer.
Holding == {"own", "read", "write", "rsleep", "wsleep", "rwait", "wwait",
            "rdone", "wdone", "unpin"}
Busy    == {"rwait", "wwait", "rdone", "wdone"}
Waiting == {"rwait", "wwait"}
Reading == {"read", "rsleep", "rwait", "rdone"}

InAvail(d) == \E k \in DOMAIN avail : avail[k] = d
InUsed(d)  == \E k \in DOMAIN used : used[k] = d

Users(b) == {p \in Proc : cur[p] = b}

BufRec == [blockno : Block \cup {0}, valid : BOOLEAN, disk : BOOLEAN, refcnt : Nat,
           data : Data, locked : Proc \cup {0}]

ChainRec == [ids : SUBSET Desc, b : 0 .. NBUF, write : BOOLEAN]

\* Who refers to which buffer.
UserInv ==
    /\ \A p \in Proc : cur[p] = 0 <=> pc[p] \in {"idle", "panic"}
    /\ \A p \in Proc : cur[p] # 0 => buf[cur[p]].blockno # 0
    /\ \A n \in pinned : \E b \in Buf : buf[b].blockno = n
    /\ OneBuffer
    /\ RefsExact

\* The sleep-lock's holder, and whose request is with the disk.
LockInv ==
    /\ \A p \in Proc : pc[p] \in Holding => buf[cur[p]].locked = p
    /\ \A p \in Proc : pc[p] \in Waiting => buf[cur[p]].disk
    /\ \A b \in Buf : buf[b].disk => \E p \in Proc : cur[p] = b /\ pc[p] \in Waiting

\* The rings hold the requests of the processes that sleep for them, each once.
RingInv ==
    /\ \A p \in Proc : pc[p] \in Waiting => InAvail(idx[p]) \/ InUsed(idx[p])
    /\ \A d \in Desc : InAvail(d) \/ InUsed(d) =>
        \E p \in Proc : pc[p] \in Waiting /\ idx[p] = d
    /\ \A j, k \in DOMAIN avail : avail[j] = avail[k] => j = k
    /\ \A d \in Desc : ~(InAvail(d) /\ InUsed(d))
    /\ used # << >> => irq \/ handler

\* The descriptors of a request belong to it alone and describe it; the others
\* are free, and nobody sleeps for descriptors while three are.
ChainInv ==
    /\ \A p \in Proc : pc[p] \in Busy =>
        /\ idx[p] \in chain[idx[p]].ids
        /\ chain[idx[p]].b = cur[p]
        /\ chain[idx[p]].write <=> pc[p] \in {"wwait", "wdone"}
    /\ \A d \in Desc : d \in free <=>
        \A p \in Proc : pc[p] \in Busy => d \notin chain[idx[p]].ids
    /\ \A p, q \in Proc : pc[p] \in Busy /\ pc[q] \in Busy /\ p # q =>
        chain[idx[p]].ids \cap chain[idx[q]].ids = {}
    /\ \A p \in Proc : pc[p] \in {"rsleep", "wsleep"} => Cardinality(free) < 3

\* Which copies of a block are the latest.
DataInv ==
    /\ \A b \in Buf : buf[b].valid =>
        buf[b].blockno # 0 /\ buf[b].data = latest[buf[b].blockno]
    /\ \A n \in Block : platter[n] # latest[n] =>
        \/ n \in pinned
        \/ \E p \in Proc : /\ pc[p] \in {"write", "wsleep", "wwait"}
                           /\ buf[cur[p]].blockno = n
    /\ \A p \in Proc :
        pc[p] \in {"wdone", "unpin"} \/ (pc[p] = "wwait" /\ InUsed(idx[p])) =>
            platter[buf[cur[p]].blockno] = latest[buf[cur[p]].blockno]
    /\ \A p \in Proc :
        pc[p] = "rdone" \/ (pc[p] = "rwait" /\ InUsed(idx[p])) =>
            buf[cur[p]].data = latest[buf[cur[p]].blockno]
    /\ \A p \in Proc : pc[p] \in Holding => (buf[cur[p]].valid <=> pc[p] \notin Reading)
    /\ \A b \in Buf : buf[b].blockno \in pinned => buf[b].valid
    /\ \A p \in Proc : pc[p] = "unpin" => buf[cur[p]].blockno \in pinned

Inv == TypeOK /\ UserInv /\ LockInv /\ RingInv /\ ChainInv /\ DataInv

----------------------------------------------------------------------------
(* Helpers                                                                 *)

\* A set of naturals that is not empty has a least element.
LEMMA LeastNatural ==
    ASSUME NEW T, T \subseteq Nat, T # {}
    PROVE  \E x \in T : \A y \in T : x <= y
  <1>1. \E x \in T : \A y \in T : ~(<<y, x>> \in OpToRel(<, Nat))
    BY NatLessThanWellFounded, WFMin
  <1>2. PICK x \in T : \A y \in T : ~(<<y, x>> \in OpToRel(<, Nat)) BY <1>1
  <1>3. \A y \in T : y \in Nat /\ x \in Nat BY <1>2
  <1>4. \A y \in T : ~(y < x) BY <1>2, <1>3 DEF OpToRel
  <1> QED BY <1>3, <1>4

\* alloc3_desc() succeeds whenever three descriptors are free: the three lowest
\* exist, and the first of them is one of them.
LEMMA ThreeThere ==
    ASSUME free \subseteq Desc, Cardinality(free) >= 3
    PROVE  /\ Three \subseteq free /\ Cardinality(Three) = 3
           /\ Lowest(Three) \in Three /\ IsFiniteSet(free)
  <1> USE BcacheAssumption
  <1>1. IsFiniteSet(free) /\ free \subseteq Nat /\ Cardinality(free) \in Nat
    <2>1. IsFiniteSet(Desc) /\ Desc \subseteq Nat BY FS_Interval DEF Desc
    <2> QED BY <2>1, FS_Subset, FS_CardinalityType
  <1>2. free # {} BY <1>1, FS_EmptySet
  <1>3. PICK x \in free : \A j \in free : x <= j BY <1>1, <1>2, LeastNatural
  <1> DEFINE F == free \ {x}
  <1>4. IsFiniteSet(F) /\ Cardinality(F) = Cardinality(free) - 1 /\ F \subseteq Nat
    BY <1>1, <1>3, FS_RemoveElement
  <1>5. F # {} BY <1>1, <1>4, FS_EmptySet
  <1>6. PICK y \in F : \A j \in F : y <= j
    <2> HIDE DEF F
    <2> QED BY <1>4, <1>5, LeastNatural
  <1> DEFINE G == F \ {y}
  <1>7. IsFiniteSet(G) /\ Cardinality(G) = Cardinality(F) - 1 /\ G \subseteq Nat
    <2> HIDE DEF F
    <2> QED BY <1>4, <1>6, FS_RemoveElement
  <1>8. G # {}
    <2> HIDE DEF F, G
    <2> QED BY <1>1, <1>4, <1>7, FS_EmptySet
  <1>9. PICK z \in G : \A j \in G : z <= j
    <2> HIDE DEF G
    <2> QED BY <1>7, <1>8, LeastNatural
  <1> DEFINE ids == {x, y, z}
  <1>10. x \in Nat /\ y \in Nat /\ z \in Nat /\ x # y /\ x # z /\ y # z BY <1>1
  <1>11. ids \in SUBSET free OBVIOUS
  <1>12. Cardinality(ids) = 3
    <2>1. IsFiniteSet({x}) /\ Cardinality({x}) = 1 BY FS_Singleton
    <2>2. IsFiniteSet({x} \cup {y}) /\ Cardinality({x} \cup {y}) = 2
      <3> DEFINE P == {x}
      <3> HIDE DEF P
      <3>1. IsFiniteSet(P) /\ Cardinality(P) = 1 /\ y \notin P BY <1>10, <2>1 DEF P
      <3>2. IsFiniteSet(P \cup {y}) /\ Cardinality(P \cup {y}) = 1 + 1
        BY <3>1, FS_AddElement
      <3> QED BY <3>2 DEF P
    <2>3. z \notin {x} \cup {y} BY <1>10
    <2>5. Cardinality(({x} \cup {y}) \cup {z}) = 3
      <3> DEFINE P == {x} \cup {y}
      <3> HIDE DEF P
      <3>1. Cardinality(P \cup {z}) = 2 + 1 BY <2>2, <2>3, FS_AddElement DEF P
      <3> QED BY <3>1 DEF P
    <2>4. ids = ({x} \cup {y}) \cup {z} OBVIOUS
    <2> QED BY <2>5, <2>4
  <1>13. \A i \in ids, j \in free \ ids : i < j
    <2>1. SUFFICES ASSUME NEW j \in free \ ids PROVE x < j /\ y < j /\ z < j OBVIOUS
    <2>2. j \in Nat /\ j # x /\ j # y /\ j # z /\ j \in F /\ j \in G BY <1>1
    <2>3. x <= j /\ y <= j /\ z <= j BY <1>3, <1>6, <1>9, <2>2
    <2> HIDE DEF F, G, ids
    <2> QED BY <1>10, <2>2, <2>3
  <1>14. Three \in SUBSET free /\ Cardinality(Three) = 3
    <2> HIDE DEF ids
    <2> QED BY <1>11, <1>12, <1>13 DEF Three
  <1>15. Three \subseteq Nat /\ Three # {} /\ IsFiniteSet(Three)
    <2>1. Three \subseteq Nat /\ IsFiniteSet(Three) BY <1>1, <1>14, FS_Subset
    <2> QED BY <1>14, <2>1, FS_EmptySet
  <1>16. Lowest(Three) \in Three
    <2>1. \E i \in Three : \A j \in Three : i <= j BY <1>15, LeastNatural
    <2> QED BY <2>1 DEF Lowest
  <1> QED BY <1>1, <1>14, <1>16

\* The list stays a list of all buffers when one moves to its front.
LEMMA ToFrontType ==
    ASSUME TypeOK, NEW b \in Buf
    PROVE  ToFront(b) \in [Buf -> Buf] /\ {ToFront(b)[k] : k \in Buf} = Buf
  <1> USE BcacheAssumption DEF Buf
  <1>1. lru \in [Buf -> Buf] /\ \A c \in Buf : \E k \in Buf : lru[k] = c BY DEF TypeOK
  <1>2. PICK i \in Buf : i = CHOOSE j \in Buf : lru[j] = b
    <2>1. \E j \in Buf : lru[j] = b BY <1>1
    <2> QED BY <2>1
  <1>3. lru[i] = b
    <2>1. \E j \in Buf : lru[j] = b BY <1>1
    <2> QED BY <1>2, <2>1
  <1>4. ToFront(b) = [k \in Buf |-> IF k = 1 THEN b ELSE IF k <= i THEN lru[k - 1] ELSE lru[k]]
    BY <1>2 DEF ToFront
  <1>5. \A k \in Buf : k # 1 => k - 1 \in Buf BY <1>2
  <1>6. ToFront(b) \in [Buf -> Buf]
    <2>1. \A k \in Buf :
            (IF k = 1 THEN b ELSE IF k <= i THEN lru[k - 1] ELSE lru[k]) \in Buf
      <3> HIDE DEF Buf
      <3> QED BY <1>1, <1>5
    <2> HIDE DEF Buf
    <2> QED BY <1>4, <2>1
  <1>7. ASSUME NEW c \in Buf PROVE \E k \in Buf : ToFront(b)[k] = c
    <2>1. PICK j \in Buf : lru[j] = c BY <1>1
    <2>2. CASE j = i
      <3>1. 1 \in Buf BY <1>2
      <3> QED BY <1>3, <1>4, <2>1, <2>2, <3>1
    <2>3. CASE j < i
      <3>1. j + 1 \in Buf /\ j + 1 # 1 /\ j + 1 <= i /\ j + 1 - 1 = j BY <1>2, <2>3
      <3>2. PICK k \in Buf : k = j + 1 BY <3>1
      <3>3. k # 1 /\ k <= i /\ k - 1 = j BY <3>1, <3>2
      <3> HIDE DEF Buf
      <3>4. ToFront(b)[k] = lru[k - 1] BY <1>4, <3>3
      <3> QED BY <2>1, <3>3, <3>4
    <2>4. CASE j > i
      <3>1. j # 1 /\ ~(j <= i) BY <1>2, <2>4
      <3> QED BY <1>4, <2>1, <3>1
    <2> QED BY <2>2, <2>3, <2>4
  <1>8. \A k \in Buf : ToFront(b)[k] \in Buf BY <1>6
  <1> HIDE DEF Buf
  <1> QED BY <1>6, <1>7, <1>8

\* Taking one entry out of a ring keeps the others, each where it was once.
LEMMA RemoveEntry ==
    ASSUME avail \in Seq(Desc), NEW k \in DOMAIN avail,
           avail' = [j \in 1 .. Len(avail) - 1 |-> avail[IF j < k THEN j ELSE j + 1]]
    PROVE  /\ avail' \in Seq(Desc)
           /\ \A d : (\E j \in DOMAIN avail' : avail'[j] = d) <=> \E i \in DOMAIN avail : i # k /\ avail[i] = d
           /\ (\A i, j \in DOMAIN avail : avail[i] = avail[j] => i = j) =>
                \A i, j \in DOMAIN avail' : avail'[i] = avail'[j] => i = j
  <1>1. /\ Len(avail) \in Nat /\ DOMAIN avail = 1 .. Len(avail) /\ \A i \in 1 .. Len(avail) : avail[i] \in Desc
        /\ k \in 1 .. Len(avail)
    BY LenProperties, ElementOfSeq
  <1> DEFINE n == Len(avail) - 1
             From(j) == IF j < k THEN j ELSE j + 1
  <1>2. n \in Nat BY <1>1
  <1>3. \A j \in 1 .. n : From(j) \in 1 .. Len(avail) /\ From(j) # k BY <1>1
  <1>4. DOMAIN avail' = 1 .. n /\ \A j \in 1 .. n : avail'[j] = avail[From(j)] OBVIOUS
  <1>5. avail' \in [1 .. n -> Desc]
    <2> HIDE DEF n, From
    <2>1. avail' = [j \in 1 .. n |-> avail[From(j)]] BY DEF n, From
    <2> QED BY <1>1, <1>3, <2>1
  <1>6. avail' \in Seq(Desc)
    <2> HIDE DEF n
    <2> QED BY <1>2, <1>5, SeqDef
  <1>7. ASSUME NEW i \in 1 .. Len(avail), i # k PROVE \E j \in 1 .. n : From(j) = i
    <2>1. CASE i < k
      <3>1. i \in 1 .. n /\ From(i) = i BY <1>1, <2>1
      <3> QED BY <3>1
    <2>2. CASE i > k
      <3>1. i - 1 \in 1 .. n /\ From(i - 1) = i BY <1>1, <2>2
      <3> QED BY <3>1
    <2> QED BY <1>1, <1>7, <2>1, <2>2
  <1>8. \A i, j \in 1 .. n : From(i) = From(j) => i = j BY <1>1
  <1> HIDE DEF n, From
  <1>9. ASSUME NEW d PROVE (\E j \in DOMAIN avail' : avail'[j] = d) <=> \E i \in DOMAIN avail : i # k /\ avail[i] = d
    <2>1. ASSUME NEW j \in DOMAIN avail', avail'[j] = d PROVE \E i \in DOMAIN avail : i # k /\ avail[i] = d
      BY <1>1, <1>3, <1>4, <2>1
    <2>2. ASSUME NEW i \in DOMAIN avail, i # k, avail[i] = d PROVE \E j \in DOMAIN avail' : avail'[j] = d
      <3>1. i \in 1 .. Len(avail) BY <1>1
      <3>2. PICK j \in 1 .. n : From(j) = i BY <1>7, <2>2, <3>1
      <3> QED BY <1>4, <2>2, <3>2
    <2> QED BY <2>1, <2>2
  <1>10. ASSUME \A i, j \in DOMAIN avail : avail[i] = avail[j] => i = j, NEW i \in DOMAIN avail', NEW j \in DOMAIN avail',
                avail'[i] = avail'[j]
         PROVE  i = j
    <2>1. avail[From(i)] = avail[From(j)] BY <1>4, <1>10
    <2>2. From(i) = From(j) BY <1>1, <1>3, <1>4, <1>10, <2>1
    <2> QED BY <1>4, <1>8, <2>2
  <1> QED BY <1>6, <1>9, <1>10

----------------------------------------------------------------------------
(* Types                                                                   *)

\* The buffer of a process that has one.
LEMMA CurBuf ==
    ASSUME TypeOK, UserInv, NEW p \in Proc, pc[p] \notin {"idle", "panic"}
    PROVE  /\ cur[p] \in Buf
           /\ buf[cur[p]].blockno \in Block
           /\ p \in Users(cur[p])
           /\ IsFiniteSet(Users(cur[p]))
           /\ buf[cur[p]].refcnt >= 1
  <1>1. cur[p] \in Buf
    <2>1. cur[p] \in 0 .. NBUF /\ cur[p] # 0 BY DEF TypeOK, UserInv
    <2> QED BY <2>1, BcacheAssumption DEF Buf
  <1>2. buf[cur[p]].blockno \in Block
    <2>1. buf[cur[p]].blockno \in Block \cup {0} BY <1>1 DEF TypeOK
    <2>2. buf[cur[p]].blockno # 0 BY <1>1, BcacheAssumption DEF UserInv, Buf
    <2> QED BY <2>1, <2>2
  <1>3. p \in Users(cur[p]) /\ Users(cur[p]) \subseteq Proc BY DEF Users
  <1>4. IsFiniteSet(Users(cur[p])) /\ Cardinality(Users(cur[p])) \in Nat \ {0}
    BY <1>3, BcacheAssumption, FS_Subset, FS_CardinalityType, FS_EmptySet
  <1>5. buf[cur[p]].refcnt = Cardinality(Users(cur[p])) +
          (IF buf[cur[p]].blockno \in pinned THEN 1 ELSE 0)
    BY <1>1 DEF UserInv, RefsExact, Users
  <1> QED BY <1>1, <1>2, <1>3, <1>4, <1>5

\* The fresh cache satisfies the invariant.
LEMMA Init_Inv == Init => Inv
  <1> SUFFICES ASSUME Init PROVE Inv OBVIOUS
  <1> USE BcacheAssumption
  <1>1. TypeOK
    <2>1. buf \in [Buf -> [blockno : Block \cup {0}, valid : BOOLEAN, disk : BOOLEAN,
                           refcnt : Nat, data : Data, locked : Proc \cup {0}]]
      BY DEF Init, EmptyBuf, Data
    <2>2. lru \in [Buf -> Buf] BY DEF Init, Buf
    <2>3. {lru[k] : k \in Buf} = Buf
      <3>1. \A k \in Buf : lru[k] \in Buf BY <2>2
      <3>2. ASSUME NEW c \in Buf PROVE \E k \in Buf : lru[k] = c
        <4>1. NBUF + 1 - c \in Buf /\ NBUF + 1 - (NBUF + 1 - c) = c BY DEF Buf
        <4> QED BY <4>1 DEF Init
      <3> QED BY <3>1, <3>2
    <2>4. << >> \in Seq(Desc) OBVIOUS
    <2>5. 0 \in Desc /\ 0 \in 0 .. NBUF BY DEF Desc
    <2>6. chain \in [Desc -> [ids : SUBSET Desc, b : 0 .. NBUF, write : BOOLEAN]]
      BY <2>5 DEF Init, VirtioDiskInit, NoRequest
    <2>7. /\ pc \in [Proc -> PCs] /\ cur \in [Proc -> 0 .. NBUF] /\ idx \in [Proc -> Desc]
          /\ platter \in [Block -> Data] /\ latest \in [Block -> Data]
      BY <2>5 DEF Init, PCs, Data
    <2> QED BY <2>1, <2>2, <2>3, <2>4, <2>6, <2>7 DEF Init, VirtioDiskInit, TypeOK
  <1>2. UserInv
    <2>1. \A b \in Buf : buf[b].refcnt = 0 /\ buf[b].blockno = 0 BY DEF Init, EmptyBuf
    <2>2. \A b \in Buf : Users(b) = {} BY DEF Init, Users, Buf
    <2>3. RefsExact
      <3>1. \A b \in Buf : Cardinality(Users(b)) = 0 BY <2>2, FS_EmptySet
      <3>2. \A b \in Buf : buf[b].blockno \notin pinned BY DEF Init
      <3> QED BY <2>1, <3>1, <3>2 DEF RefsExact, Users
    <2> QED BY <2>1, <2>3 DEF UserInv, OneBuffer, Init
  <1>3. LockInv BY DEF Init, LockInv, Holding, Waiting, EmptyBuf
  <1>4. RingInv BY DEF Init, VirtioDiskInit, RingInv, Waiting, InAvail, InUsed
  <1>5. ChainInv
    <2>1. {p \in Proc : pc[p] \in Busy} = {} BY DEF Init, Busy
    <2> QED BY <2>1 DEF Init, VirtioDiskInit, ChainInv, Busy
  <1>6. DataInv BY DEF Init, DataInv, EmptyBuf, Holding, Reading
  <1> QED BY <1>1, <1>2, <1>3, <1>4, <1>5, <1>6 DEF Inv

----------------------------------------------------------------------------
(* Stores into a buffer                                                    *)

\* Storing a buffer's refcnt field leaves the other fields and buffers alone.
LEMMA SetRefcnt ==
    ASSUME NEW f \in [Buf -> BufRec], NEW b \in Buf, NEW x \in Nat,
           NEW g, g = [f EXCEPT ![b].refcnt = x]
    PROVE  /\ g \in [Buf -> BufRec] /\ g[b].refcnt = x
           /\ \A c \in Buf : c # b => g[c].refcnt = f[c].refcnt
           /\ \A c \in Buf : /\ g[c].blockno = f[c].blockno /\ g[c].valid = f[c].valid
                             /\ g[c].disk = f[c].disk /\ g[c].data = f[c].data
                             /\ g[c].locked = f[c].locked
  BY DEF BufRec

\* Storing a buffer's valid field leaves the other fields and buffers alone.
LEMMA SetValid ==
    ASSUME buf \in [Buf -> BufRec], NEW b \in Buf,
           buf' = [buf EXCEPT ![b].valid = TRUE]
    PROVE  /\ buf' \in [Buf -> BufRec] /\ buf'[b].valid
           /\ \A c \in Buf : c # b => buf'[c].valid = buf[c].valid
           /\ \A c \in Buf : /\ buf'[c].blockno = buf[c].blockno /\ buf'[c].disk = buf[c].disk
                             /\ buf'[c].refcnt = buf[c].refcnt /\ buf'[c].data = buf[c].data
                             /\ buf'[c].locked = buf[c].locked
  BY DEF BufRec

\* Storing a buffer's disk field leaves the other fields and buffers alone.
LEMMA SetDisk ==
    ASSUME buf \in [Buf -> BufRec], NEW b \in Buf,
           buf' = [buf EXCEPT ![b].disk = TRUE]
    PROVE  /\ buf' \in [Buf -> BufRec] /\ buf'[b].disk
           /\ \A c \in Buf : c # b => buf'[c].disk = buf[c].disk
           /\ \A c \in Buf : /\ buf'[c].blockno = buf[c].blockno /\ buf'[c].valid = buf[c].valid
                             /\ buf'[c].refcnt = buf[c].refcnt /\ buf'[c].data = buf[c].data
                             /\ buf'[c].locked = buf[c].locked
  BY DEF BufRec

\* Storing a buffer's data field leaves the other fields and buffers alone.
LEMMA SetData ==
    ASSUME buf \in [Buf -> BufRec], NEW b \in Buf, NEW x \in Data,
           buf' = [buf EXCEPT ![b].data = x]
    PROVE  /\ buf' \in [Buf -> BufRec] /\ buf'[b].data = x
           /\ \A c \in Buf : c # b => buf'[c].data = buf[c].data
           /\ \A c \in Buf : /\ buf'[c].blockno = buf[c].blockno /\ buf'[c].valid = buf[c].valid
                             /\ buf'[c].disk = buf[c].disk /\ buf'[c].refcnt = buf[c].refcnt
                             /\ buf'[c].locked = buf[c].locked
  BY DEF BufRec

\* Storing a buffer's locked field leaves the other fields and buffers alone.
LEMMA SetLocked ==
    ASSUME NEW f \in [Buf -> BufRec], NEW b \in Buf, NEW x \in Proc \cup {0},
           NEW g, g = [f EXCEPT ![b].locked = x]
    PROVE  /\ g \in [Buf -> BufRec] /\ g[b].locked = x
           /\ \A c \in Buf : c # b => g[c].locked = f[c].locked
           /\ \A c \in Buf : /\ g[c].blockno = f[c].blockno /\ g[c].valid = f[c].valid
                             /\ g[c].disk = f[c].disk /\ g[c].refcnt = f[c].refcnt
                             /\ g[c].data = f[c].data
  BY DEF BufRec

\* bget()'s stores into the buffer it recycles.
LEMMA SetRecycled ==
    ASSUME buf \in [Buf -> BufRec], NEW b \in Buf, NEW n \in Block,
           buf' = [buf EXCEPT ![b].blockno = n, ![b].valid = FALSE, ![b].refcnt = 1]
    PROVE  /\ buf' \in [Buf -> BufRec]
           /\ buf'[b].blockno = n /\ ~buf'[b].valid /\ buf'[b].refcnt = 1
           /\ \A c \in Buf : c # b => buf'[c] = buf[c]
           /\ \A c \in Buf : /\ buf'[c].disk = buf[c].disk /\ buf'[c].data = buf[c].data
                             /\ buf'[c].locked = buf[c].locked
  BY ZenonT(40) DEF BufRec

\* log_write()'s stores.
LEMMA SetPinned ==
    ASSUME buf \in [Buf -> BufRec], NEW b \in Buf, NEW x \in Data, NEW y \in Nat,
           buf' = [buf EXCEPT ![b].data = x, ![b].refcnt = y]
    PROVE  /\ buf' \in [Buf -> BufRec] /\ buf'[b].data = x /\ buf'[b].refcnt = y
           /\ \A c \in Buf : c # b => buf'[c].data = buf[c].data /\ buf'[c].refcnt = buf[c].refcnt
           /\ \A c \in Buf : /\ buf'[c].blockno = buf[c].blockno /\ buf'[c].valid = buf[c].valid
                             /\ buf'[c].disk = buf[c].disk /\ buf'[c].locked = buf[c].locked
  BY DEF BufRec

\* A process goes to its next step; the others stay where they are.
LEMMA GotoDoes ==
    ASSUME TypeOK, NEW p \in Proc, NEW s \in PCs, Goto(p, s)
    PROVE  /\ pc' \in [Proc -> PCs] /\ pc'[p] = s
           /\ \A q \in Proc : q # p => pc'[q] = pc[q]
  BY DEF TypeOK, Goto

\* The types after a step that leaves the list, the disk and the driver alone.
LEMMA TypeStep ==
    ASSUME TypeOK, buf' \in [Buf -> BufRec], pc' \in [Proc -> PCs],
           cur' \in [Proc -> 0 .. NBUF], pinned' \subseteq Changed,
           latest' \in [Block -> Data], UNCHANGED <<lru, platter, driver, idx>>
    PROVE  TypeOK'
  BY ZenonT(40) DEF TypeOK, BufRec, driver

\* The types after a step of the driver or the device.
LEMMA DriverType ==
    ASSUME TypeOK, buf' \in [Buf -> BufRec], pc' \in [Proc -> PCs],
           chain' \in [Desc -> ChainRec], free' \subseteq Desc, idx' \in [Proc -> Desc],
           avail' \in Seq(Desc), UNCHANGED <<lru, platter, used, irq, handler, cur, pinned, latest>>
    PROVE  TypeOK'
  BY ZenonT(40) DEF TypeOK, BufRec, ChainRec

\* The references are right after a step that changes none.
LEMMA UserSame ==
    ASSUME TypeOK, UserInv, UNCHANGED <<cur, pinned>>,
           \A c \in Buf : buf'[c].blockno = buf[c].blockno /\ buf'[c].refcnt = buf[c].refcnt,
           \A q \in Proc : pc'[q] \in {"idle", "panic"} <=> pc[q] \in {"idle", "panic"}
    PROVE  UserInv'
  <1>1. \A q \in Proc : cur[q] # 0 => cur[q] \in Buf BY BcacheAssumption DEF TypeOK, Buf
  <1>2. OneBuffer' BY DEF UserInv, OneBuffer
  <1>3. RefsExact' BY DEF UserInv, RefsExact
  <1>4. \A q \in Proc : cur'[q] = 0 <=> pc'[q] \in {"idle", "panic"} BY DEF UserInv
  <1>5. \A q \in Proc : cur'[q] # 0 => buf'[cur'[q]].blockno # 0 BY <1>1 DEF UserInv
  <1>6. \A n \in pinned' : \E b \in Buf : buf'[b].blockno = n BY DEF UserInv
  <1> QED BY <1>2, <1>3, <1>4, <1>5, <1>6 DEF UserInv

\* The sleep-locks and disk flags are right after a step that changes none.
LEMMA LockSame ==
    ASSUME TypeOK, UserInv, LockInv,
           \A c \in Buf : buf'[c].locked = buf[c].locked /\ buf'[c].disk = buf[c].disk,
           \A q \in Proc : pc'[q] \in Holding => pc[q] \in Holding /\ cur'[q] = cur[q],
           \A q \in Proc : pc'[q] \in Waiting <=> pc[q] \in Waiting
    PROVE  LockInv'
  <1>1. \A q \in Proc : pc[q] \in Holding => cur[q] \in Buf BY CurBuf DEF Holding
  <1>2. Waiting \subseteq Holding BY DEF Waiting, Holding
  <1>3. \A q \in Proc : pc'[q] \in Holding => buf'[cur'[q]].locked = q BY <1>1 DEF LockInv
  <1>4. \A q \in Proc : pc'[q] \in Waiting => buf'[cur'[q]].disk BY <1>1, <1>2 DEF LockInv
  <1>5. \A b \in Buf : buf'[b].disk => \E q \in Proc : cur'[q] = b /\ pc'[q] \in Waiting
    BY <1>2 DEF LockInv
  <1> QED BY <1>3, <1>4, <1>5 DEF LockInv

\* The rings are right after a step that leaves them and the sleepers alone.
LEMMA RingSame ==
    ASSUME RingInv, UNCHANGED <<avail, used, irq, handler, idx>>,
           \A q \in Proc : pc'[q] \in Waiting <=> pc[q] \in Waiting
    PROVE  RingInv'
  <1>1. \A d : (InAvail(d)' <=> InAvail(d)) /\ (InUsed(d)' <=> InUsed(d)) BY DEF InAvail, InUsed
  <1>2. \A q \in Proc : pc'[q] \in Waiting => InAvail(idx[q])' \/ InUsed(idx[q])'
    BY DEF RingInv, InAvail, InUsed
  <1>3. \A d \in Desc : InAvail(d)' \/ InUsed(d)' => \E q \in Proc : pc'[q] \in Waiting /\ idx'[q] = d
    BY <1>1 DEF RingInv
  <1> QED BY <1>1, <1>2, <1>3 DEF RingInv

\* The descriptors are right after a step that leaves them and the requests alone.
LEMMA ChainSame ==
    ASSUME ChainInv, UNCHANGED <<free, chain, idx>>,
           \A q \in Proc : pc'[q] \in Busy <=> pc[q] \in Busy,
           \A q \in Proc : pc[q] \in Busy => /\ cur'[q] = cur[q]
                                             /\ pc'[q] \in {"wwait", "wdone"} <=> pc[q] \in {"wwait", "wdone"},
           \A q \in Proc : pc'[q] \in {"rsleep", "wsleep"} =>
                            pc[q] \in {"rsleep", "wsleep"} \/ Cardinality(free) < 3
    PROVE  ChainInv'
  <1>1. \A q \in Proc : pc'[q] \in Busy =>
          /\ idx'[q] \in chain'[idx'[q]].ids
          /\ chain'[idx'[q]].b = cur'[q]
          /\ chain'[idx'[q]].write <=> pc'[q] \in {"wwait", "wdone"}
    BY DEF ChainInv
  <1>2. \A d \in Desc : d \in free' <=>
          \A q \in Proc : pc'[q] \in Busy => d \notin chain'[idx'[q]].ids
    BY DEF ChainInv
  <1>3. \A q, r \in Proc : pc'[q] \in Busy /\ pc'[r] \in Busy /\ q # r =>
          chain'[idx'[q]].ids \cap chain'[idx'[r]].ids = {}
    BY DEF ChainInv
  <1>4. \A q \in Proc : pc'[q] \in {"rsleep", "wsleep"} => Cardinality(free') < 3 BY DEF ChainInv
  <1> QED BY <1>1, <1>2, <1>3, <1>4 DEF ChainInv

\* Both, for a step of the cache.
LEMMA DriverSame ==
    ASSUME RingInv, ChainInv, UNCHANGED <<driver, idx>>,
           \A q \in Proc : pc[q] \in Busy \/ pc'[q] \in Busy => pc'[q] = pc[q] /\ cur'[q] = cur[q],
           \A q \in Proc : pc'[q] \in {"rsleep", "wsleep"} =>
                            pc[q] \in {"rsleep", "wsleep"} \/ Cardinality(free) < 3
    PROVE  RingInv' /\ ChainInv'
  <1>1. UNCHANGED <<free, chain, avail, used, irq, handler, idx>> BY DEF driver
  <1>2. \A q \in Proc : pc'[q] \in Waiting <=> pc[q] \in Waiting BY DEF Busy, Waiting
  <1>3. RingInv' BY <1>1, <1>2, RingSame
  <1>4. /\ \A q \in Proc : pc'[q] \in Busy <=> pc[q] \in Busy
        /\ \A q \in Proc : pc[q] \in Busy => /\ cur'[q] = cur[q]
                                             /\ pc'[q] \in {"wwait", "wdone"} <=> pc[q] \in {"wwait", "wdone"}
    OBVIOUS
  <1>5. ChainInv' BY <1>1, <1>4, ChainSame
  <1> QED BY <1>3, <1>5

\* Two requests in progress start at different descriptors.
LEMMA HeadsDiffer ==
    ASSUME ChainInv, NEW p \in Proc, NEW q \in Proc, p # q, pc[p] \in Busy, pc[q] \in Busy
    PROVE  idx[p] # idx[q] /\ idx[p] \in chain[idx[p]].ids /\ idx[q] \in chain[idx[q]].ids
  BY DEF ChainInv

\* The copies are right after a step that stores nothing and only lets
\* processes release buffers or go on after a sleep.
LEMMA DataSame ==
    ASSUME TypeOK, UserInv, DataInv, UNCHANGED <<platter, used, idx, pinned, latest>>,
           \A c \in Buf : /\ buf'[c].blockno = buf[c].blockno /\ buf'[c].valid = buf[c].valid
                          /\ buf'[c].data = buf[c].data,
           \A q \in Proc : pc[q] \in Holding \/ pc'[q] \in Holding =>
             \/ /\ cur'[q] = cur[q]
                /\ \/ pc'[q] = pc[q]
                   \/ pc[q] \in {"read", "rsleep"} /\ pc'[q] \in {"read", "rsleep"}
                   \/ pc[q] \in {"write", "wsleep"} /\ pc'[q] \in {"write", "wsleep"}
             \/ pc[q] = "own" /\ pc'[q] \notin Holding
    PROVE  DataInv'
  <1>1. \A q \in Proc : pc[q] \in Holding => cur[q] \in Buf BY CurBuf DEF Holding
  <1>2. \A d : InUsed(d)' <=> InUsed(d) BY DEF InUsed
  <1>3. \A q \in Proc : pc'[q] \in Holding =>
          /\ pc[q] \in Holding /\ cur'[q] = cur[q] /\ cur[q] \in Buf
          /\ pc'[q] \in Reading <=> pc[q] \in Reading
          /\ pc'[q] \in {"wdone", "unpin", "wwait", "rdone", "rwait"} => pc'[q] = pc[q]
    BY <1>1 DEF Holding, Reading
  <1>4. \A q \in Proc : pc[q] \in {"write", "wsleep", "wwait"} =>
          pc'[q] \in {"write", "wsleep", "wwait"} /\ cur'[q] = cur[q] /\ cur[q] \in Buf
    BY <1>1 DEF Holding
  <1>5. {"wdone", "unpin", "wwait", "rdone", "rwait"} \subseteq Holding BY DEF Holding
  <1>6. \A b \in Buf : buf'[b].valid =>
          buf'[b].blockno # 0 /\ buf'[b].data = latest'[buf'[b].blockno]
    BY DEF DataInv
  <1>7. \A n \in Block : platter'[n] # latest'[n] =>
          \/ n \in pinned'
          \/ \E p \in Proc : pc'[p] \in {"write", "wsleep", "wwait"} /\ buf'[cur'[p]].blockno = n
    BY <1>4 DEF DataInv
  <1>8. \A p \in Proc :
          pc'[p] \in {"wdone", "unpin"} \/ (pc'[p] = "wwait" /\ InUsed(idx[p])') =>
            platter'[buf'[cur'[p]].blockno] = latest'[buf'[cur'[p]].blockno]
    BY <1>2, <1>3, <1>5 DEF DataInv
  <1>9. \A p \in Proc :
          pc'[p] = "rdone" \/ (pc'[p] = "rwait" /\ InUsed(idx[p])') =>
            buf'[cur'[p]].data = latest'[buf'[cur'[p]].blockno]
    BY <1>2, <1>3, <1>5 DEF DataInv
  <1>10. \A p \in Proc : pc'[p] \in Holding => (buf'[cur'[p]].valid <=> pc'[p] \notin Reading)
    BY <1>3 DEF DataInv
  <1>11. \A b \in Buf : buf'[b].blockno \in pinned' => buf'[b].valid BY DEF DataInv
  <1>12. \A p \in Proc : pc'[p] = "unpin" => buf'[cur'[p]].blockno \in pinned'
    BY <1>3, <1>5 DEF DataInv
  <1> QED BY <1>6, <1>7, <1>8, <1>9, <1>10, <1>11, <1>12 DEF DataInv

----------------------------------------------------------------------------
(* The cache's steps                                                       *)

\* The counter after a process joins the users of a buffer.
LEMMA UsersJoin ==
    ASSUME TypeOK, NEW p \in Proc, NEW b \in Buf, cur[p] = 0, cur' = [cur EXCEPT ![p] = b]
    PROVE  /\ Cardinality(Users(b)') = Cardinality(Users(b)) + 1
           /\ Cardinality(Users(b)) \in Nat
           /\ \A c \in Buf : c # b => Users(c)' = Users(c)
  <1>1. b # 0 /\ 0 \notin Buf BY DEF Buf
  <1>2. cur'[p] = b /\ \A q \in Proc : q # p => cur'[q] = cur[q] BY DEF TypeOK
  <1>3. \A c \in Buf : c # b => Users(c)' = Users(c) BY <1>1, <1>2 DEF Users
  <1>4. Users(b)' = Users(b) \cup {p} /\ p \notin Users(b) BY <1>1, <1>2 DEF Users
  <1>5. IsFiniteSet(Users(b)) BY BcacheAssumption, FS_Subset DEF Users
  <1> QED BY <1>3, <1>4, <1>5, FS_AddElement, FS_CardinalityType

\* The counter after a process leaves the users of its buffer.
LEMMA UsersLeave ==
    ASSUME TypeOK, NEW p \in Proc, NEW b \in Buf, cur[p] = b, cur' = [cur EXCEPT ![p] = 0]
    PROVE  /\ Cardinality(Users(b)') = Cardinality(Users(b)) - 1
           /\ Cardinality(Users(b)) \in Nat
           /\ \A c \in Buf : c # b => Users(c)' = Users(c)
  <1>1. b # 0 /\ 0 \notin Buf BY DEF Buf
  <1>2. cur'[p] = 0 /\ \A q \in Proc : q # p => cur'[q] = cur[q] BY DEF TypeOK
  <1>3. \A c \in Buf : c # b => Users(c)' = Users(c) BY <1>1, <1>2 DEF Users
  <1>4. Users(b)' = Users(b) \ {p} /\ p \in Users(b) BY <1>1, <1>2 DEF Users
  <1>5. IsFiniteSet(Users(b)) BY BcacheAssumption, FS_Subset DEF Users
  <1> QED BY <1>3, <1>4, <1>5, FS_RemoveElement, FS_CardinalityType

\* bget() of a cached block.
LEMMA BgetHit_Inv ==
    ASSUME Inv, NEW p \in Proc, NEW n \in Block, BgetHit(p, n) PROVE Inv'
  <1>a. TypeOK /\ UserInv /\ LockInv /\ RingInv /\ ChainInv /\ DataInv BY DEF Inv
  <1>t. buf \in [Buf -> BufRec] /\ cur \in [Proc -> 0 .. NBUF] BY <1>a DEF TypeOK, BufRec
  <1>u. /\ pc[p] = "idle" /\ Goto(p, "lock")
        /\ UNCHANGED <<lru, platter, driver, idx, pinned, latest>>
    BY DEF BgetHit
  <1>1. PICK b \in Buf : /\ buf[b].blockno = n
                         /\ buf' = [buf EXCEPT ![b].refcnt = @ + 1]
                         /\ cur' = [cur EXCEPT ![p] = b]
    BY DEF BgetHit, Cached
  <1>2. PICK x \in Nat : x = buf[b].refcnt + 1 BY <1>t DEF BufRec
  <1>3. buf' = [buf EXCEPT ![b].refcnt = x] BY <1>1, <1>2
  <1>4. /\ buf' \in [Buf -> BufRec] /\ buf'[b].refcnt = x
        /\ \A c \in Buf : c # b => buf'[c].refcnt = buf[c].refcnt
        /\ \A c \in Buf : /\ buf'[c].blockno = buf[c].blockno /\ buf'[c].valid = buf[c].valid
                          /\ buf'[c].disk = buf[c].disk /\ buf'[c].data = buf[c].data
                          /\ buf'[c].locked = buf[c].locked
    BY <1>t, <1>3, SetRefcnt
  <1>5. /\ pc' \in [Proc -> PCs] /\ pc'[p] = "lock"
        /\ \A q \in Proc : q # p => pc'[q] = pc[q]
    BY <1>a, <1>u, GotoDoes DEF PCs
  <1>6. /\ cur' \in [Proc -> 0 .. NBUF] /\ cur'[p] = b
        /\ \A q \in Proc : q # p => cur'[q] = cur[q]
    BY <1>t, <1>1, BcacheAssumption DEF Buf
  <1>7. cur[p] = 0 BY <1>a, <1>u DEF UserInv
  <1>8. /\ Cardinality(Users(b)') = Cardinality(Users(b)) + 1 /\ Cardinality(Users(b)) \in Nat
        /\ \A c \in Buf : c # b => Users(c)' = Users(c)
    BY <1>a, <1>1, <1>7, UsersJoin
  <1>9. b # 0 /\ n # 0 BY BcacheAssumption DEF Buf
  <1>10. TypeOK'
    BY <1>a, <1>u, <1>4, <1>5, <1>6, TypeStep DEF TypeOK
  <1>11. UserInv'
    <2>1. OneBuffer' BY <1>a, <1>4 DEF UserInv, OneBuffer
    <2>2. RefsExact'
      <3>1. ASSUME NEW c \in Buf
            PROVE  buf'[c].refcnt = Cardinality(Users(c)') +
                     (IF buf'[c].blockno \in pinned' THEN 1 ELSE 0)
        <4>1. buf[c].refcnt = Cardinality(Users(c)) + (IF buf[c].blockno \in pinned THEN 1 ELSE 0)
          BY <1>a DEF UserInv, RefsExact, Users
        <4>2. buf'[c].blockno = buf[c].blockno /\ pinned' = pinned BY <1>4, <1>u
        <4>3. CASE c = b BY <1>2, <1>4, <1>8, <4>1, <4>2, <4>3
        <4>4. CASE c # b BY <1>4, <1>8, <4>1, <4>2, <4>4
        <4> QED BY <4>3, <4>4
      <3> QED BY <3>1 DEF RefsExact, Users
    <2>3. \A q \in Proc : cur'[q] = 0 <=> pc'[q] \in {"idle", "panic"}
      BY <1>a, <1>5, <1>6, <1>9 DEF UserInv
    <2>4. \A q \in Proc : cur'[q] # 0 => buf'[cur'[q]].blockno # 0
      <3>1. buf'[cur'[p]].blockno = n BY <1>1, <1>4, <1>6
      <3>2. \A q \in Proc : cur[q] # 0 => cur[q] \in Buf BY <1>t, BcacheAssumption DEF Buf
      <3> QED BY <1>a, <1>4, <1>6, <1>9, <3>1, <3>2 DEF UserInv
    <2>5. \A m \in pinned' : \E c \in Buf : buf'[c].blockno = m BY <1>a, <1>u, <1>4 DEF UserInv
    <2> QED BY <2>1, <2>2, <2>3, <2>4, <2>5 DEF UserInv
  <1>12. LockInv'
    <2>1. \A q \in Proc : pc'[q] \in Holding => pc[q] \in Holding /\ cur'[q] = cur[q]
      BY <1>5, <1>6 DEF Holding
    <2>2. \A q \in Proc : pc'[q] \in Waiting <=> pc[q] \in Waiting BY <1>5, <1>u DEF Waiting
    <2> QED BY <1>a, <1>4, <2>1, <2>2, LockSame
  <1>13. RingInv' /\ ChainInv'
    <2>1. \A q \in Proc : pc[q] \in Busy \/ pc'[q] \in Busy => pc'[q] = pc[q] /\ cur'[q] = cur[q]
      BY <1>5, <1>6, <1>u DEF Busy
    <2>2. \A q \in Proc : pc'[q] \in {"rsleep", "wsleep"} => pc[q] \in {"rsleep", "wsleep"}
      BY <1>5
    <2> QED BY <1>a, <1>u, <2>1, <2>2, DriverSame
  <1>14. DataInv'
    <2>1. \A q \in Proc : pc[q] \in Holding \/ pc'[q] \in Holding =>
            cur'[q] = cur[q] /\ pc'[q] = pc[q]
      BY <1>5, <1>6, <1>u DEF Holding
    <2> QED BY <1>a, <1>u, <1>4, <2>1, DataSame DEF driver
  <1> QED BY <1>10, <1>11, <1>12, <1>13, <1>14 DEF Inv

\* bget() of a block that is not cached: nobody refers to the recycled buffer.
LEMMA BgetMiss_Inv ==
    ASSUME Inv, NEW p \in Proc, NEW n \in Block, BgetMiss(p, n) PROVE Inv'
  <1>a. TypeOK /\ UserInv /\ LockInv /\ RingInv /\ ChainInv /\ DataInv BY DEF Inv
  <1>t. /\ buf \in [Buf -> BufRec] /\ cur \in [Proc -> 0 .. NBUF]
        /\ lru \in [Buf -> Buf]
    BY <1>a DEF TypeOK, BufRec
  <1>u. /\ pc[p] = "idle" /\ Goto(p, "lock") /\ Cached(n) = {}
        /\ UNCHANGED <<lru, platter, driver, idx, pinned, latest>>
    BY DEF BgetMiss
  <1>0. PICK k \in Buf : /\ buf[lru[k]].refcnt = 0
                         /\ buf' = [buf EXCEPT ![lru[k]].blockno = n, ![lru[k]].valid = FALSE,
                                               ![lru[k]].refcnt = 1]
                         /\ cur' = [cur EXCEPT ![p] = lru[k]]
    BY DEF BgetMiss, Unused
  <1>1. PICK b \in Buf : b = lru[k] BY <1>t
  <1>2. /\ buf[b].refcnt = 0 /\ cur' = [cur EXCEPT ![p] = b]
        /\ buf' = [buf EXCEPT ![b].blockno = n, ![b].valid = FALSE, ![b].refcnt = 1]
    BY <1>0, <1>1
  <1>4. /\ buf' \in [Buf -> BufRec]
        /\ buf'[b].blockno = n /\ ~buf'[b].valid /\ buf'[b].refcnt = 1
        /\ \A c \in Buf : c # b => buf'[c] = buf[c]
        /\ \A c \in Buf : /\ buf'[c].disk = buf[c].disk /\ buf'[c].data = buf[c].data
                          /\ buf'[c].locked = buf[c].locked
    BY <1>t, <1>2, SetRecycled
  <1>5. /\ pc' \in [Proc -> PCs] /\ pc'[p] = "lock"
        /\ \A q \in Proc : q # p => pc'[q] = pc[q]
    BY <1>a, <1>u, GotoDoes DEF PCs
  <1>6. /\ cur' \in [Proc -> 0 .. NBUF] /\ cur'[p] = b
        /\ \A q \in Proc : q # p => cur'[q] = cur[q]
    BY <1>t, <1>2, BcacheAssumption DEF Buf
  <1>7. cur[p] = 0 BY <1>a, <1>u DEF UserInv
  <1>8. /\ Cardinality(Users(b)') = Cardinality(Users(b)) + 1 /\ Cardinality(Users(b)) \in Nat
        /\ \A c \in Buf : c # b => Users(c)' = Users(c)
    BY <1>a, <1>2, <1>7, UsersJoin
  <1>9. b # 0 /\ n # 0 BY BcacheAssumption DEF Buf
  <1>10. Cardinality(Users(b)) = 0 /\ buf[b].blockno \notin pinned
    <2>1. buf[b].refcnt = Cardinality(Users(b)) + (IF buf[b].blockno \in pinned THEN 1 ELSE 0)
      BY <1>a DEF UserInv, RefsExact, Users
    <2> QED BY <1>2, <1>8, <2>1
  <1>11. \A q \in Proc : cur[q] # b
    <2>1. IsFiniteSet(Users(b)) BY BcacheAssumption, FS_Subset DEF Users
    <2>2. Users(b) = {} BY <1>10, <2>1, FS_EmptySet
    <2> QED BY <2>2 DEF Users
  <1>12. (\A c \in Buf : buf[c].blockno # n) /\ n \notin pinned BY <1>a, <1>u DEF Cached, UserInv
  <1>13. \A q \in Proc : cur[q] # 0 => cur[q] \in Buf BY <1>t, BcacheAssumption DEF Buf
  <1>14. TypeOK'
    BY <1>a, <1>u, <1>4, <1>5, <1>6, TypeStep DEF TypeOK
  <1>15. UserInv'
    <2>1. OneBuffer'
      <3>1. ASSUME NEW c \in Buf, NEW d \in Buf, buf'[c].blockno # 0, buf'[c].blockno = buf'[d].blockno
            PROVE  c = d
        <4>1. CASE c = b /\ d # b BY <1>4, <1>12, <3>1, <4>1
        <4>2. CASE c # b /\ d = b BY <1>4, <1>12, <3>1, <4>2
        <4>3. CASE c # b /\ d # b BY <1>a, <1>4, <3>1, <4>3 DEF UserInv, OneBuffer
        <4> QED BY <4>1, <4>2, <4>3
      <3> QED BY <3>1 DEF OneBuffer
    <2>2. RefsExact'
      <3>1. ASSUME NEW c \in Buf
            PROVE  buf'[c].refcnt = Cardinality(Users(c)') +
                     (IF buf'[c].blockno \in pinned' THEN 1 ELSE 0)
        <4>1. buf[c].refcnt = Cardinality(Users(c)) + (IF buf[c].blockno \in pinned THEN 1 ELSE 0)
          BY <1>a DEF UserInv, RefsExact, Users
        <4>3. CASE c = b BY <1>u, <1>4, <1>8, <1>10, <1>12, <4>3
        <4>4. CASE c # b BY <1>u, <1>4, <1>8, <4>1, <4>4
        <4> QED BY <4>3, <4>4
      <3> QED BY <3>1 DEF RefsExact, Users
    <2>3. \A q \in Proc : cur'[q] = 0 <=> pc'[q] \in {"idle", "panic"}
      BY <1>a, <1>5, <1>6, <1>9 DEF UserInv
    <2>4. \A q \in Proc : cur'[q] # 0 => buf'[cur'[q]].blockno # 0
      BY <1>a, <1>4, <1>6, <1>9, <1>11, <1>13 DEF UserInv
    <2>5. \A m \in pinned' : \E c \in Buf : buf'[c].blockno = m
      BY <1>a, <1>u, <1>4, <1>10 DEF UserInv
    <2> QED BY <2>1, <2>2, <2>3, <2>4, <2>5 DEF UserInv
  <1>h. \A q \in Proc : pc[q] \in Holding \/ pc'[q] \in Holding =>
          /\ cur'[q] = cur[q] /\ pc'[q] = pc[q]
          /\ cur[q] \in Buf /\ buf'[cur'[q]] = buf[cur[q]]
    <2>1. \A q \in Proc : pc[q] \in Holding \/ pc'[q] \in Holding =>
            q # p /\ pc'[q] = pc[q] /\ cur'[q] = cur[q] /\ cur[q] # 0
      BY <1>a, <1>5, <1>6, <1>u DEF Holding, UserInv
    <2> QED BY <1>4, <1>11, <1>13, <2>1
  <1>16. LockInv'
    <2>2. \A q \in Proc : pc'[q] \in Waiting <=> pc[q] \in Waiting BY <1>5, <1>u DEF Waiting
    <2> QED BY <1>a, <1>4, <1>h, <2>2, LockSame
  <1>17. RingInv' /\ ChainInv'
    <2>1. \A q \in Proc : pc[q] \in Busy \/ pc'[q] \in Busy => pc'[q] = pc[q] /\ cur'[q] = cur[q]
      BY <1>5, <1>6, <1>u DEF Busy
    <2>2. \A q \in Proc : pc'[q] \in {"rsleep", "wsleep"} => pc[q] \in {"rsleep", "wsleep"}
      BY <1>5
    <2> QED BY <1>a, <1>u, <2>1, <2>2, DriverSame
  <1>18. DataInv'
    <2>0. \A d : InUsed(d)' <=> InUsed(d) BY <1>u DEF InUsed, driver
    <2>s. {"write", "wsleep", "wdone", "unpin", "wwait", "rdone", "rwait"} \subseteq Holding BY DEF Holding
    <2>1. \A c \in Buf : buf'[c].valid =>
            buf'[c].blockno # 0 /\ buf'[c].data = latest'[buf'[c].blockno]
      BY <1>a, <1>u, <1>4 DEF DataInv
    <2>2. \A m \in Block : platter'[m] # latest'[m] =>
            \/ m \in pinned'
            \/ \E q \in Proc : pc'[q] \in {"write", "wsleep", "wwait"} /\ buf'[cur'[q]].blockno = m
      BY <1>a, <1>u, <1>h, <2>s DEF DataInv
    <2>3. \A q \in Proc :
            pc'[q] \in {"wdone", "unpin"} \/ (pc'[q] = "wwait" /\ InUsed(idx[q])') =>
              platter'[buf'[cur'[q]].blockno] = latest'[buf'[cur'[q]].blockno]
      BY <1>a, <1>u, <1>h, <2>0, <2>s DEF DataInv
    <2>4. \A q \in Proc :
            pc'[q] = "rdone" \/ (pc'[q] = "rwait" /\ InUsed(idx[q])') =>
              buf'[cur'[q]].data = latest'[buf'[cur'[q]].blockno]
      BY <1>a, <1>u, <1>h, <2>0, <2>s DEF DataInv
    <2>5. \A q \in Proc : pc'[q] \in Holding => (buf'[cur'[q]].valid <=> pc'[q] \notin Reading)
      BY <1>a, <1>h DEF DataInv
    <2>6. \A c \in Buf : buf'[c].blockno \in pinned' => buf'[c].valid
      BY <1>a, <1>u, <1>4, <1>12 DEF DataInv
    <2>7. \A q \in Proc : pc'[q] = "unpin" => buf'[cur'[q]].blockno \in pinned'
      BY <1>a, <1>u, <1>h, <2>s DEF DataInv
    <2> QED BY <2>1, <2>2, <2>3, <2>4, <2>5, <2>6, <2>7 DEF DataInv
  <1> QED BY <1>14, <1>15, <1>16, <1>17, <1>18 DEF Inv

\* A step that only sends processes on, and none of them to or from a request.
LEMMA Quiet ==
    ASSUME Inv, UNCHANGED <<cache, platter, driver, cur, idx, pinned, latest>>,
           pc' \in [Proc -> PCs],
           \A q \in Proc :
             \/ pc'[q] = pc[q]
             \/ pc[q] = "idle" /\ pc'[q] = "panic"
             \/ pc[q] = "lock" /\ pc'[q] = "lsleep"
             \/ pc[q] \in {"read", "rsleep"} /\ pc'[q] \in {"read", "rsleep"}
             \/ pc[q] \in {"write", "wsleep"} /\ pc'[q] \in {"write", "wsleep"},
           \A q \in Proc : pc'[q] \in {"rsleep", "wsleep"} =>
                            pc[q] \in {"rsleep", "wsleep"} \/ Cardinality(free) < 3
    PROVE  Inv'
  <1>a. TypeOK /\ UserInv /\ LockInv /\ RingInv /\ ChainInv /\ DataInv BY DEF Inv
  <1>b. UNCHANGED <<buf, lru, platter, driver, cur, idx, pinned, latest>> BY DEF cache
  <1>c. /\ \A q \in Proc : pc'[q] \in {"idle", "panic"} <=> pc[q] \in {"idle", "panic"}
        /\ \A q \in Proc : pc'[q] \in Holding <=> pc[q] \in Holding
        /\ \A q \in Proc : pc'[q] \in Waiting <=> pc[q] \in Waiting
        /\ \A q \in Proc : pc[q] \in Busy \/ pc'[q] \in Busy => pc'[q] = pc[q]
    BY DEF Holding, Waiting, Busy
  <1>1. TypeOK' BY <1>a, <1>b, TypeStep DEF TypeOK, BufRec
  <1>2. UserInv' BY <1>a, <1>b, <1>c, UserSame
  <1>3. LockInv' BY <1>a, <1>b, <1>c, LockSame
  <1>4. RingInv' /\ ChainInv' BY <1>a, <1>b, <1>c, DriverSame
  <1>5. DataInv'
    <2>1. \A q \in Proc : pc[q] \in Holding \/ pc'[q] \in Holding =>
            /\ cur'[q] = cur[q]
            /\ \/ pc'[q] = pc[q]
               \/ pc[q] \in {"read", "rsleep"} /\ pc'[q] \in {"read", "rsleep"}
               \/ pc[q] \in {"write", "wsleep"} /\ pc'[q] \in {"write", "wsleep"}
      BY <1>b DEF Holding
    <2> QED BY <1>a, <1>b, <2>1, DataSame DEF driver
  <1> QED BY <1>1, <1>2, <1>3, <1>4, <1>5 DEF Inv

\* bget() without a buffer, and virtio_disk_rw() without descriptors.
LEMMA Quiet_Inv ==
    ASSUME Inv, NEW p \in Proc,
           NoDesc(p) \/ \E n \in Block : BgetPanic(p, n)
    PROVE  Inv'
  <1>a. TypeOK BY DEF Inv
  <1>1. CASE \E n \in Block : BgetPanic(p, n)
    <2>1. pc[p] = "idle" /\ Goto(p, "panic")
      BY <1>1 DEF BgetPanic
    <2>2. UNCHANGED <<cache, platter, driver, cur, idx, pinned, latest>> BY <1>1 DEF BgetPanic
    <2>3. /\ pc' \in [Proc -> PCs] /\ pc'[p] = "panic" /\ \A q \in Proc : q # p => pc'[q] = pc[q]
      BY <1>a, <2>1, GotoDoes DEF PCs
    <2> QED BY <2>1, <2>2, <2>3, Quiet
  <1>2. CASE NoDesc(p)
    <2>1. PICK s \in {"rsleep", "wsleep"} : s = IF pc[p] = "read" THEN "rsleep" ELSE "wsleep" OBVIOUS
    <2>2. /\ pc[p] \in {"read", "write"} /\ Cardinality(free) < 3
          /\ Goto(p, s) \/ WakeFree(p, s)
      BY <1>2, <2>1 DEF NoDesc
    <2>3. UNCHANGED <<cache, platter, driver, cur, idx, pinned, latest>> BY <1>2 DEF NoDesc
    <2>4. CASE Goto(p, s)
      <3>1. /\ pc' \in [Proc -> PCs] /\ pc'[p] = s /\ \A q \in Proc : q # p => pc'[q] = pc[q]
        BY <1>a, <2>1, <2>4, GotoDoes DEF PCs
      <3>2. \A q \in Proc : \/ pc'[q] = pc[q]
                            \/ pc[q] \in {"read", "rsleep"} /\ pc'[q] \in {"read", "rsleep"}
                            \/ pc[q] \in {"write", "wsleep"} /\ pc'[q] \in {"write", "wsleep"}
        BY <2>1, <2>2, <3>1
      <3> QED BY <2>2, <2>3, <3>1, <3>2, Quiet
    <2>5. CASE WakeFree(p, s)
      <3>1. \A q \in Proc : \/ pc'[q] = pc[q]
                            \/ pc[q] \in {"read", "rsleep"} /\ pc'[q] \in {"read", "rsleep"}
                            \/ pc[q] \in {"write", "wsleep"} /\ pc'[q] \in {"write", "wsleep"}
        BY <2>1, <2>2, <2>5 DEF WakeFree
      <3>2. pc' = [q \in Proc |-> pc'[q]] BY <2>5 DEF WakeFree
      <3>3. pc' \in [Proc -> PCs]
        <4>1. \A q \in Proc : pc[q] \in PCs BY <1>a DEF TypeOK
        <4>2. \A q \in Proc : pc'[q] \in PCs BY <3>1, <4>1 DEF PCs
        <4> QED BY <3>2, <4>2
      <3> QED BY <2>2, <2>3, <3>1, <3>3, Quiet
    <2> QED BY <2>2, <2>4, <2>5
  <1> QED BY <1>1, <1>2

\* Two processes that hold buffers hold different ones, for different blocks.
LEMMA Alone ==
    ASSUME TypeOK, UserInv, LockInv, NEW p \in Proc, NEW q \in Proc, p # q,
           pc[p] \in Holding, pc[q] \in Holding
    PROVE  /\ cur[p] \in Buf /\ cur[q] \in Buf /\ cur[p] # cur[q]
           /\ buf[cur[p]].blockno # buf[cur[q]].blockno
  <1>1. /\ cur[p] \in Buf /\ cur[q] \in Buf
        /\ buf[cur[p]].blockno \in Block /\ buf[cur[q]].blockno \in Block
    BY CurBuf DEF Holding
  <1>2. cur[p] # cur[q] BY DEF LockInv
  <1> QED BY <1>1, <1>2, BcacheAssumption DEF UserInv, OneBuffer

\* The sleep-lock, free or taken.
LEMMA AcquireSleep_Inv ==
    ASSUME Inv, NEW p \in Proc, AcquireSleep(p) PROVE Inv'
  <1>a. TypeOK /\ UserInv /\ LockInv /\ RingInv /\ ChainInv /\ DataInv BY DEF Inv
  <1>t. buf \in [Buf -> BufRec] /\ cur \in [Proc -> 0 .. NBUF] /\ latest \in [Block -> Data]
    BY <1>a DEF TypeOK, BufRec
  <1>u. pc[p] = "lock" /\ UNCHANGED <<lru, platter, driver, cur, idx, pinned, latest>>
    BY DEF AcquireSleep
  <1>0. PICK b \in Buf : b = cur[p] BY <1>a, <1>u, CurBuf
  <1>1. PICK n \in Block : n = buf[b].blockno BY <1>a, <1>u, <1>0, CurBuf
  <1>2. CASE buf[b].locked # 0
    <2>1. UNCHANGED buf /\ Goto(p, "lsleep") BY <1>0, <1>2 DEF AcquireSleep, Mine
    <2>2. /\ pc' \in [Proc -> PCs] /\ pc'[p] = "lsleep" /\ \A q \in Proc : q # p => pc'[q] = pc[q]
      BY <1>a, <2>1, GotoDoes DEF PCs
    <2> QED BY <1>u, <2>1, <2>2, Quiet DEF cache
  <1>3. CASE buf[b].locked = 0
    <2>1. PICK s \in {"own", "read"} : s = IF buf[b].valid THEN "own" ELSE "read" OBVIOUS
    <2>2. buf' = [buf EXCEPT ![b].locked = p] /\ Goto(p, s)
      BY <1>0, <1>3, <2>1 DEF AcquireSleep, Mine, BreadNext
    <2>3. /\ buf' \in [Buf -> BufRec] /\ buf'[b].locked = p
          /\ \A c \in Buf : c # b => buf'[c].locked = buf[c].locked
          /\ \A c \in Buf : /\ buf'[c].blockno = buf[c].blockno /\ buf'[c].valid = buf[c].valid
                            /\ buf'[c].disk = buf[c].disk /\ buf'[c].refcnt = buf[c].refcnt
                            /\ buf'[c].data = buf[c].data
      BY <1>t, <2>2, SetLocked, SMTT(20)
    <2>4. /\ pc' \in [Proc -> PCs] /\ pc'[p] = s /\ \A q \in Proc : q # p => pc'[q] = pc[q]
      BY <1>a, <2>1, <2>2, GotoDoes DEF PCs
    <2>5. TypeOK' BY <1>a, <1>u, <2>3, <2>4, TypeStep DEF TypeOK
    <2>6. UserInv'
      <3>1. \A q \in Proc : pc'[q] \in {"idle", "panic"} <=> pc[q] \in {"idle", "panic"}
        BY <1>u, <2>1, <2>4
      <3> QED BY <1>a, <1>u, <2>3, <3>1, UserSame
    <2>o. \A q \in Proc : q # p /\ pc'[q] \in Holding =>
            /\ pc[q] \in Holding /\ pc'[q] = pc[q] /\ cur[q] \in Buf /\ cur[q] # b
      <3>1. \A q \in Proc : q # p /\ pc'[q] \in Holding => pc[q] \in Holding /\ pc'[q] = pc[q]
        BY <2>4
      <3>2. \A q \in Proc : pc[q] \in Holding => cur[q] \in Buf /\ buf[cur[q]].locked = q
        BY <1>a, CurBuf DEF Holding, LockInv
      <3> QED BY <1>3, <3>1, <3>2, BcacheAssumption
    <2>7. LockInv'
      <3>1. \A q \in Proc : pc'[q] \in Holding => buf'[cur'[q]].locked = q
        BY <1>a, <1>u, <1>0, <2>3, <2>o DEF LockInv
      <3>2. \A q \in Proc : pc'[q] \in Waiting <=> pc[q] \in Waiting BY <1>u, <2>1, <2>4 DEF Waiting
      <3>3. \A q \in Proc : pc[q] \in Waiting => cur[q] \in Buf BY <1>a, CurBuf DEF Waiting
      <3>4. \A q \in Proc : pc'[q] \in Waiting => buf'[cur'[q]].disk
        BY <1>a, <1>u, <2>3, <3>2, <3>3 DEF LockInv
      <3>5. \A c \in Buf : buf'[c].disk => \E q \in Proc : cur'[q] = c /\ pc'[q] \in Waiting
        BY <1>a, <1>u, <2>3, <3>2 DEF LockInv
      <3> QED BY <3>1, <3>4, <3>5 DEF LockInv
    <2>8. RingInv' /\ ChainInv'
      <3>1. \A q \in Proc : pc[q] \in Busy \/ pc'[q] \in Busy => pc'[q] = pc[q] /\ cur'[q] = cur[q]
        BY <1>u, <2>1, <2>4 DEF Busy
      <3>2. \A q \in Proc : pc'[q] \in {"rsleep", "wsleep"} => pc[q] \in {"rsleep", "wsleep"}
        BY <2>1, <2>4
      <3> QED BY <1>a, <1>u, <3>1, <3>2, DriverSame
    <2>9. DataInv'
      <3>0. \A d : InUsed(d)' <=> InUsed(d) BY <1>u DEF InUsed, driver
      <3>s. {"write", "wsleep", "wdone", "unpin", "wwait", "rdone", "rwait"} \subseteq Holding
        BY DEF Holding
      <3>p. pc'[p] \notin {"write", "wsleep", "wdone", "unpin", "wwait", "rdone", "rwait"}
        BY <2>1, <2>4
      <3>1. \A c \in Buf : buf'[c].valid =>
              buf'[c].blockno # 0 /\ buf'[c].data = latest'[buf'[c].blockno]
        BY <1>a, <1>u, <2>3 DEF DataInv
      <3>2. \A m \in Block : platter'[m] # latest'[m] =>
              \/ m \in pinned'
              \/ \E q \in Proc : pc'[q] \in {"write", "wsleep", "wwait"} /\ buf'[cur'[q]].blockno = m
        <4>1. \A q \in Proc : pc[q] \in {"write", "wsleep", "wwait"} =>
                pc'[q] = pc[q] /\ cur[q] \in Buf
          BY <1>a, <1>u, <2>4, CurBuf
        <4> QED BY <1>a, <1>u, <2>3, <4>1 DEF DataInv
      <3>3. \A q \in Proc :
              pc'[q] \in {"wdone", "unpin"} \/ (pc'[q] = "wwait" /\ InUsed(idx[q])') =>
                platter'[buf'[cur'[q]].blockno] = latest'[buf'[cur'[q]].blockno]
        BY <1>a, <1>u, <2>3, <2>o, <3>0, <3>s, <3>p DEF DataInv
      <3>4. \A q \in Proc :
              pc'[q] = "rdone" \/ (pc'[q] = "rwait" /\ InUsed(idx[q])') =>
                buf'[cur'[q]].data = latest'[buf'[cur'[q]].blockno]
        BY <1>a, <1>u, <2>3, <2>o, <3>0, <3>s, <3>p DEF DataInv
      <3>5. \A q \in Proc : pc'[q] \in Holding => (buf'[cur'[q]].valid <=> pc'[q] \notin Reading)
        <4>1. buf'[cur'[p]].valid <=> pc'[p] \notin Reading
          BY <1>u, <1>0, <2>1, <2>3, <2>4 DEF Reading
        <4> QED BY <1>a, <1>u, <2>3, <2>o, <4>1 DEF DataInv
      <3>6. \A c \in Buf : buf'[c].blockno \in pinned' => buf'[c].valid
        BY <1>a, <1>u, <2>3 DEF DataInv
      <3>7. \A q \in Proc : pc'[q] = "unpin" => buf'[cur'[q]].blockno \in pinned'
        BY <1>a, <1>u, <2>3, <2>o, <3>s, <3>p DEF DataInv
      <3> QED BY <3>1, <3>2, <3>3, <3>4, <3>5, <3>6, <3>7 DEF DataInv
    <2> QED BY <2>5, <2>6, <2>7, <2>8, <2>9 DEF Inv
  <1> QED BY <1>2, <1>3

\* A store into a buffer by its holder: the copies are right if the block is then
\* pinned or about to be written.
LEMMA StoreData ==
    ASSUME TypeOK, UserInv, LockInv, DataInv, NEW p \in Proc, NEW b \in Buf, NEW n \in Block,
           NEW x, b = cur[p], n = buf[b].blockno, pc[p] = "own",
           UNCHANGED <<platter, used, cur, idx>>,
           pc'[p] \in {"own", "write"}, \A q \in Proc : q # p => pc'[q] = pc[q],
           buf'[b].data = x, \A c \in Buf : c # b => buf'[c].data = buf[c].data,
           \A c \in Buf : buf'[c].blockno = buf[c].blockno /\ buf'[c].valid = buf[c].valid,
           latest'[n] = x, \A m \in Block : m # n => latest'[m] = latest[m],
           pinned' \in {pinned, pinned \cup {n}}, n \in pinned' \/ pc'[p] = "write"
    PROVE  DataInv'
  <1>t. buf \in [Buf -> BufRec] BY DEF TypeOK, BufRec
  <1>u. /\ UNCHANGED <<platter, used, cur, idx>> /\ pc[p] = "own"
        /\ pinned' \in {pinned, pinned \cup {n}} /\ (n \in pinned' \/ pc'[p] = "write")
    OBVIOUS
  <1>o. \A q \in Proc : q # p /\ pc[q] \in Holding =>
          cur[q] \in Buf /\ cur[q] # b /\ buf[cur[q]].blockno # n
    BY Alone DEF Holding
  <1>v. buf[b].valid BY DEF DataInv, Holding, Reading
  <1>c. /\ buf'[b].data = x /\ \A c \in Buf : c # b => buf'[c].data = buf[c].data
        /\ \A c \in Buf : buf'[c].blockno = buf[c].blockno /\ buf'[c].valid = buf[c].valid
    OBVIOUS
  <1>l. latest'[n] = x /\ \A m \in Block : m # n => latest'[m] = latest[m] OBVIOUS
  <1>p. pc'[p] \in {"own", "write"} /\ \A q \in Proc : q # p => pc'[q] = pc[q] OBVIOUS
  <1>0. \A d : InUsed(d)' <=> InUsed(d) BY <1>u DEF InUsed
  <1>s. {"write", "wsleep", "wdone", "unpin", "wwait", "rdone", "rwait"} \subseteq Holding
    BY DEF Holding
  <1>b. \A q \in Proc : pc[q] \in Holding => buf[cur[q]].blockno \in Block
    BY CurBuf DEF Holding
  <1>1. \A c \in Buf : buf'[c].valid =>
          buf'[c].blockno # 0 /\ buf'[c].data = latest'[buf'[c].blockno]
    <2>1. ASSUME NEW c \in Buf, buf'[c].valid
          PROVE  buf'[c].blockno # 0 /\ buf'[c].data = latest'[buf'[c].blockno]
      <3>1. buf[c].blockno # 0 /\ buf[c].data = latest[buf[c].blockno]
        BY <1>c, <2>1 DEF DataInv
      <3>2. buf[c].blockno \in Block BY <1>t, <3>1 DEF BufRec
      <3>3. c # b => buf[c].blockno # n BY <3>1 DEF UserInv, OneBuffer
      <3> QED BY <1>c, <1>l, <3>1, <3>2, <3>3
    <2> QED BY <2>1
  <1>2. \A m \in Block : platter'[m] # latest'[m] =>
          \/ m \in pinned'
          \/ \E q \in Proc : pc'[q] \in {"write", "wsleep", "wwait"} /\ buf'[cur'[q]].blockno = m
    <2>1. ASSUME NEW m \in Block, m # n, platter'[m] # latest'[m], m \notin pinned'
          PROVE  \E q \in Proc : pc'[q] \in {"write", "wsleep", "wwait"} /\ buf'[cur'[q]].blockno = m
      <3>1. PICK q \in Proc : pc[q] \in {"write", "wsleep", "wwait"} /\ buf[cur[q]].blockno = m
        BY <1>u, <1>l, <2>1 DEF DataInv
      <3>2. q # p /\ pc[q] \in Holding BY <1>u, <1>s, <3>1
      <3> QED BY <1>u, <1>o, <1>c, <1>p, <3>1, <3>2
    <2>2. n \in pinned' \/ (pc'[p] = "write" /\ buf'[cur'[p]].blockno = n) BY <1>u, <1>c, <1>p
    <2> QED BY <2>1, <2>2
  <1>3. \A q \in Proc :
          pc'[q] \in {"wdone", "unpin"} \/ (pc'[q] = "wwait" /\ InUsed(idx[q])') =>
            platter'[buf'[cur'[q]].blockno] = latest'[buf'[cur'[q]].blockno]
    <2>1. ASSUME NEW q \in Proc,
                 pc'[q] \in {"wdone", "unpin"} \/ (pc'[q] = "wwait" /\ InUsed(idx[q])')
          PROVE  platter'[buf'[cur'[q]].blockno] = latest'[buf'[cur'[q]].blockno]
      <3>1. q # p /\ pc'[q] = pc[q] BY <1>p, <2>1
      <3>2. pc[q] \in Holding BY <1>s, <2>1, <3>1
      <3>3. platter[buf[cur[q]].blockno] = latest[buf[cur[q]].blockno]
        BY <1>u, <1>0, <2>1, <3>1 DEF DataInv
      <3> QED BY <1>u, <1>o, <1>c, <1>l, <1>b, <3>1, <3>2, <3>3
    <2> QED BY <2>1
  <1>4. \A q \in Proc :
          pc'[q] = "rdone" \/ (pc'[q] = "rwait" /\ InUsed(idx[q])') =>
            buf'[cur'[q]].data = latest'[buf'[cur'[q]].blockno]
    <2>1. ASSUME NEW q \in Proc, pc'[q] = "rdone" \/ (pc'[q] = "rwait" /\ InUsed(idx[q])')
          PROVE  buf'[cur'[q]].data = latest'[buf'[cur'[q]].blockno]
      <3>1. q # p /\ pc'[q] = pc[q] BY <1>p, <2>1
      <3>2. pc[q] \in Holding BY <1>s, <2>1, <3>1
      <3>3. buf[cur[q]].data = latest[buf[cur[q]].blockno]
        BY <1>u, <1>0, <2>1, <3>1 DEF DataInv
      <3> QED BY <1>u, <1>o, <1>c, <1>l, <1>b, <3>1, <3>2, <3>3
    <2> QED BY <2>1
  <1>5. \A q \in Proc : pc'[q] \in Holding => (buf'[cur'[q]].valid <=> pc'[q] \notin Reading)
    <2>1. buf'[cur'[p]].valid /\ pc'[p] \notin Reading BY <1>u, <1>v, <1>c, <1>p DEF Reading
    <2> QED BY <1>u, <1>o, <1>c, <1>p, <2>1 DEF DataInv
  <1>6. \A c \in Buf : buf'[c].blockno \in pinned' => buf'[c].valid
    <2>1. \A c \in Buf : buf[c].blockno = n => c = b BY BcacheAssumption DEF UserInv, OneBuffer
    <2> QED BY <1>u, <1>v, <1>c, <2>1 DEF DataInv
  <1>7. \A q \in Proc : pc'[q] = "unpin" => buf'[cur'[q]].blockno \in pinned'
    BY <1>u, <1>o, <1>c, <1>p, <1>s DEF DataInv
  <1> QED BY <1>1, <1>2, <1>3, <1>4, <1>5, <1>6, <1>7 DEF DataInv

\* A store into the buffer, written through at once.
LEMMA BwriteNew_Inv ==
    ASSUME Inv, NEW p \in Proc, BwriteNew(p) PROVE Inv'
  <1>a. TypeOK /\ UserInv /\ LockInv /\ RingInv /\ ChainInv /\ DataInv BY DEF Inv
  <1>t. buf \in [Buf -> BufRec] /\ cur \in [Proc -> 0 .. NBUF] /\ latest \in [Block -> Data]
    BY <1>a DEF TypeOK, BufRec
  <1>u. /\ pc[p] = "own" /\ Goto(p, "write") /\ Store(p)
        /\ UNCHANGED <<lru, platter, driver, cur, idx, pinned>>
    BY DEF BwriteNew
  <1>0. PICK b \in Buf : b = cur[p] BY <1>a, <1>u, CurBuf
  <1>1. PICK n \in Block : n = buf[b].blockno BY <1>a, <1>u, <1>0, CurBuf
  <1>2. buf[b].data \in Data /\ latest[n] \in Data BY <1>t DEF BufRec
  <1>3. PICK x \in Data : x = 1 - buf[b].data BY <1>2 DEF Data
  <1>4. buf[b].valid /\ buf[b].data = latest[n]
    BY <1>a, <1>u, <1>0, <1>1 DEF DataInv, Holding, Reading
  <1>5. buf' = [buf EXCEPT ![b].data = x] /\ latest' = [latest EXCEPT ![n] = x]
    BY <1>u, <1>0, <1>1, <1>3, <1>4 DEF Store, Mine
  <1>6. /\ buf' \in [Buf -> BufRec] /\ buf'[b].data = x
        /\ \A c \in Buf : c # b => buf'[c].data = buf[c].data
        /\ \A c \in Buf : /\ buf'[c].blockno = buf[c].blockno /\ buf'[c].valid = buf[c].valid
                          /\ buf'[c].disk = buf[c].disk /\ buf'[c].refcnt = buf[c].refcnt
                          /\ buf'[c].locked = buf[c].locked
    BY <1>t, <1>5, SetData
  <1>7. /\ latest' \in [Block -> Data] /\ latest'[n] = x
        /\ \A m \in Block : m # n => latest'[m] = latest[m]
    BY <1>t, <1>5
  <1>8. /\ pc' \in [Proc -> PCs] /\ pc'[p] = "write" /\ \A q \in Proc : q # p => pc'[q] = pc[q]
    BY <1>a, <1>u, GotoDoes DEF PCs
  <1>9. TypeOK' BY <1>a, <1>u, <1>6, <1>7, <1>8, TypeStep DEF TypeOK
  <1>10. UserInv'
    <2>1. \A q \in Proc : pc'[q] \in {"idle", "panic"} <=> pc[q] \in {"idle", "panic"} BY <1>u, <1>8
    <2> QED BY <1>a, <1>u, <1>6, <2>1, UserSame
  <1>11. LockInv'
    <2>1. \A q \in Proc : pc'[q] \in Holding => pc[q] \in Holding /\ cur'[q] = cur[q]
      BY <1>u, <1>8 DEF Holding
    <2>2. \A q \in Proc : pc'[q] \in Waiting <=> pc[q] \in Waiting BY <1>u, <1>8 DEF Waiting
    <2> QED BY <1>a, <1>6, <2>1, <2>2, LockSame
  <1>12. RingInv' /\ ChainInv'
    <2>1. \A q \in Proc : pc[q] \in Busy \/ pc'[q] \in Busy => pc'[q] = pc[q] /\ cur'[q] = cur[q]
      BY <1>u, <1>8 DEF Busy
    <2>2. \A q \in Proc : pc'[q] \in {"rsleep", "wsleep"} => pc[q] \in {"rsleep", "wsleep"}
      BY <1>8
    <2> QED BY <1>a, <1>u, <2>1, <2>2, DriverSame
  <1>13. DataInv' BY <1>a, <1>u, <1>0, <1>1, <1>6, <1>7, <1>8, StoreData DEF driver
  <1> QED BY <1>9, <1>10, <1>11, <1>12, <1>13 DEF Inv

\* install_trans() starts to write a pinned block.
LEMMA BwritePinned_Inv ==
    ASSUME Inv, NEW p \in Proc, BwritePinned(p) PROVE Inv'
  <1>a. TypeOK /\ UserInv /\ LockInv /\ RingInv /\ ChainInv /\ DataInv BY DEF Inv
  <1>t. buf \in [Buf -> BufRec] /\ cur \in [Proc -> 0 .. NBUF] /\ latest \in [Block -> Data]
    BY <1>a DEF TypeOK, BufRec
  <1>u. /\ pc[p] = "own" /\ Goto(p, "write")
        /\ UNCHANGED <<buf, lru, platter, driver, cur, idx, pinned, latest>>
    BY DEF BwritePinned, cache
  <1>1. /\ pc' \in [Proc -> PCs] /\ pc'[p] = "write" /\ \A q \in Proc : q # p => pc'[q] = pc[q]
    BY <1>a, <1>u, GotoDoes DEF PCs
  <1>2. TypeOK' BY <1>a, <1>t, <1>u, <1>1, TypeStep DEF TypeOK
  <1>3. UserInv'
    <2>1. \A q \in Proc : pc'[q] \in {"idle", "panic"} <=> pc[q] \in {"idle", "panic"} BY <1>u, <1>1
    <2> QED BY <1>a, <1>u, <2>1, UserSame
  <1>4. LockInv'
    <2>1. \A q \in Proc : pc'[q] \in Holding => pc[q] \in Holding /\ cur'[q] = cur[q]
      BY <1>u, <1>1 DEF Holding
    <2>2. \A q \in Proc : pc'[q] \in Waiting <=> pc[q] \in Waiting BY <1>u, <1>1 DEF Waiting
    <2> QED BY <1>a, <1>u, <2>1, <2>2, LockSame
  <1>5. RingInv' /\ ChainInv'
    <2>1. \A q \in Proc : pc[q] \in Busy \/ pc'[q] \in Busy => pc'[q] = pc[q] /\ cur'[q] = cur[q]
      BY <1>u, <1>1 DEF Busy
    <2>2. \A q \in Proc : pc'[q] \in {"rsleep", "wsleep"} => pc[q] \in {"rsleep", "wsleep"}
      BY <1>1
    <2> QED BY <1>a, <1>u, <2>1, <2>2, DriverSame
  <1>6. DataInv'
    <2>0. \A d : InUsed(d)' <=> InUsed(d) BY <1>u DEF InUsed, driver
    <2>1. \A m \in Block : platter'[m] # latest'[m] =>
            \/ m \in pinned'
            \/ \E q \in Proc : pc'[q] \in {"write", "wsleep", "wwait"} /\ buf'[cur'[q]].blockno = m
      BY <1>a, <1>u, <1>1 DEF DataInv
    <2>2. \A q \in Proc : pc'[q] \in Holding => (buf'[cur'[q]].valid <=> pc'[q] \notin Reading)
      <3>1. \A q \in Proc : /\ pc'[q] \in Holding <=> pc[q] \in Holding
                            /\ pc'[q] \in Reading <=> pc[q] \in Reading
        BY <1>u, <1>1 DEF Holding, Reading
      <3> QED BY <1>a, <1>u, <3>1 DEF DataInv
    <2>3. \A q \in Proc :
            pc'[q] \in {"wdone", "unpin"} \/ (pc'[q] = "wwait" /\ InUsed(idx[q])') =>
              platter'[buf'[cur'[q]].blockno] = latest'[buf'[cur'[q]].blockno]
      BY <1>a, <1>u, <1>1, <2>0 DEF DataInv
    <2>4. \A q \in Proc :
            pc'[q] = "rdone" \/ (pc'[q] = "rwait" /\ InUsed(idx[q])') =>
              buf'[cur'[q]].data = latest'[buf'[cur'[q]].blockno]
      BY <1>a, <1>u, <1>1, <2>0 DEF DataInv
    <2>5. \A q \in Proc : pc'[q] = "unpin" => buf'[cur'[q]].blockno \in pinned'
      BY <1>a, <1>u, <1>1 DEF DataInv
    <2>6. \A c \in Buf : /\ buf'[c].blockno \in pinned' => buf'[c].valid
                         /\ buf'[c].valid => buf'[c].blockno # 0 /\
                                             buf'[c].data = latest'[buf'[c].blockno]
      BY <1>a, <1>u DEF DataInv
    <2> QED BY <2>1, <2>2, <2>3, <2>4, <2>5, <2>6 DEF DataInv
  <1> QED BY <1>2, <1>3, <1>4, <1>5, <1>6 DEF Inv

\* log_write(): a store, and the pin if the block had none.
LEMMA Bpin_Inv ==
    ASSUME Inv, NEW p \in Proc, Bpin(p) PROVE Inv'
  <1>a. TypeOK /\ UserInv /\ LockInv /\ RingInv /\ ChainInv /\ DataInv BY DEF Inv
  <1>t. buf \in [Buf -> BufRec] /\ cur \in [Proc -> 0 .. NBUF] /\ latest \in [Block -> Data]
    BY <1>a DEF TypeOK, BufRec
  <1>u. pc[p] = "own" /\ UNCHANGED <<lru, platter, driver, pc, cur, idx>> BY DEF Bpin
  <1>0. PICK b \in Buf : b = cur[p] BY <1>a, <1>u, CurBuf
  <1>1. PICK n \in Block : n = buf[b].blockno BY <1>a, <1>u, <1>0, CurBuf
  <1>2. buf[b].data \in Data /\ latest[n] \in Data /\ buf[b].refcnt \in Nat BY <1>t DEF BufRec
  <1>3. PICK x \in Data : x = 1 - buf[b].data BY <1>2 DEF Data
  <1>4. PICK y \in Nat : y = IF n \in pinned THEN buf[b].refcnt ELSE buf[b].refcnt + 1 BY <1>2
  <1>5. buf[b].valid /\ buf[b].data = latest[n]
    BY <1>a, <1>u, <1>0, <1>1 DEF DataInv, Holding, Reading
  <1>6. /\ buf' = [buf EXCEPT ![b].data = x, ![b].refcnt = y]
        /\ latest' = [latest EXCEPT ![n] = x]
        /\ pinned' = pinned \cup {n} /\ n \in Changed
    BY <1>0, <1>1, <1>3, <1>4, <1>5 DEF Bpin, Mine
  <1>7. /\ buf' \in [Buf -> BufRec] /\ buf'[b].data = x /\ buf'[b].refcnt = y
        /\ \A c \in Buf : c # b => buf'[c].data = buf[c].data /\ buf'[c].refcnt = buf[c].refcnt
        /\ \A c \in Buf : /\ buf'[c].blockno = buf[c].blockno /\ buf'[c].valid = buf[c].valid
                          /\ buf'[c].disk = buf[c].disk /\ buf'[c].locked = buf[c].locked
    BY <1>t, <1>6, SetPinned
  <1>8. /\ latest' \in [Block -> Data] /\ latest'[n] = x
        /\ \A m \in Block : m # n => latest'[m] = latest[m]
    BY <1>t, <1>6
  <1>9. TypeOK' BY <1>a, <1>u, <1>6, <1>7, <1>8, TypeStep DEF TypeOK
  <1>10. UserInv'
    <2>1. OneBuffer' BY <1>a, <1>7 DEF UserInv, OneBuffer
    <2>2. RefsExact'
      <3>1. ASSUME NEW c \in Buf
            PROVE  buf'[c].refcnt = Cardinality(Users(c)) +
                     (IF buf'[c].blockno \in pinned' THEN 1 ELSE 0)
        <4>1. buf[c].refcnt = Cardinality(Users(c)) + (IF buf[c].blockno \in pinned THEN 1 ELSE 0)
          BY <1>a DEF UserInv, RefsExact, Users
        <4>2. Cardinality(Users(c)) \in Nat
          BY BcacheAssumption, FS_Subset, FS_CardinalityType DEF Users
        <4>3. CASE c = b BY <1>1, <1>4, <1>6, <1>7, <4>1, <4>2, <4>3
        <4>4. CASE c # b
          <5>1. buf[c].blockno # n BY <1>a, <1>1, <4>4, BcacheAssumption DEF UserInv, OneBuffer
          <5> QED BY <1>6, <1>7, <4>1, <4>4, <5>1
        <4> QED BY <4>3, <4>4
      <3> QED BY <1>u, <3>1 DEF RefsExact, Users
    <2>3. \A q \in Proc : cur[q] # 0 => cur[q] \in Buf BY <1>t, BcacheAssumption DEF Buf
    <2>4. \A q \in Proc : cur'[q] # 0 => buf'[cur'[q]].blockno # 0
      BY <1>a, <1>u, <1>7, <2>3 DEF UserInv
    <2>5. \A m \in pinned' : \E c \in Buf : buf'[c].blockno = m
      BY <1>a, <1>1, <1>6, <1>7 DEF UserInv
    <2>6. \A q \in Proc : cur'[q] = 0 <=> pc'[q] \in {"idle", "panic"} BY <1>a, <1>u DEF UserInv
    <2> QED BY <2>1, <2>2, <2>4, <2>5, <2>6 DEF UserInv
  <1>11. LockInv' BY <1>a, <1>u, <1>7, LockSame
  <1>12. RingInv' /\ ChainInv' BY <1>a, <1>u, DriverSame
  <1>13. DataInv' BY <1>a, <1>u, <1>0, <1>1, <1>6, <1>7, <1>8, StoreData DEF driver
  <1> QED BY <1>9, <1>10, <1>11, <1>12, <1>13 DEF Inv

\* install_trans() drops the pin of the block it has written.
LEMMA Bunpin_Inv ==
    ASSUME Inv, NEW p \in Proc, Bunpin(p) PROVE Inv'
  <1>a. TypeOK /\ UserInv /\ LockInv /\ RingInv /\ ChainInv /\ DataInv BY DEF Inv
  <1>t. buf \in [Buf -> BufRec] /\ cur \in [Proc -> 0 .. NBUF] /\ latest \in [Block -> Data]
    BY <1>a DEF TypeOK, BufRec
  <1>u. pc[p] = "unpin" /\ Goto(p, "own") /\ UNCHANGED <<lru, platter, driver, cur, idx, latest>>
    BY DEF Bunpin
  <1>0. PICK b \in Buf : b = cur[p] BY <1>a, <1>u, CurBuf
  <1>1. PICK n \in Block : n = buf[b].blockno BY <1>a, <1>u, <1>0, CurBuf
  <1>o. \A q \in Proc : q # p /\ pc[q] \in Holding =>
          cur[q] \in Buf /\ cur[q] # b /\ buf[cur[q]].blockno # n
    BY <1>a, <1>u, <1>0, <1>1, Alone DEF Holding
  <1>2. buf[b].refcnt \in Nat /\ buf[b].refcnt >= 1
    BY <1>a, <1>t, <1>u, <1>0, CurBuf DEF BufRec
  <1>3. PICK x \in Nat : x = buf[b].refcnt - 1 BY <1>2
  <1>4. buf' = [buf EXCEPT ![b].refcnt = x] /\ pinned' = pinned \ {n}
    BY <1>0, <1>1, <1>3 DEF Bunpin, Mine
  <1>5. n \in pinned /\ buf[b].valid /\ platter[n] = latest[n]
    BY <1>a, <1>u, <1>0, <1>1 DEF DataInv, Holding, Reading
  <1>6. /\ buf' \in [Buf -> BufRec] /\ buf'[b].refcnt = x
        /\ \A c \in Buf : c # b => buf'[c].refcnt = buf[c].refcnt
        /\ \A c \in Buf : /\ buf'[c].blockno = buf[c].blockno /\ buf'[c].valid = buf[c].valid
                          /\ buf'[c].disk = buf[c].disk /\ buf'[c].data = buf[c].data
                          /\ buf'[c].locked = buf[c].locked
    BY <1>t, <1>4, SetRefcnt
  <1>7. /\ pc' \in [Proc -> PCs] /\ pc'[p] = "own" /\ \A q \in Proc : q # p => pc'[q] = pc[q]
    BY <1>a, <1>u, GotoDoes DEF PCs
  <1>8. TypeOK' BY <1>a, <1>u, <1>4, <1>6, <1>7, TypeStep DEF TypeOK
  <1>9. UserInv'
    <2>1. OneBuffer' BY <1>a, <1>6 DEF UserInv, OneBuffer
    <2>2. RefsExact'
      <3>1. ASSUME NEW c \in Buf
            PROVE  buf'[c].refcnt = Cardinality(Users(c)) +
                     (IF buf'[c].blockno \in pinned' THEN 1 ELSE 0)
        <4>1. buf[c].refcnt = Cardinality(Users(c)) + (IF buf[c].blockno \in pinned THEN 1 ELSE 0)
          BY <1>a DEF UserInv, RefsExact, Users
        <4>2. Cardinality(Users(c)) \in Nat
          BY BcacheAssumption, FS_Subset, FS_CardinalityType DEF Users
        <4>3. CASE c = b BY <1>1, <1>3, <1>4, <1>5, <1>6, <4>1, <4>2, <4>3
        <4>4. CASE c # b
          <5>1. buf[c].blockno # n BY <1>a, <1>1, <4>4, BcacheAssumption DEF UserInv, OneBuffer
          <5> QED BY <1>4, <1>6, <4>1, <4>4, <5>1
        <4> QED BY <4>3, <4>4
      <3> QED BY <1>u, <3>1 DEF RefsExact, Users
    <2>3. \A q \in Proc : cur[q] # 0 => cur[q] \in Buf BY <1>t, BcacheAssumption DEF Buf
    <2>4. \A q \in Proc : cur'[q] # 0 => buf'[cur'[q]].blockno # 0
      BY <1>a, <1>u, <1>6, <2>3 DEF UserInv
    <2>5. \A m \in pinned' : \E c \in Buf : buf'[c].blockno = m BY <1>a, <1>4, <1>6 DEF UserInv
    <2>6. \A q \in Proc : cur'[q] = 0 <=> pc'[q] \in {"idle", "panic"}
      BY <1>a, <1>u, <1>7 DEF UserInv
    <2> QED BY <2>1, <2>2, <2>4, <2>5, <2>6 DEF UserInv
  <1>10. LockInv'
    <2>1. \A q \in Proc : pc'[q] \in Holding => pc[q] \in Holding /\ cur'[q] = cur[q]
      BY <1>u, <1>7 DEF Holding
    <2>2. \A q \in Proc : pc'[q] \in Waiting <=> pc[q] \in Waiting BY <1>u, <1>7 DEF Waiting
    <2> QED BY <1>a, <1>6, <2>1, <2>2, LockSame
  <1>11. RingInv' /\ ChainInv'
    <2>1. \A q \in Proc : pc[q] \in Busy \/ pc'[q] \in Busy => pc'[q] = pc[q] /\ cur'[q] = cur[q]
      BY <1>u, <1>7 DEF Busy
    <2>2. \A q \in Proc : pc'[q] \in {"rsleep", "wsleep"} => pc[q] \in {"rsleep", "wsleep"}
      BY <1>7
    <2> QED BY <1>a, <1>u, <2>1, <2>2, DriverSame
  <1>12. DataInv'
    <2>0. \A d : InUsed(d)' <=> InUsed(d) BY <1>u DEF InUsed, driver
    <2>s. {"write", "wsleep", "wdone", "unpin", "wwait", "rdone", "rwait"} \subseteq Holding
      BY DEF Holding
    <2>1. \A c \in Buf : /\ buf'[c].blockno \in pinned' => buf'[c].valid
                         /\ buf'[c].valid => buf'[c].blockno # 0 /\
                                             buf'[c].data = latest'[buf'[c].blockno]
      BY <1>a, <1>u, <1>4, <1>6 DEF DataInv
    <2>2. \A m \in Block : platter'[m] # latest'[m] =>
            \/ m \in pinned'
            \/ \E q \in Proc : pc'[q] \in {"write", "wsleep", "wwait"} /\ buf'[cur'[q]].blockno = m
      <3>1. \A q \in Proc : pc[q] \in {"write", "wsleep", "wwait"} =>
              pc'[q] = pc[q] /\ buf'[cur'[q]].blockno = buf[cur[q]].blockno
        BY <1>u, <1>o, <1>6, <1>7, <2>s
      <3> QED BY <1>a, <1>u, <1>4, <1>5, <3>1 DEF DataInv
    <2>3. \A q \in Proc :
            pc'[q] \in {"wdone", "unpin"} \/ (pc'[q] = "wwait" /\ InUsed(idx[q])') =>
              platter'[buf'[cur'[q]].blockno] = latest'[buf'[cur'[q]].blockno]
      BY <1>a, <1>u, <1>o, <1>6, <1>7, <2>0, <2>s DEF DataInv
    <2>4. \A q \in Proc :
            pc'[q] = "rdone" \/ (pc'[q] = "rwait" /\ InUsed(idx[q])') =>
              buf'[cur'[q]].data = latest'[buf'[cur'[q]].blockno]
      BY <1>a, <1>u, <1>o, <1>6, <1>7, <2>0, <2>s DEF DataInv
    <2>5. \A q \in Proc : pc'[q] \in Holding => (buf'[cur'[q]].valid <=> pc'[q] \notin Reading)
      <3>1. buf'[cur'[p]].valid /\ pc'[p] \notin Reading BY <1>u, <1>0, <1>5, <1>6, <1>7 DEF Reading
      <3> QED BY <1>a, <1>u, <1>o, <1>6, <1>7, <3>1 DEF DataInv
    <2>6. \A q \in Proc : pc'[q] = "unpin" => buf'[cur'[q]].blockno \in pinned'
      BY <1>a, <1>u, <1>o, <1>4, <1>6, <1>7, <2>s DEF DataInv
    <2> QED BY <2>1, <2>2, <2>3, <2>4, <2>5, <2>6 DEF DataInv
  <1> QED BY <1>8, <1>9, <1>10, <1>11, <1>12 DEF Inv

\* brelse() gives the sleep-lock up and wakes those who wait for it.
LEMMA Brelse_Inv ==
    ASSUME Inv, NEW p \in Proc, Brelse(p) PROVE Inv'
  <1>a. TypeOK /\ UserInv /\ LockInv /\ RingInv /\ ChainInv /\ DataInv BY DEF Inv
  <1>t. buf \in [Buf -> BufRec] /\ cur \in [Proc -> 0 .. NBUF] /\ latest \in [Block -> Data]
    BY <1>a DEF TypeOK, BufRec
  <1>u. pc[p] = "own" /\ UNCHANGED <<lru, platter, driver, cur, idx, pinned, latest>> BY DEF Brelse
  <1>0. PICK b \in Buf : b = cur[p] BY <1>a, <1>u, CurBuf
  <1>1. PICK n \in Block : n = buf[b].blockno BY <1>a, <1>u, <1>0, CurBuf
  <1>o. \A q \in Proc : q # p /\ pc[q] \in Holding =>
          cur[q] \in Buf /\ cur[q] # b /\ buf[cur[q]].blockno # n
    BY <1>a, <1>u, <1>0, <1>1, Alone DEF Holding
  <1>2. buf' = [buf EXCEPT ![b].locked = 0] BY <1>0 DEF Brelse
  <1>3. /\ buf' \in [Buf -> BufRec] /\ \A c \in Buf : c # b => buf'[c].locked = buf[c].locked
        /\ \A c \in Buf : /\ buf'[c].blockno = buf[c].blockno /\ buf'[c].valid = buf[c].valid
                          /\ buf'[c].disk = buf[c].disk /\ buf'[c].refcnt = buf[c].refcnt
                          /\ buf'[c].data = buf[c].data
    <2>1. PICK x \in Proc \cup {0} : x = 0 OBVIOUS
    <2> QED BY <1>t, <1>2, <2>1, SetLocked
  <1>4. /\ pc'[p] = "relse"
        /\ \A q \in Proc : q # p => pc'[q] = pc[q] \/ (pc[q] = "lsleep" /\ pc'[q] = "lock")
    BY DEF Brelse, Releasesleep
  <1>5. pc' \in [Proc -> PCs]
    <2>1. pc' = [q \in Proc |-> pc'[q]] BY DEF Brelse, Releasesleep
    <2>2. \A q \in Proc : pc[q] \in PCs BY <1>a DEF TypeOK
    <2>3. \A q \in Proc : pc'[q] \in PCs BY <1>4, <2>2 DEF PCs
    <2> QED BY <2>1, <2>3
  <1>6. TypeOK' BY <1>a, <1>u, <1>3, <1>5, TypeStep DEF TypeOK
  <1>7. UserInv'
    <2>1. \A q \in Proc : pc'[q] \in {"idle", "panic"} <=> pc[q] \in {"idle", "panic"} BY <1>u, <1>4
    <2> QED BY <1>a, <1>u, <1>3, <2>1, UserSame
  <1>8. LockInv'
    <2>0. Waiting \subseteq Holding BY DEF Waiting, Holding
    <2>1. \A q \in Proc : pc'[q] \in Holding => q # p /\ pc[q] \in Holding BY <1>4 DEF Holding
    <2>2. \A q \in Proc : pc'[q] \in Waiting <=> pc[q] \in Waiting BY <1>u, <1>4 DEF Waiting
    <2>3. \A q \in Proc : pc'[q] \in Holding => buf'[cur'[q]].locked = q
      BY <1>a, <1>u, <1>o, <1>3, <2>1 DEF LockInv
    <2>4. \A q \in Proc : pc'[q] \in Waiting => buf'[cur'[q]].disk
      BY <1>a, <1>u, <1>o, <1>3, <2>0, <2>1, <2>2 DEF LockInv
    <2>5. \A c \in Buf : buf'[c].disk => \E q \in Proc : cur'[q] = c /\ pc'[q] \in Waiting
      BY <1>a, <1>u, <1>3, <2>2 DEF LockInv
    <2> QED BY <2>3, <2>4, <2>5 DEF LockInv
  <1>9. RingInv' /\ ChainInv'
    <2>1. \A q \in Proc : pc[q] \in Busy \/ pc'[q] \in Busy => pc'[q] = pc[q] /\ cur'[q] = cur[q]
      BY <1>u, <1>4 DEF Busy
    <2>2. \A q \in Proc : pc'[q] \in {"rsleep", "wsleep"} => pc[q] \in {"rsleep", "wsleep"}
      BY <1>4
    <2> QED BY <1>a, <1>u, <2>1, <2>2, DriverSame
  <1>10. DataInv'
    <2>1. \A q \in Proc : pc[q] \in Holding \/ pc'[q] \in Holding =>
            \/ cur'[q] = cur[q] /\ pc'[q] = pc[q]
            \/ pc[q] = "own" /\ pc'[q] \notin Holding
      BY <1>u, <1>4 DEF Holding
    <2> QED BY <1>a, <1>u, <1>3, <2>1, DataSame DEF driver
  <1> QED BY <1>6, <1>7, <1>8, <1>9, <1>10 DEF Inv

\* brelse() drops the reference.
LEMMA BrelseRef_Inv ==
    ASSUME Inv, NEW p \in Proc, BrelseRef(p) PROVE Inv'
  <1>a. TypeOK /\ UserInv /\ LockInv /\ RingInv /\ ChainInv /\ DataInv BY DEF Inv
  <1>t. buf \in [Buf -> BufRec] /\ cur \in [Proc -> 0 .. NBUF] /\ latest \in [Block -> Data]
    BY <1>a DEF TypeOK, BufRec
  <1>u. /\ pc[p] = "relse" /\ Goto(p, "idle") /\ cur' = [cur EXCEPT ![p] = 0]
        /\ UNCHANGED <<platter, driver, idx, pinned, latest>>
    BY DEF BrelseRef
  <1>0. PICK b \in Buf : b = cur[p] BY <1>a, <1>u, CurBuf
  <1>1. PICK n \in Block : n = buf[b].blockno BY <1>a, <1>u, <1>0, CurBuf
  <1>2. buf[b].refcnt \in Nat /\ buf[b].refcnt >= 1
    BY <1>a, <1>t, <1>u, <1>0, CurBuf DEF BufRec
  <1>3. PICK x \in Nat : x = buf[b].refcnt - 1 BY <1>2
  <1>4. buf' = [buf EXCEPT ![b].refcnt = x] BY <1>0, <1>3 DEF BrelseRef
  <1>5. /\ buf' \in [Buf -> BufRec] /\ buf'[b].refcnt = x
        /\ \A c \in Buf : c # b => buf'[c].refcnt = buf[c].refcnt
        /\ \A c \in Buf : /\ buf'[c].blockno = buf[c].blockno /\ buf'[c].valid = buf[c].valid
                          /\ buf'[c].disk = buf[c].disk /\ buf'[c].data = buf[c].data
                          /\ buf'[c].locked = buf[c].locked
    BY <1>t, <1>4, SetRefcnt
  <1>6. /\ pc' \in [Proc -> PCs] /\ pc'[p] = "idle" /\ \A q \in Proc : q # p => pc'[q] = pc[q]
    BY <1>a, <1>u, GotoDoes DEF PCs
  <1>7. /\ cur' \in [Proc -> 0 .. NBUF] /\ cur'[p] = 0
        /\ \A q \in Proc : q # p => cur'[q] = cur[q]
    BY <1>t, <1>u, BcacheAssumption
  <1>8. /\ Cardinality(Users(b)') = Cardinality(Users(b)) - 1 /\ Cardinality(Users(b)) \in Nat
        /\ \A c \in Buf : c # b => Users(c)' = Users(c)
    BY <1>a, <1>u, <1>0, UsersLeave
  <1>9. TypeOK'
    <2>1. lru' = ToFront(b) \/ lru' = lru BY <1>0 DEF BrelseRef
    <2>2. lru' \in [Buf -> Buf] /\ {lru'[k] : k \in Buf} = Buf
      <3>1. CASE lru' = lru BY <1>a, <3>1, ZenonT(40) DEF TypeOK
      <3>2. CASE lru' = ToFront(b) BY <1>a, <3>2, ToFrontType
      <3> QED BY <2>1, <3>1, <3>2
    <2>3. UNCHANGED <<free, chain, avail, used, irq, handler>> BY <1>u DEF driver
    <2> QED BY <1>a, <1>u, <1>5, <1>6, <1>7, <2>2, <2>3 DEF TypeOK, BufRec
  <1>10. UserInv'
    <2>1. OneBuffer' BY <1>a, <1>5 DEF UserInv, OneBuffer
    <2>2. RefsExact'
      <3>1. ASSUME NEW c \in Buf
            PROVE  buf'[c].refcnt = Cardinality(Users(c)') +
                     (IF buf'[c].blockno \in pinned' THEN 1 ELSE 0)
        <4>1. buf[c].refcnt = Cardinality(Users(c)) + (IF buf[c].blockno \in pinned THEN 1 ELSE 0)
          BY <1>a DEF UserInv, RefsExact, Users
        <4>2. buf'[c].blockno = buf[c].blockno /\ pinned' = pinned BY <1>5, <1>u
        <4>3. CASE c = b BY <1>3, <1>5, <1>8, <4>1, <4>2, <4>3
        <4>4. CASE c # b BY <1>5, <1>8, <4>1, <4>2, <4>4
        <4> QED BY <4>3, <4>4
      <3> QED BY <3>1 DEF RefsExact, Users
    <2>3. \A q \in Proc : cur[q] # 0 => cur[q] \in Buf BY <1>t, BcacheAssumption DEF Buf
    <2>4. \A q \in Proc : cur'[q] # 0 => buf'[cur'[q]].blockno # 0
      BY <1>a, <1>5, <1>7, <2>3 DEF UserInv
    <2>5. \A m \in pinned' : \E c \in Buf : buf'[c].blockno = m BY <1>a, <1>u, <1>5 DEF UserInv
    <2>6. \A q \in Proc : cur'[q] = 0 <=> pc'[q] \in {"idle", "panic"}
      BY <1>a, <1>6, <1>7 DEF UserInv
    <2> QED BY <2>1, <2>2, <2>4, <2>5, <2>6 DEF UserInv
  <1>11. LockInv'
    <2>1. \A q \in Proc : pc'[q] \in Holding => pc[q] \in Holding /\ cur'[q] = cur[q]
      BY <1>6, <1>7 DEF Holding
    <2>2. \A q \in Proc : pc'[q] \in Waiting <=> pc[q] \in Waiting BY <1>u, <1>6 DEF Waiting
    <2> QED BY <1>a, <1>5, <2>1, <2>2, LockSame
  <1>12. RingInv' /\ ChainInv'
    <2>1. \A q \in Proc : pc[q] \in Busy \/ pc'[q] \in Busy => pc'[q] = pc[q] /\ cur'[q] = cur[q]
      BY <1>u, <1>6, <1>7 DEF Busy
    <2>2. \A q \in Proc : pc'[q] \in {"rsleep", "wsleep"} => pc[q] \in {"rsleep", "wsleep"}
      BY <1>6
    <2> QED BY <1>a, <1>u, <2>1, <2>2, DriverSame
  <1>13. DataInv'
    <2>1. \A q \in Proc : pc[q] \in Holding \/ pc'[q] \in Holding =>
            cur'[q] = cur[q] /\ pc'[q] = pc[q]
      BY <1>u, <1>6, <1>7 DEF Holding
    <2> QED BY <1>a, <1>u, <1>5, <2>1, DataSame DEF driver
  <1> QED BY <1>9, <1>10, <1>11, <1>12, <1>13 DEF Inv

----------------------------------------------------------------------------
(* The driver's steps                                                      *)

\* The handler acknowledges the interrupt before it looks at the used ring.
LEMMA IntrAck_Inv ==
    ASSUME Inv, IntrAck PROVE Inv'
  <1>a. TypeOK /\ UserInv /\ LockInv /\ RingInv /\ ChainInv /\ DataInv BY DEF Inv
  <1>t. buf \in [Buf -> BufRec] /\ cur \in [Proc -> 0 .. NBUF] /\ latest \in [Block -> Data]
    BY <1>a DEF TypeOK, BufRec
  <1>u. /\ UNCHANGED <<buf, lru, platter, free, chain, avail, used, pc, cur, idx, pinned, latest>>
        /\ irq' = FALSE /\ handler' = TRUE
    BY DEF IntrAck, cache
  <1>1. TypeOK' BY <1>a, <1>u, ZenonT(40) DEF TypeOK
  <1>2. UserInv' BY <1>a, <1>u, UserSame
  <1>3. LockInv' BY <1>a, <1>u, LockSame
  <1>4. RingInv' BY <1>a, <1>u DEF RingInv, InAvail, InUsed
  <1>5. ChainInv' BY <1>a, <1>u, ChainSame
  <1>6. DataInv' BY <1>a, <1>u, DataSame
  <1> QED BY <1>1, <1>2, <1>3, <1>4, <1>5, <1>6 DEF Inv

\* A request gets three free descriptors, which no other request has.
LEMMA Submit_Inv ==
    ASSUME Inv, NEW p \in Proc, Submit(p) PROVE Inv'
  <1>a. TypeOK /\ UserInv /\ LockInv /\ RingInv /\ ChainInv /\ DataInv BY DEF Inv
  <1>t. /\ buf \in [Buf -> BufRec] /\ cur \in [Proc -> 0 .. NBUF] /\ idx \in [Proc -> Desc]
        /\ chain \in [Desc -> ChainRec] /\ free \subseteq Desc
        /\ avail \in Seq(Desc) /\ used \in Seq(Desc) /\ pc \in [Proc -> PCs]
    BY <1>a DEF TypeOK, BufRec, ChainRec
  <1>u. /\ pc[p] \in {"read", "write"} /\ Cardinality(free) >= 3
        /\ UNCHANGED <<lru, platter, used, irq, handler, cur, pinned, latest>>
    BY DEF Submit
  <1>0. PICK b \in Buf : b = cur[p] BY <1>a, <1>u, CurBuf
  <1>1. PICK T \in SUBSET free : T = Three BY <1>t, <1>u, ThreeThere
  <1>2. PICK h \in T : h = Lowest(Three) BY <1>t, <1>u, <1>1, ThreeThere
  <1>3. PICK s \in {"rwait", "wwait"} : s = IF pc[p] = "read" THEN "rwait" ELSE "wwait" OBVIOUS
  <1>4. /\ free' = free \ T
        /\ chain' = [chain EXCEPT ![h] = [ids |-> T, b |-> b, write |-> pc[p] = "write"]]
        /\ buf' = [buf EXCEPT ![b].disk = TRUE]
        /\ avail' = Append(avail, h)
        /\ idx' = [idx EXCEPT ![p] = h]
        /\ Goto(p, s)
    BY <1>0, <1>1, <1>2, <1>3 DEF Submit
  <1>5. h \in Desc /\ h \in free /\ T \subseteq Desc BY <1>t
  <1>6. /\ buf' \in [Buf -> BufRec] /\ buf'[b].disk
        /\ \A c \in Buf : c # b => buf'[c].disk = buf[c].disk
        /\ \A c \in Buf : /\ buf'[c].blockno = buf[c].blockno /\ buf'[c].valid = buf[c].valid
                          /\ buf'[c].refcnt = buf[c].refcnt /\ buf'[c].data = buf[c].data
                          /\ buf'[c].locked = buf[c].locked
    BY <1>t, <1>4, SetDisk
  <1>7. /\ pc' \in [Proc -> PCs] /\ pc'[p] = s /\ \A q \in Proc : q # p => pc'[q] = pc[q]
    BY <1>a, <1>3, <1>4, GotoDoes DEF PCs
  <1>8. /\ chain' \in [Desc -> ChainRec]
        /\ chain'[h].ids = T /\ chain'[h].b = b /\ (chain'[h].write <=> s = "wwait")
        /\ \A d \in Desc : d # h => chain'[d] = chain[d]
    <2>1. PICK r \in ChainRec : r = [ids |-> T, b |-> b, write |-> pc[p] = "write"]
      <3> DEFINE w == pc[p] = "write"
      <3>1. b \in 0 .. NBUF /\ w \in BOOLEAN BY <1>0, <1>t
      <3> HIDE DEF w
      <3>2. [ids |-> T, b |-> b, write |-> w] \in ChainRec BY <1>5, <3>1 DEF ChainRec
      <3> QED BY <3>2 DEF w
    <2>2. chain' = [chain EXCEPT ![h] = r] BY <1>4, <2>1
    <2>3. r.ids = T /\ r.b = b /\ (r.write <=> s = "wwait") BY <1>u, <1>3, <2>1
    <2> QED BY <1>t, <1>5, <2>2, <2>3
  <1>9. /\ idx' \in [Proc -> Desc] /\ idx'[p] = h /\ \A q \in Proc : q # p => idx'[q] = idx[q]
    BY <1>t, <1>4, <1>5
  <1>10. /\ avail' \in Seq(Desc) /\ Len(avail') = Len(avail) + 1 /\ Len(avail) \in Nat
         /\ DOMAIN avail = 1 .. Len(avail) /\ DOMAIN avail' = 1 .. Len(avail) + 1
         /\ avail'[Len(avail) + 1] = h /\ \A k \in 1 .. Len(avail) : avail'[k] = avail[k]
    BY <1>t, <1>4, <1>5
  <1>11. ~InAvail(h) /\ ~InUsed(h)
    <2>1. \A q \in Proc : pc[q] \in Waiting => idx[q] # h
      BY <1>a, <1>5 DEF ChainInv, Busy, Waiting
    <2> QED BY <1>a, <1>5, <2>1 DEF RingInv
  <1>12. \A d : (InUsed(d)' <=> InUsed(d)) /\ (InAvail(d)' <=> InAvail(d) \/ d = h)
    <2>1. \A d : InUsed(d)' <=> InUsed(d) BY <1>u DEF InUsed
    <2>2. ASSUME NEW d PROVE InAvail(d)' <=> InAvail(d) \/ d = h
      <3>1. ASSUME InAvail(d) PROVE InAvail(d)'
        <4>1. PICK k \in 1 .. Len(avail) : avail[k] = d BY <1>10, <3>1 DEF InAvail
        <4>2. k \in 1 .. Len(avail) + 1 BY <1>10
        <4> QED BY <1>10, <4>1, <4>2 DEF InAvail
      <3>2. InAvail(h)'
        <4>1. Len(avail) + 1 \in 1 .. Len(avail) + 1 BY <1>10
        <4> QED BY <1>10, <4>1 DEF InAvail
      <3>3. ASSUME InAvail(d)' PROVE InAvail(d) \/ d = h
        <4>1. PICK k \in 1 .. Len(avail) + 1 : avail'[k] = d BY <1>10, <3>3 DEF InAvail
        <4>2. k \in 1 .. Len(avail) \/ k = Len(avail) + 1 BY <1>10
        <4> QED BY <1>10, <4>1, <4>2 DEF InAvail
      <3> QED BY <3>1, <3>2, <3>3
    <2> QED BY <2>1, <2>2
  <1>13. \A q \in Proc : pc'[q] \in Waiting <=> pc[q] \in Waiting \/ q = p
    BY <1>3, <1>7 DEF Waiting
  <1>14. pc[p] \notin Waiting /\ pc[p] \notin Busy /\ pc[p] \in Holding
    BY <1>u DEF Waiting, Busy, Holding
  <1>15. TypeOK'
    <2>1. UNCHANGED <<lru, platter, used, irq, handler, cur, pinned, latest>> BY <1>u
    <2>2. free' \subseteq Desc BY <1>4, <1>t
    <2>3. buf' \in [Buf -> BufRec] /\ chain' \in [Desc -> ChainRec] BY <1>6, <1>8
    <2>4. pc' \in [Proc -> PCs] /\ idx' \in [Proc -> Desc] /\ avail' \in Seq(Desc)
      BY <1>7, <1>9, <1>10
    <2> QED BY <1>a, <2>1, <2>2, <2>3, <2>4, DriverType
  <1>16. UserInv'
    <2>1. \A q \in Proc : pc'[q] \in {"idle", "panic"} <=> pc[q] \in {"idle", "panic"}
      BY <1>u, <1>3, <1>7
    <2> QED BY <1>a, <1>u, <1>6, <2>1, UserSame
  <1>17. LockInv'
    <2>1. \A q \in Proc : pc'[q] \in Holding => pc[q] \in Holding BY <1>7, <1>14
    <2>2. \A q \in Proc : pc[q] \in Holding => cur[q] \in Buf BY <1>a, CurBuf DEF Holding
    <2>3. \A q \in Proc : pc'[q] \in Holding => buf'[cur'[q]].locked = q
      BY <1>a, <1>u, <1>6, <2>1, <2>2 DEF LockInv
    <2>4. \A q \in Proc : pc'[q] \in Waiting => buf'[cur'[q]].disk
      <3>1. buf'[cur'[p]].disk BY <1>0, <1>6, <1>u
      <3>2. \A q \in Proc : pc[q] \in Waiting => cur[q] \in Buf BY <2>2 DEF Waiting, Holding
      <3> QED BY <1>a, <1>u, <1>6, <1>13, <3>1, <3>2 DEF LockInv
    <2>5. \A c \in Buf : buf'[c].disk => \E q \in Proc : cur'[q] = c /\ pc'[q] \in Waiting
      BY <1>a, <1>u, <1>0, <1>6, <1>13 DEF LockInv
    <2> QED BY <2>3, <2>4, <2>5 DEF LockInv
  <1>18. RingInv'
    <2>1. \A q \in Proc : pc'[q] \in Waiting => InAvail(idx[q])' \/ InUsed(idx[q])'
      <3>1. ASSUME NEW q \in Proc, pc'[q] \in Waiting PROVE InAvail(idx[q])' \/ InUsed(idx[q])'
        <4>1. PICK e \in Desc : e = idx'[q] BY <1>9
        <4>2. InAvail(e) \/ InUsed(e) \/ e = h BY <1>a, <1>9, <1>13, <3>1, <4>1 DEF RingInv
        <4>3. InAvail(e)' \/ InUsed(e)' BY <1>12, <4>2
        <4> QED BY <4>1, <4>3 DEF InAvail, InUsed
      <3> QED BY <3>1
    <2>2. \A d \in Desc : InAvail(d)' \/ InUsed(d)' =>
            \E q \in Proc : pc'[q] \in Waiting /\ idx'[q] = d
      BY <1>a, <1>9, <1>12, <1>13, <1>14 DEF RingInv
    <2>3. \A j, k \in DOMAIN avail' : avail'[j] = avail'[k] => j = k
      <3>1. \A k \in 1 .. Len(avail) : avail[k] # h BY <1>10, <1>11 DEF InAvail
      <3>2. \A k \in 1 .. Len(avail) + 1 : k \in 1 .. Len(avail) \/ k = Len(avail) + 1 BY <1>10
      <3> QED BY <1>a, <1>10, <3>1, <3>2 DEF RingInv
    <2>4. \A d \in Desc : ~(InAvail(d)' /\ InUsed(d)') BY <1>a, <1>11, <1>12 DEF RingInv
    <2>5. used' # << >> => irq' \/ handler' BY <1>a, <1>u DEF RingInv
    <2> QED BY <2>1, <2>2, <2>3, <2>4, <2>5 DEF RingInv
  <1>19. ChainInv'
    <2>1. \A q \in Proc : pc'[q] \in Busy <=> pc[q] \in Busy \/ q = p BY <1>3, <1>7 DEF Busy
    <2>2. \A q \in Proc : q # p /\ pc[q] \in Busy =>
            /\ idx'[q] = idx[q] /\ idx[q] \in Desc /\ idx[q] # h /\ chain'[idx[q]] = chain[idx[q]]
            /\ chain[idx[q]].ids \cap free = {}
      <3>1. \A q \in Proc : pc[q] \in Busy => /\ idx[q] \in chain[idx[q]].ids
                                               /\ chain[idx[q]].ids \cap free = {}
        BY <1>a, <1>t DEF ChainInv
      <3> QED BY <1>t, <1>5, <1>8, <1>9, <3>1
    <2>3. \A q \in Proc : pc'[q] \in Busy =>
            /\ idx'[q] \in chain'[idx'[q]].ids
            /\ chain'[idx'[q]].b = cur'[q]
            /\ chain'[idx'[q]].write <=> pc'[q] \in {"wwait", "wdone"}
      <3>1. /\ idx'[p] \in chain'[idx'[p]].ids
            /\ chain'[idx'[p]].b = cur'[p]
            /\ chain'[idx'[p]].write <=> pc'[p] \in {"wwait", "wdone"}
        BY <1>u, <1>0, <1>3, <1>7, <1>8, <1>9
      <3>2. ASSUME NEW q \in Proc, pc'[q] \in Busy, q # p
            PROVE  /\ idx'[q] \in chain'[idx'[q]].ids
                   /\ chain'[idx'[q]].b = cur'[q]
                   /\ chain'[idx'[q]].write <=> pc'[q] \in {"wwait", "wdone"}
        BY <1>a, <1>u, <1>7, <2>1, <2>2, <3>2 DEF ChainInv
      <3> QED BY <3>1, <3>2
    <2>4. \A d \in Desc : d \in free' <=>
            \A q \in Proc : pc'[q] \in Busy => d \notin chain'[idx'[q]].ids
      <3>1. chain'[idx'[p]].ids = T BY <1>8, <1>9
      <3>2. ASSUME NEW d \in Desc, d \in free', NEW q \in Proc, pc'[q] \in Busy
            PROVE  d \notin chain'[idx'[q]].ids
        BY <1>4, <2>1, <2>2, <3>1, <3>2
      <3>3. ASSUME NEW d \in Desc, \A q \in Proc : pc'[q] \in Busy => d \notin chain'[idx'[q]].ids
            PROVE  d \in free'
        <4>1. d \notin T BY <2>1, <3>1, <3>3
        <4>2. \A q \in Proc : pc[q] \in Busy => d \notin chain[idx[q]].ids
          BY <1>14, <2>1, <2>2, <3>3
        <4>3. d \in free BY <1>a, <4>2 DEF ChainInv
        <4> QED BY <1>4, <4>1, <4>3
      <3> QED BY <3>2, <3>3
    <2>5. \A q, r \in Proc : pc'[q] \in Busy /\ pc'[r] \in Busy /\ q # r =>
            chain'[idx'[q]].ids \cap chain'[idx'[r]].ids = {}
      <3>1. chain'[idx'[p]].ids = T BY <1>8, <1>9
      <3>2. ASSUME NEW q \in Proc, NEW r \in Proc, pc'[q] \in Busy, pc'[r] \in Busy, q # r,
                   q # p, r # p
            PROVE  chain'[idx'[q]].ids \cap chain'[idx'[r]].ids = {}
        BY <1>a, <2>1, <2>2, <3>2 DEF ChainInv
      <3>3. ASSUME NEW q \in Proc, pc'[q] \in Busy, q # p
            PROVE  chain'[idx'[q]].ids \cap T = {}
        BY <2>1, <2>2, <3>3
      <3> QED BY <3>1, <3>2, <3>3
    <2>6. \A q \in Proc : pc'[q] \notin {"rsleep", "wsleep"}
      <3>1. \A q \in Proc : pc[q] \notin {"rsleep", "wsleep"}
        <4>1. Cardinality(free) \in Nat
          BY <1>t, <1>u, ThreeThere, FS_CardinalityType
        <4> QED BY <1>a, <1>u, <4>1 DEF ChainInv
      <3> QED BY <1>3, <1>7, <3>1
    <2> QED BY <2>3, <2>4, <2>5, <2>6 DEF ChainInv
  <1>20. DataInv'
    <2>s. {"write", "wsleep", "wdone", "unpin", "wwait", "rdone", "rwait"} \subseteq Holding
      BY DEF Holding
    <2>b. \A q \in Proc : pc[q] \in Holding => cur[q] \in Buf BY <1>a, CurBuf DEF Holding
    <2>1. \A c \in Buf : /\ buf'[c].blockno \in pinned' => buf'[c].valid
                         /\ buf'[c].valid => buf'[c].blockno # 0 /\
                                             buf'[c].data = latest'[buf'[c].blockno]
      BY <1>a, <1>u, <1>6 DEF DataInv
    <2>2. \A m \in Block : platter'[m] # latest'[m] =>
            \/ m \in pinned'
            \/ \E q \in Proc : pc'[q] \in {"write", "wsleep", "wwait"} /\ buf'[cur'[q]].blockno = m
      <3>1. \A q \in Proc : pc[q] \in {"write", "wsleep", "wwait"} =>
              /\ pc'[q] \in {"write", "wsleep", "wwait"}
              /\ buf'[cur'[q]].blockno = buf[cur[q]].blockno
        BY <1>u, <1>3, <1>6, <1>7, <2>b, <2>s
      <3> QED BY <1>a, <1>u, <3>1 DEF DataInv
    <2>p. ~InUsed(idx[p])'
      <3>1. ~InUsed(h)' BY <1>11, <1>12
      <3> QED BY <1>9, <3>1 DEF InUsed
    <2>q. \A q \in Proc : q # p => (InUsed(idx[q])' <=> InUsed(idx[q])) BY <1>u, <1>9 DEF InUsed
    <2>3. \A q \in Proc :
            pc'[q] \in {"wdone", "unpin"} \/ (pc'[q] = "wwait" /\ InUsed(idx[q])') =>
              platter'[buf'[cur'[q]].blockno] = latest'[buf'[cur'[q]].blockno]
      BY <1>a, <1>u, <1>3, <1>6, <1>7, <2>b, <2>s, <2>p, <2>q DEF DataInv
    <2>4. \A q \in Proc :
            pc'[q] = "rdone" \/ (pc'[q] = "rwait" /\ InUsed(idx[q])') =>
              buf'[cur'[q]].data = latest'[buf'[cur'[q]].blockno]
      BY <1>a, <1>u, <1>3, <1>6, <1>7, <2>b, <2>s, <2>p, <2>q DEF DataInv
    <2>5. \A q \in Proc : pc'[q] \in Holding => (buf'[cur'[q]].valid <=> pc'[q] \notin Reading)
      <3>1. \A q \in Proc : /\ pc'[q] \in Holding <=> pc[q] \in Holding
                            /\ pc'[q] \in Reading <=> pc[q] \in Reading
        BY <1>u, <1>3, <1>7 DEF Holding, Reading
      <3> QED BY <1>a, <1>u, <1>6, <2>b, <3>1 DEF DataInv
    <2>6. \A q \in Proc : pc'[q] = "unpin" => buf'[cur'[q]].blockno \in pinned'
      BY <1>a, <1>u, <1>3, <1>6, <1>7, <2>b, <2>s DEF DataInv
    <2> QED BY <2>1, <2>2, <2>3, <2>4, <2>5, <2>6 DEF DataInv
  <1> QED BY <1>15, <1>16, <1>17, <1>18, <1>19, <1>20 DEF Inv

\* The device carries out a request: it is the request of a process that sleeps
\* for it, and nobody else touches the buffer or the block.
LEMMA Device_Inv ==
    ASSUME Inv, NEW k \in DOMAIN avail, Device(k) PROVE Inv'
  <1>a. TypeOK /\ UserInv /\ LockInv /\ RingInv /\ ChainInv /\ DataInv BY DEF Inv
  <1>t. /\ buf \in [Buf -> BufRec] /\ cur \in [Proc -> 0 .. NBUF] /\ idx \in [Proc -> Desc]
        /\ chain \in [Desc -> ChainRec] /\ free \subseteq Desc
        /\ avail \in Seq(Desc) /\ used \in Seq(Desc) /\ pc \in [Proc -> PCs]
    BY <1>a DEF TypeOK, BufRec, ChainRec
  <1>u. UNCHANGED <<lru, free, chain, handler, pc, cur, idx, pinned, latest>> /\ irq' = TRUE
    BY DEF Device
  <1>0. PICK d \in Desc : d = avail[k] BY <1>t
  <1>1. PICK p \in Proc : pc[p] \in Waiting /\ idx[p] = d BY <1>a, <1>0 DEF RingInv, InAvail
  <1>2. PICK b \in Buf : b = cur[p] BY <1>a, <1>1, CurBuf DEF Waiting
  <1>3. PICK n \in Block : n = buf[b].blockno BY <1>a, <1>1, <1>2, CurBuf DEF Waiting
  <1>4. chain[d].b = b /\ (chain[d].write <=> pc[p] = "wwait")
    BY <1>a, <1>1, <1>2 DEF ChainInv, Busy, Waiting
  <1>5. /\ avail' = [j \in 1 .. Len(avail) - 1 |-> avail[IF j < k THEN j ELSE j + 1]]
        /\ used' = Append(used, d)
        /\ pc[p] = "wwait" => platter' = [platter EXCEPT ![n] = buf[b].data] /\ UNCHANGED buf
        /\ pc[p] # "wwait" => buf' = [buf EXCEPT ![b].data = platter[n]] /\ UNCHANGED platter
    BY <1>0, <1>3, <1>4 DEF Device
  <1>6. /\ avail' \in Seq(Desc)
        /\ \A e : (\E j \in DOMAIN avail' : avail'[j] = e) <=> \E j \in DOMAIN avail : j # k /\ avail[j] = e
        /\ \A i, j \in DOMAIN avail' : avail'[i] = avail'[j] => i = j
    <2>1. \A i, j \in DOMAIN avail : avail[i] = avail[j] => i = j BY <1>a DEF RingInv
    <2>2. avail \in Seq(Desc) BY <1>t
    <2>3. avail' = [j \in 1 .. Len(avail) - 1 |-> avail[IF j < k THEN j ELSE j + 1]] BY <1>5
    <2>4. /\ avail' \in Seq(Desc)
          /\ \A e : (\E j \in DOMAIN avail' : avail'[j] = e) <=> \E j \in DOMAIN avail : j # k /\ avail[j] = e
          /\ (\A i, j \in DOMAIN avail : avail[i] = avail[j] => i = j) =>
               \A i, j \in DOMAIN avail' : avail'[i] = avail'[j] => i = j
      BY <2>2, <2>3, RemoveEntry
    <2> QED BY <2>1, <2>4
  <1>7. /\ used' \in Seq(Desc) /\ Len(used) \in Nat /\ DOMAIN used = 1 .. Len(used)
        /\ DOMAIN used' = 1 .. Len(used) + 1
        /\ used'[Len(used) + 1] = d /\ \A j \in 1 .. Len(used) : used'[j] = used[j]
    BY <1>t, <1>5
  <1>8. \A e : InAvail(e)' <=> InAvail(e) /\ e # d
    <2>1. \A i, j \in DOMAIN avail : avail[i] = avail[j] => i = j BY <1>a DEF RingInv
    <2> QED BY <1>0, <1>6, <2>1 DEF InAvail
  <1>9. \A e : InUsed(e)' <=> InUsed(e) \/ e = d
    <2>1. ASSUME NEW e, InUsed(e) PROVE InUsed(e)'
      <3>1. PICK j \in 1 .. Len(used) : used[j] = e BY <1>7, <2>1 DEF InUsed
      <3>2. j \in 1 .. Len(used) + 1 BY <1>7
      <3> QED BY <1>7, <3>1, <3>2 DEF InUsed
    <2>2. InUsed(d)'
      <3>1. Len(used) + 1 \in 1 .. Len(used) + 1 BY <1>7
      <3> QED BY <1>7, <3>1 DEF InUsed
    <2>3. ASSUME NEW e, InUsed(e)' PROVE InUsed(e) \/ e = d
      <3>1. PICK j \in 1 .. Len(used) + 1 : used'[j] = e BY <1>7, <2>3 DEF InUsed
      <3>2. j \in 1 .. Len(used) \/ j = Len(used) + 1 BY <1>7
      <3> QED BY <1>7, <3>1, <3>2 DEF InUsed
    <2> QED BY <2>1, <2>2, <2>3
  <1>10. platter \in [Block -> Data] /\ platter[n] \in Data /\ buf[b].data \in Data
    BY <1>a, <1>t DEF TypeOK, BufRec
  <1>11. /\ buf' \in [Buf -> BufRec]
         /\ \A c \in Buf : c # b => buf'[c].data = buf[c].data
         /\ \A c \in Buf : /\ buf'[c].blockno = buf[c].blockno /\ buf'[c].valid = buf[c].valid
                           /\ buf'[c].disk = buf[c].disk /\ buf'[c].refcnt = buf[c].refcnt
                           /\ buf'[c].locked = buf[c].locked
         /\ pc[p] # "wwait" => buf'[b].data = platter[n]
         /\ pc[p] = "wwait" => buf'[b].data = buf[b].data
    <2>1. CASE pc[p] = "wwait" BY <1>t, <1>5, <2>1
    <2>2. CASE pc[p] # "wwait"
      <3>1. PICK x \in Data : x = platter[n] BY <1>10
      <3>2. buf' = [buf EXCEPT ![b].data = x] BY <1>5, <2>2, <3>1
      <3>3. buf \in [Buf -> BufRec] BY <1>t
      <3>4. /\ buf' \in [Buf -> BufRec] /\ buf'[b].data = x
            /\ \A c \in Buf : c # b => buf'[c].data = buf[c].data
            /\ \A c \in Buf : /\ buf'[c].blockno = buf[c].blockno /\ buf'[c].valid = buf[c].valid
                              /\ buf'[c].disk = buf[c].disk /\ buf'[c].refcnt = buf[c].refcnt
                              /\ buf'[c].locked = buf[c].locked
        BY <3>2, <3>3, SetData
      <3> QED BY <2>2, <3>1, <3>4
    <2> QED BY <2>1, <2>2
  <1>12. /\ platter' \in [Block -> Data]
         /\ \A m \in Block : m # n => platter'[m] = platter[m]
         /\ pc[p] = "wwait" => platter'[n] = buf[b].data
         /\ pc[p] # "wwait" => platter'[n] = platter[n]
    BY <1>5, <1>10
  <1>h. pc[p] \in Holding /\ pc[p] \in Busy BY <1>1 DEF Waiting, Busy, Holding
  <1>o. \A q \in Proc : q # p /\ pc[q] \in Holding =>
          cur[q] \in Buf /\ cur[q] # b /\ buf[cur[q]].blockno # n /\ buf[cur[q]].blockno \in Block
    <2>1. \A q \in Proc : pc[q] \in Holding => buf[cur[q]].blockno \in Block
      BY <1>a, CurBuf DEF Holding
    <2> QED BY <1>a, <1>h, <1>2, <1>3, <2>1, Alone
  <1>i. \A q \in Proc : q # p /\ pc[q] \in Waiting => idx[q] # d
    <2>1. \A q \in Proc : pc[q] \in Waiting => pc[q] \in Busy BY DEF Waiting, Busy
    <2> QED BY <1>a, <1>1, <1>h, <2>1, HeadsDiffer
  <1>l. /\ pc[p] = "wwait" => buf[b].data = latest[n]
        /\ pc[p] # "wwait" => platter[n] = latest[n] /\ ~buf[b].valid
    <2>1. CASE pc[p] = "wwait"
      <3>1. buf[b].valid BY <1>a, <1>h, <1>2, <2>1 DEF DataInv, Reading
      <3> QED BY <1>a, <1>3, <2>1, <3>1 DEF DataInv
    <2>2. CASE pc[p] # "wwait"
      <3>1. ~buf[b].valid BY <1>a, <1>h, <1>1, <1>2, <2>2 DEF DataInv, Reading, Waiting
      <3>2. n \notin pinned BY <1>a, <1>3, <3>1 DEF DataInv
      <3>3. \A q \in Proc : pc[q] \in {"write", "wsleep", "wwait"} => buf[cur[q]].blockno # n
        BY <1>1, <1>o, <2>2 DEF Holding, Waiting
      <3> QED BY <1>a, <3>1, <3>2, <3>3, <2>2 DEF DataInv
    <2> QED BY <2>1, <2>2
  <1>13. platter'[n] = latest[n] /\ buf'[b].data = latest[n] BY <1>11, <1>12, <1>l
  <1>14. TypeOK'
    <2>1. UNCHANGED <<lru, free, chain, handler, pc, cur, idx, pinned, latest>> /\ irq' \in BOOLEAN
      BY <1>u
    <2>2. buf' \in [Buf -> BufRec] /\ platter' \in [Block -> Data] BY <1>11, <1>12
    <2>3. avail' \in Seq(Desc) /\ used' \in Seq(Desc) BY <1>6, <1>7
    <2> QED BY <1>a, <2>1, <2>2, <2>3 DEF TypeOK, BufRec
  <1>15. UserInv' BY <1>a, <1>u, <1>11, UserSame
  <1>16. LockInv' BY <1>a, <1>u, <1>11, LockSame
  <1>17. RingInv'
    <2>1. \A q \in Proc : pc'[q] \in Waiting => InAvail(idx[q])' \/ InUsed(idx[q])'
      <3>1. ASSUME NEW q \in Proc, pc'[q] \in Waiting PROVE InAvail(idx[q])' \/ InUsed(idx[q])'
        <4>1. PICK e \in Desc : e = idx'[q] BY <1>t, <1>u
        <4>2. InAvail(e) \/ InUsed(e) BY <1>a, <1>u, <3>1, <4>1 DEF RingInv
        <4>3. InAvail(e)' \/ InUsed(e)' BY <1>8, <1>9, <4>2
        <4> QED BY <4>1, <4>3 DEF InAvail, InUsed
      <3> QED BY <3>1
    <2>2. \A e \in Desc : InAvail(e)' \/ InUsed(e)' =>
            \E q \in Proc : pc'[q] \in Waiting /\ idx'[q] = e
      BY <1>a, <1>u, <1>1, <1>8, <1>9 DEF RingInv
    <2>3. \A e \in Desc : ~(InAvail(e)' /\ InUsed(e)') BY <1>a, <1>8, <1>9 DEF RingInv
    <2> QED BY <1>u, <1>6, <2>1, <2>2, <2>3 DEF RingInv
  <1>18. ChainInv' BY <1>a, <1>u, ChainSame
  <1>19. DataInv'
    <2>s. {"write", "wsleep", "wdone", "unpin", "wwait", "rdone", "rwait"} \subseteq Holding
      BY DEF Holding
    <2>q. \A q \in Proc : q # p /\ pc[q] \in Waiting => (InUsed(idx[q])' <=> InUsed(idx[q]))
      <3>1. \A q \in Proc : InUsed(idx[q])' <=> InUsed(idx[q]) \/ idx[q] = d
        BY <1>u, <1>9 DEF InUsed
      <3> QED BY <1>i, <3>1
    <2>1. \A c \in Buf : buf'[c].valid =>
            buf'[c].blockno # 0 /\ buf'[c].data = latest'[buf'[c].blockno]
      BY <1>a, <1>u, <1>3, <1>11, <1>13 DEF DataInv
    <2>2. \A m \in Block : platter'[m] # latest'[m] =>
            \/ m \in pinned'
            \/ \E q \in Proc : pc'[q] \in {"write", "wsleep", "wwait"} /\ buf'[cur'[q]].blockno = m
      <3>1. \A q \in Proc : pc[q] \in Holding => cur[q] \in Buf BY <1>a, CurBuf DEF Holding
      <3>2. \A q \in Proc : pc[q] \in {"write", "wsleep", "wwait"} =>
              buf'[cur'[q]].blockno = buf[cur[q]].blockno
        BY <1>u, <1>11, <2>s, <3>1
      <3> QED BY <1>a, <1>u, <1>12, <1>13, <3>2 DEF DataInv
    <2>3. \A q \in Proc :
            pc'[q] \in {"wdone", "unpin"} \/ (pc'[q] = "wwait" /\ InUsed(idx[q])') =>
              platter'[buf'[cur'[q]].blockno] = latest'[buf'[cur'[q]].blockno]
      <3>1. platter'[buf'[cur'[p]].blockno] = latest'[buf'[cur'[p]].blockno]
        BY <1>u, <1>2, <1>3, <1>11, <1>13
      <3>2. ASSUME NEW q \in Proc, q # p,
                   pc'[q] \in {"wdone", "unpin"} \/ (pc'[q] = "wwait" /\ InUsed(idx[q])')
            PROVE  platter'[buf'[cur'[q]].blockno] = latest'[buf'[cur'[q]].blockno]
        <4>1. pc'[q] = pc[q] BY <1>u
        <4>2. pc[q] \in Holding BY <2>s, <3>2, <4>1
        <4>3. pc[q] \in {"wdone", "unpin"} \/ (pc[q] = "wwait" /\ InUsed(idx[q]))
          BY <2>q, <3>2, <4>1 DEF Waiting
        <4>4. platter[buf[cur[q]].blockno] = latest[buf[cur[q]].blockno] BY <1>a, <4>3 DEF DataInv
        <4> QED BY <1>u, <1>o, <1>11, <1>12, <3>2, <4>2, <4>4
      <3> QED BY <3>1, <3>2
    <2>4. \A q \in Proc :
            pc'[q] = "rdone" \/ (pc'[q] = "rwait" /\ InUsed(idx[q])') =>
              buf'[cur'[q]].data = latest'[buf'[cur'[q]].blockno]
      <3>1. buf'[cur'[p]].data = latest'[buf'[cur'[p]].blockno]
        BY <1>u, <1>2, <1>3, <1>11, <1>13
      <3>2. ASSUME NEW q \in Proc, q # p,
                   pc'[q] = "rdone" \/ (pc'[q] = "rwait" /\ InUsed(idx[q])')
            PROVE  buf'[cur'[q]].data = latest'[buf'[cur'[q]].blockno]
        <4>1. pc'[q] = pc[q] BY <1>u
        <4>2. pc[q] \in Holding BY <2>s, <3>2, <4>1
        <4>3. pc[q] = "rdone" \/ (pc[q] = "rwait" /\ InUsed(idx[q]))
          BY <2>q, <3>2, <4>1 DEF Waiting
        <4>4. buf[cur[q]].data = latest[buf[cur[q]].blockno] BY <1>a, <4>3 DEF DataInv
        <4> QED BY <1>u, <1>o, <1>11, <3>2, <4>2, <4>4
      <3> QED BY <3>1, <3>2
    <2>5. \A q \in Proc : pc'[q] \in Holding => (buf'[cur'[q]].valid <=> pc'[q] \notin Reading)
      <3>1. \A q \in Proc : pc[q] \in Holding => cur[q] \in Buf BY <1>a, CurBuf DEF Holding
      <3> QED BY <1>a, <1>u, <1>11, <3>1 DEF DataInv
    <2>6. \A c \in Buf : buf'[c].blockno \in pinned' => buf'[c].valid BY <1>a, <1>u, <1>11 DEF DataInv
    <2>7. \A q \in Proc : pc'[q] = "unpin" => buf'[cur'[q]].blockno \in pinned'
      <3>1. \A q \in Proc : pc[q] \in Holding => cur[q] \in Buf BY <1>a, CurBuf DEF Holding
      <3> QED BY <1>a, <1>u, <1>11, <2>s, <3>1 DEF DataInv
    <2> QED BY <2>1, <2>2, <2>3, <2>4, <2>5, <2>6, <2>7 DEF DataInv
  <1> QED BY <1>14, <1>15, <1>16, <1>17, <1>18, <1>19 DEF Inv

\* The stores of the interrupt handler.
LEMMA ClearDisk ==
    ASSUME buf \in [Buf -> BufRec], NEW S,
           buf' = [b \in Buf |-> IF b \in S THEN [buf[b] EXCEPT !.disk = FALSE] ELSE buf[b]]
    PROVE  /\ buf' \in [Buf -> BufRec]
           /\ \A c \in Buf : c \in S => ~buf'[c].disk
           /\ \A c \in Buf : c \notin S => buf'[c].disk = buf[c].disk
           /\ \A c \in Buf : /\ buf'[c].blockno = buf[c].blockno /\ buf'[c].valid = buf[c].valid
                             /\ buf'[c].refcnt = buf[c].refcnt /\ buf'[c].data = buf[c].data
                             /\ buf'[c].locked = buf[c].locked
  BY DEF BufRec

\* The handler wakes exactly the processes whose requests are in the used ring.
LEMMA IntrLoop_Inv ==
    ASSUME Inv, IntrLoop PROVE Inv'
  <1>a. TypeOK /\ UserInv /\ LockInv /\ RingInv /\ ChainInv /\ DataInv BY DEF Inv
  <1>t. /\ buf \in [Buf -> BufRec] /\ cur \in [Proc -> 0 .. NBUF] /\ idx \in [Proc -> Desc]
        /\ chain \in [Desc -> ChainRec] /\ free \subseteq Desc
        /\ avail \in Seq(Desc) /\ used \in Seq(Desc) /\ pc \in [Proc -> PCs]
    BY <1>a DEF TypeOK, BufRec, ChainRec
  <1>u. /\ UNCHANGED <<lru, platter, free, chain, avail, irq, cur, idx, pinned, latest>>
        /\ used' = << >> /\ handler' = FALSE
    BY DEF IntrLoop
  <1>0. PICK S : S = {chain[used[k]].b : k \in DOMAIN used} OBVIOUS
  <1>1. /\ buf' = [b \in Buf |-> IF b \in S THEN [buf[b] EXCEPT !.disk = FALSE] ELSE buf[b]]
        /\ pc' = [q \in Proc |-> CASE pc[q] = "rwait" /\ cur[q] \in S -> "rdone"
                                    [] pc[q] = "wwait" /\ cur[q] \in S -> "wdone"
                                    [] OTHER -> pc[q]]
    BY <1>0 DEF IntrLoop
  <1>2. /\ buf' \in [Buf -> BufRec]
        /\ \A c \in Buf : c \notin S => buf'[c].disk = buf[c].disk
        /\ \A c \in Buf : c \in S => ~buf'[c].disk
        /\ \A c \in Buf : /\ buf'[c].blockno = buf[c].blockno /\ buf'[c].valid = buf[c].valid
                          /\ buf'[c].refcnt = buf[c].refcnt /\ buf'[c].data = buf[c].data
                          /\ buf'[c].locked = buf[c].locked
    BY <1>t, <1>1, ClearDisk
  <1>3. \A d \in Desc : InUsed(d) <=> \E k \in DOMAIN used : used[k] = d BY DEF InUsed
  <1>4. \A q \in Proc : pc[q] \in Waiting => (cur[q] \in S <=> InUsed(idx[q]))
    <2>1. ASSUME NEW q \in Proc, pc[q] \in Waiting, InUsed(idx[q]) PROVE cur[q] \in S
      <3>1. PICK k \in DOMAIN used : used[k] = idx[q] BY <2>1 DEF InUsed
      <3>2. chain[idx[q]].b = cur[q] BY <1>a, <2>1 DEF ChainInv, Busy, Waiting
      <3> QED BY <1>0, <3>1, <3>2
    <2>2. ASSUME NEW q \in Proc, pc[q] \in Waiting, cur[q] \in S PROVE InUsed(idx[q])
      <3>1. PICK k \in DOMAIN used : cur[q] = chain[used[k]].b BY <1>0, <2>2
      <3>2. PICK d \in Desc : d = used[k] BY <1>t
      <3>3. InUsed(d) BY <3>2 DEF InUsed
      <3>4. PICK r \in Proc : pc[r] \in Waiting /\ idx[r] = d BY <1>a, <3>3 DEF RingInv
      <3>5. chain[d].b = cur[r] BY <1>a, <3>4 DEF ChainInv, Busy, Waiting
      <3>6. r = q BY <1>a, <2>2, <3>1, <3>2, <3>4, <3>5, Alone DEF Waiting, Holding
      <3> QED BY <3>3, <3>4, <3>6
    <2> QED BY <2>1, <2>2
  <1>5. \A q \in Proc :
          \/ pc'[q] = pc[q] /\ (pc[q] \in Waiting => ~InUsed(idx[q]))
          \/ pc[q] = "rwait" /\ InUsed(idx[q]) /\ pc'[q] = "rdone"
          \/ pc[q] = "wwait" /\ InUsed(idx[q]) /\ pc'[q] = "wdone"
    <2>1. \A q \in Proc :
            \/ pc'[q] = pc[q] /\ (pc[q] \in Waiting => cur[q] \notin S)
            \/ pc[q] = "rwait" /\ cur[q] \in S /\ pc'[q] = "rdone"
            \/ pc[q] = "wwait" /\ cur[q] \in S /\ pc'[q] = "wdone"
      BY <1>1 DEF Waiting
    <2> QED BY <1>4, <2>1 DEF Waiting
  <1>6. pc' \in [Proc -> PCs]
    <2>1. pc' = [q \in Proc |-> pc'[q]] BY <1>1
    <2>2. \A q \in Proc : pc'[q] \in PCs BY <1>t, <1>5 DEF PCs
    <2> QED BY <2>1, <2>2
  <1>7. \A q \in Proc : /\ pc'[q] \in Holding <=> pc[q] \in Holding
                        /\ pc'[q] \in Busy <=> pc[q] \in Busy
                        /\ pc'[q] \in Reading <=> pc[q] \in Reading
                        /\ pc'[q] \in Waiting <=> pc[q] \in Waiting /\ ~InUsed(idx[q])
                        /\ pc'[q] \in {"wwait", "wdone"} <=> pc[q] \in {"wwait", "wdone"}
                        /\ pc'[q] \in {"idle", "panic"} <=> pc[q] \in {"idle", "panic"}
    BY <1>5 DEF Holding, Busy, Reading, Waiting
  <1>8. TypeOK'
    <2>1. used' \in Seq(Desc) BY <1>u
    <2>2. UNCHANGED <<lru, platter, free, chain, avail, irq, cur, idx, pinned, latest>> BY <1>u
    <2>3. buf' \in [Buf -> BufRec] /\ handler' \in BOOLEAN BY <1>2, <1>u
    <2> QED BY <1>a, <1>6, <2>1, <2>2, <2>3 DEF TypeOK, BufRec
  <1>9. UserInv' BY <1>a, <1>u, <1>2, <1>7, UserSame
  <1>h. \A q \in Proc : pc[q] \in Holding => cur[q] \in Buf BY <1>a, CurBuf DEF Holding
  <1>w. Waiting \subseteq Holding BY DEF Waiting, Holding
  <1>10. LockInv'
    <2>1. \A q \in Proc : pc'[q] \in Holding => buf'[cur'[q]].locked = q
      BY <1>a, <1>u, <1>2, <1>7, <1>h DEF LockInv
    <2>2. \A q \in Proc : pc'[q] \in Waiting => buf'[cur'[q]].disk
      BY <1>a, <1>u, <1>2, <1>4, <1>7, <1>h, <1>w DEF LockInv
    <2>3. \A c \in Buf : buf'[c].disk => \E q \in Proc : cur'[q] = c /\ pc'[q] \in Waiting
      BY <1>a, <1>u, <1>2, <1>4, <1>7 DEF LockInv
    <2> QED BY <2>1, <2>2, <2>3 DEF LockInv
  <1>n. \A d : ~InUsed(d)' BY <1>u DEF InUsed
  <1>v. \A d : InAvail(d)' <=> InAvail(d) BY <1>u DEF InAvail
  <1>11. RingInv'
    <2>1. \A q \in Proc : pc'[q] \in Waiting => InAvail(idx[q])'
      <3>1. \A q \in Proc : pc'[q] \in Waiting => InAvail(idx[q]) BY <1>a, <1>7 DEF RingInv
      <3> QED BY <1>u, <3>1 DEF InAvail
    <2>2. \A d \in Desc : InAvail(d)' => \E q \in Proc : pc'[q] \in Waiting /\ idx'[q] = d
      <3>1. ASSUME NEW d \in Desc, InAvail(d)
            PROVE  \E q \in Proc : pc'[q] \in Waiting /\ idx'[q] = d
        <4>1. PICK q \in Proc : pc[q] \in Waiting /\ idx[q] = d BY <1>a, <3>1 DEF RingInv
        <4>2. ~InUsed(d) BY <1>a, <3>1 DEF RingInv
        <4> QED BY <1>u, <1>7, <4>1, <4>2
      <3> QED BY <1>v, <3>1
    <2>3. \A j, k \in DOMAIN avail' : avail'[j] = avail'[k] => j = k BY <1>a, <1>u DEF RingInv
    <2> QED BY <1>u, <1>n, <2>1, <2>2, <2>3 DEF RingInv
  <1>12. ChainInv'
    <2>1. \A q \in Proc : pc'[q] \in {"rsleep", "wsleep"} => pc[q] \in {"rsleep", "wsleep"} BY <1>5
    <2> QED BY <1>a, <1>u, <1>7, <2>1, ChainSame
  <1>13. DataInv'
    <2>s. {"write", "wsleep", "wdone", "unpin", "wwait", "rdone", "rwait"} \subseteq Holding
      BY DEF Holding
    <2>1. \A c \in Buf : /\ buf'[c].blockno \in pinned' => buf'[c].valid
                         /\ buf'[c].valid => buf'[c].blockno # 0 /\
                                             buf'[c].data = latest'[buf'[c].blockno]
      BY <1>a, <1>u, <1>2 DEF DataInv
    <2>2. \A m \in Block : platter'[m] # latest'[m] =>
            \/ m \in pinned'
            \/ \E q \in Proc : pc'[q] \in {"write", "wsleep", "wwait"} /\ buf'[cur'[q]].blockno = m
      <3>1. ASSUME NEW m \in Block, platter[m] # latest[m], m \notin pinned
            PROVE  \E q \in Proc : pc'[q] \in {"write", "wsleep", "wwait"} /\ buf'[cur'[q]].blockno = m
        <4>1. PICK q \in Proc : pc[q] \in {"write", "wsleep", "wwait"} /\ buf[cur[q]].blockno = m
          BY <1>a, <3>1 DEF DataInv
        <4>2. ~(pc[q] = "wwait" /\ InUsed(idx[q])) BY <1>a, <3>1, <4>1 DEF DataInv
        <4>3. pc'[q] = pc[q] BY <1>5, <4>1, <4>2
        <4> QED BY <1>u, <1>2, <1>h, <2>s, <4>1, <4>3
      <3> QED BY <1>u, <3>1
    <2>3. \A q \in Proc :
            pc'[q] \in {"wdone", "unpin"} \/ (pc'[q] = "wwait" /\ InUsed(idx[q])') =>
              platter'[buf'[cur'[q]].blockno] = latest'[buf'[cur'[q]].blockno]
      <3>1. \A q \in Proc : pc'[q] \in {"wdone", "unpin"} =>
              /\ pc[q] \in {"wdone", "unpin"} \/ (pc[q] = "wwait" /\ InUsed(idx[q]))
              /\ pc[q] \in Holding
        BY <1>5, <2>s
      <3>2. \A q \in Proc : ~InUsed(idx[q])' BY <1>u DEF InUsed
      <3> QED BY <1>a, <1>u, <1>2, <1>h, <3>1, <3>2 DEF DataInv
    <2>4. \A q \in Proc :
            pc'[q] = "rdone" \/ (pc'[q] = "rwait" /\ InUsed(idx[q])') =>
              buf'[cur'[q]].data = latest'[buf'[cur'[q]].blockno]
      <3>1. \A q \in Proc : pc'[q] = "rdone" =>
              /\ pc[q] = "rdone" \/ (pc[q] = "rwait" /\ InUsed(idx[q]))
              /\ pc[q] \in Holding
        BY <1>5, <2>s
      <3>2. \A q \in Proc : ~InUsed(idx[q])' BY <1>u DEF InUsed
      <3> QED BY <1>a, <1>u, <1>2, <1>h, <3>1, <3>2 DEF DataInv
    <2>5. \A q \in Proc : pc'[q] \in Holding => (buf'[cur'[q]].valid <=> pc'[q] \notin Reading)
      BY <1>a, <1>u, <1>2, <1>7, <1>h DEF DataInv
    <2>6. \A q \in Proc : pc'[q] = "unpin" => buf'[cur'[q]].blockno \in pinned'
      <3>1. \A q \in Proc : pc'[q] = "unpin" => pc[q] = "unpin" /\ pc[q] \in Holding BY <1>5, <2>s
      <3> QED BY <1>a, <1>u, <1>2, <1>h, <3>1 DEF DataInv
    <2> QED BY <2>1, <2>2, <2>3, <2>4, <2>5, <2>6 DEF DataInv
  <1> QED BY <1>8, <1>9, <1>10, <1>11, <1>12, <1>13 DEF Inv

\* virtio_disk_rw() returns: the chain is freed, whoever waits for descriptors is
\* woken, and the buffer is valid.
LEMMA Finish_Inv ==
    ASSUME Inv, NEW p \in Proc, Finish(p) PROVE Inv'
  <1>a. TypeOK /\ UserInv /\ LockInv /\ RingInv /\ ChainInv /\ DataInv BY DEF Inv
  <1>t. /\ buf \in [Buf -> BufRec] /\ cur \in [Proc -> 0 .. NBUF] /\ idx \in [Proc -> Desc]
        /\ chain \in [Desc -> ChainRec] /\ free \subseteq Desc
        /\ avail \in Seq(Desc) /\ used \in Seq(Desc) /\ pc \in [Proc -> PCs]
    BY <1>a DEF TypeOK, BufRec, ChainRec
  <1>u. /\ pc[p] \in {"rdone", "wdone"}
        /\ UNCHANGED <<lru, platter, avail, used, irq, handler, cur, pinned, latest>>
    BY DEF Finish
  <1>0. PICK b \in Buf : b = cur[p] BY <1>a, <1>u, CurBuf
  <1>1. PICK n \in Block : n = buf[b].blockno BY <1>a, <1>u, <1>0, CurBuf
  <1>2. PICK d \in Desc : d = idx[p] BY <1>t
  <1>3. PICK s \in {"own", "unpin"} : s = AfterDisk(p) BY <1>u DEF AfterDisk
  <1>4. /\ free' = free \cup chain[d].ids /\ chain' = [chain EXCEPT ![d] = NoRequest]
        /\ WakeFree(p, s) /\ buf' = [buf EXCEPT ![b].valid = TRUE]
        /\ idx' = [idx EXCEPT ![p] = 0]
    BY <1>0, <1>2, <1>3 DEF Finish, FreeChain
  <1>5. /\ buf' \in [Buf -> BufRec] /\ buf'[b].valid
        /\ \A c \in Buf : c # b => buf'[c].valid = buf[c].valid
        /\ \A c \in Buf : /\ buf'[c].blockno = buf[c].blockno /\ buf'[c].disk = buf[c].disk
                          /\ buf'[c].refcnt = buf[c].refcnt /\ buf'[c].data = buf[c].data
                          /\ buf'[c].locked = buf[c].locked
    BY <1>t, <1>4, SetValid
  <1>6. /\ pc'[p] = s
        /\ \A q \in Proc : q # p => \/ pc'[q] = pc[q] /\ pc[q] \notin {"rsleep", "wsleep"}
                                    \/ pc[q] = "rsleep" /\ pc'[q] = "read"
                                    \/ pc[q] = "wsleep" /\ pc'[q] = "write"
    BY <1>4 DEF WakeFree
  <1>7. pc' \in [Proc -> PCs]
    <2>1. pc' = [q \in Proc |-> pc'[q]] BY <1>4 DEF WakeFree
    <2>2. \A q \in Proc : pc'[q] \in PCs BY <1>t, <1>3, <1>6 DEF PCs
    <2> QED BY <2>1, <2>2
  <1>8. 0 \in Desc BY BcacheAssumption DEF Desc
  <1>9. /\ idx' \in [Proc -> Desc] /\ \A q \in Proc : q # p => idx'[q] = idx[q]
    BY <1>t, <1>4, <1>8
  <1>10. /\ chain' \in [Desc -> ChainRec] /\ \A e \in Desc : e # d => chain'[e] = chain[e]
    <2>1. NoRequest \in ChainRec
      <3>1. 0 \in 0 .. NBUF /\ {} \in SUBSET Desc BY BcacheAssumption
      <3> QED BY <3>1 DEF NoRequest, ChainRec
    <2> QED BY <1>t, <1>4, <2>1
  <1>11. chain[d].ids \subseteq Desc BY <1>t DEF ChainRec
  <1>12. free' \subseteq Desc BY <1>t, <1>4, <1>11
  <1>13. /\ pc[p] \in Busy /\ pc[p] \in Holding /\ pc[p] \notin Waiting
         /\ pc'[p] \notin Busy /\ pc'[p] \in Holding /\ pc'[p] \notin Waiting /\ pc'[p] \notin Reading
    BY <1>u, <1>3, <1>6 DEF Busy, Holding, Waiting, Reading
  <1>14. \A q \in Proc : q # p =>
           /\ pc'[q] \in Busy <=> pc[q] \in Busy
           /\ pc[q] \in Busy => pc'[q] = pc[q]
           /\ pc'[q] \in Holding <=> pc[q] \in Holding
           /\ pc'[q] \in Waiting <=> pc[q] \in Waiting
           /\ pc'[q] \in Reading <=> pc[q] \in Reading
           /\ pc'[q] \in {"wdone", "unpin", "wwait", "rdone", "rwait"} => pc'[q] = pc[q]
    BY <1>6 DEF Busy, Holding, Waiting, Reading
  <1>o. \A q \in Proc : q # p /\ pc[q] \in Holding =>
          cur[q] \in Buf /\ cur[q] # b /\ buf[cur[q]].blockno # n
    BY <1>a, <1>0, <1>1, <1>13, Alone
  <1>15. TypeOK'
    <2>1. avail' \in Seq(Desc) BY <1>t, <1>u
    <2>2. buf' \in [Buf -> BufRec] /\ chain' \in [Desc -> ChainRec] /\ idx' \in [Proc -> Desc]
      BY <1>5, <1>9, <1>10
    <2> QED BY <1>a, <1>u, <1>7, <1>12, <2>1, <2>2, DriverType
  <1>16. UserInv'
    <2>1. \A q \in Proc : pc'[q] \in {"idle", "panic"} <=> pc[q] \in {"idle", "panic"}
      BY <1>u, <1>3, <1>6
    <2> QED BY <1>a, <1>u, <1>5, <2>1, UserSame
  <1>17. LockInv' BY <1>a, <1>u, <1>5, <1>13, <1>14, LockSame
  <1>18. RingInv'
    <2>1. \A e : (InAvail(e)' <=> InAvail(e)) /\ (InUsed(e)' <=> InUsed(e))
      BY <1>u DEF InAvail, InUsed
    <2>2. \A q \in Proc : pc'[q] \in Waiting => InAvail(idx[q])' \/ InUsed(idx[q])'
      <3>1. \A q \in Proc : pc'[q] \in Waiting =>
              q # p /\ idx'[q] = idx[q] /\ (InAvail(idx[q]) \/ InUsed(idx[q]))
        BY <1>a, <1>9, <1>13, <1>14 DEF RingInv
      <3> QED BY <1>u, <3>1 DEF InAvail, InUsed
    <2>3. \A e \in Desc : InAvail(e)' \/ InUsed(e)' => \E q \in Proc : pc'[q] \in Waiting /\ idx'[q] = e
      BY <1>a, <1>9, <1>13, <1>14, <2>1 DEF RingInv
    <2> QED BY <1>a, <1>u, <2>1, <2>2, <2>3 DEF RingInv
  <1>19. ChainInv'
    <2>1. \A q \in Proc : pc'[q] \in Busy =>
            /\ q # p /\ pc[q] \in Busy /\ pc'[q] = pc[q]
            /\ idx'[q] = idx[q] /\ idx[q] \in Desc /\ chain'[idx[q]] = chain[idx[q]]
      <3>1. \A q \in Proc : q # p /\ pc[q] \in Busy => idx[q] # d
        BY <1>a, <1>2, <1>13, HeadsDiffer
      <3> QED BY <1>t, <1>9, <1>10, <1>13, <1>14, <3>1
    <2>2. \A q \in Proc : pc'[q] \in Busy =>
            /\ idx'[q] \in chain'[idx'[q]].ids
            /\ chain'[idx'[q]].b = cur'[q]
            /\ chain'[idx'[q]].write <=> pc'[q] \in {"wwait", "wdone"}
      BY <1>a, <1>u, <2>1 DEF ChainInv
    <2>3. \A e \in Desc : e \in free' <=>
            \A q \in Proc : pc'[q] \in Busy => e \notin chain'[idx'[q]].ids
      <3>1. ASSUME NEW e \in Desc, e \in free', NEW q \in Proc, pc'[q] \in Busy
            PROVE  e \notin chain'[idx'[q]].ids
        <4>1. chain[d].ids \cap chain[idx[q]].ids = {} BY <1>a, <1>2, <1>13, <2>1, <3>1 DEF ChainInv
        <4>2. e \in free => e \notin chain[idx[q]].ids BY <1>a, <2>1, <3>1 DEF ChainInv
        <4> QED BY <1>4, <2>1, <3>1, <4>1, <4>2
      <3>2. ASSUME NEW e \in Desc, \A q \in Proc : pc'[q] \in Busy => e \notin chain'[idx'[q]].ids
            PROVE  e \in free'
        <4>1. CASE e \in chain[d].ids BY <1>4, <4>1
        <4>2. CASE e \notin chain[d].ids
          <5>1. \A q \in Proc : pc[q] \in Busy => e \notin chain[idx[q]].ids
            BY <1>2, <1>14, <2>1, <3>2, <4>2
          <5>2. e \in free BY <1>a, <5>1 DEF ChainInv
          <5> QED BY <1>4, <5>2
        <4> QED BY <4>1, <4>2
      <3> QED BY <3>1, <3>2
    <2>4. \A q, r \in Proc : pc'[q] \in Busy /\ pc'[r] \in Busy /\ q # r =>
            chain'[idx'[q]].ids \cap chain'[idx'[r]].ids = {}
      BY <1>a, <2>1 DEF ChainInv
    <2>5. \A q \in Proc : pc'[q] \notin {"rsleep", "wsleep"} BY <1>3, <1>6
    <2> QED BY <2>2, <2>3, <2>4, <2>5 DEF ChainInv
  <1>20. DataInv'
    <2>s. {"write", "wsleep", "wdone", "unpin", "wwait", "rdone", "rwait"} \subseteq Holding
      BY DEF Holding
    <2>q. \A q \in Proc : q # p => (InUsed(idx[q])' <=> InUsed(idx[q])) BY <1>u, <1>9 DEF InUsed
    <2>d. buf[b].data = latest[n]
      <3>1. CASE pc[p] = "rdone" BY <1>a, <1>0, <1>1, <3>1 DEF DataInv
      <3>2. CASE pc[p] = "wdone"
        <4>1. buf[b].valid BY <1>a, <1>0, <1>13, <3>2 DEF DataInv, Reading
        <4> QED BY <1>a, <1>1, <4>1 DEF DataInv
      <3> QED BY <1>u, <3>1, <3>2
    <2>1. \A c \in Buf : buf'[c].valid =>
            buf'[c].blockno # 0 /\ buf'[c].data = latest'[buf'[c].blockno]
      <3>1. n # 0 BY BcacheAssumption
      <3> QED BY <1>a, <1>u, <1>1, <1>5, <2>d, <3>1 DEF DataInv
    <2>2. \A m \in Block : platter'[m] # latest'[m] =>
            \/ m \in pinned'
            \/ \E q \in Proc : pc'[q] \in {"write", "wsleep", "wwait"} /\ buf'[cur'[q]].blockno = m
      <3>1. \A q \in Proc : pc[q] \in {"write", "wsleep", "wwait"} =>
              /\ q # p /\ pc'[q] \in {"write", "wsleep", "wwait"}
              /\ buf'[cur'[q]].blockno = buf[cur[q]].blockno
        BY <1>u, <1>o, <1>5, <1>6, <2>s
      <3> QED BY <1>a, <1>u, <3>1 DEF DataInv
    <2>3. \A q \in Proc :
            pc'[q] \in {"wdone", "unpin"} \/ (pc'[q] = "wwait" /\ InUsed(idx[q])') =>
              platter'[buf'[cur'[q]].blockno] = latest'[buf'[cur'[q]].blockno]
      <3>1. pc'[p] \in {"wdone", "unpin", "wwait"} =>
              platter'[buf'[cur'[p]].blockno] = latest'[buf'[cur'[p]].blockno]
        <4>1. ASSUME pc'[p] \in {"wdone", "unpin", "wwait"} PROVE pc[p] = "wdone"
          BY <1>u, <1>3, <1>6, <4>1 DEF AfterDisk
        <4>2. pc[p] = "wdone" => platter[n] = latest[n] BY <1>a, <1>0, <1>1 DEF DataInv
        <4> QED BY <1>u, <1>0, <1>1, <1>5, <4>1, <4>2
      <3>2. ASSUME NEW q \in Proc, q # p,
                   pc'[q] \in {"wdone", "unpin"} \/ (pc'[q] = "wwait" /\ InUsed(idx[q])')
            PROVE  platter'[buf'[cur'[q]].blockno] = latest'[buf'[cur'[q]].blockno]
        <4>1. pc'[q] = pc[q] BY <1>14, <3>2
        <4>2. pc[q] \in Holding BY <2>s, <3>2, <4>1
        <4>3. platter[buf[cur[q]].blockno] = latest[buf[cur[q]].blockno]
          BY <1>a, <2>q, <3>2, <4>1 DEF DataInv
        <4> QED BY <1>u, <1>o, <1>5, <3>2, <4>2, <4>3
      <3> QED BY <3>1, <3>2
    <2>4. \A q \in Proc :
            pc'[q] = "rdone" \/ (pc'[q] = "rwait" /\ InUsed(idx[q])') =>
              buf'[cur'[q]].data = latest'[buf'[cur'[q]].blockno]
      <3>1. pc'[p] \notin {"rdone", "rwait"} BY <1>3, <1>6
      <3>2. ASSUME NEW q \in Proc, q # p,
                   pc'[q] = "rdone" \/ (pc'[q] = "rwait" /\ InUsed(idx[q])')
            PROVE  buf'[cur'[q]].data = latest'[buf'[cur'[q]].blockno]
        <4>1. pc'[q] = pc[q] BY <1>14, <3>2
        <4>2. pc[q] \in Holding BY <2>s, <3>2, <4>1
        <4>3. buf[cur[q]].data = latest[buf[cur[q]].blockno] BY <1>a, <2>q, <3>2, <4>1 DEF DataInv
        <4> QED BY <1>u, <1>o, <1>5, <3>2, <4>2, <4>3
      <3> QED BY <3>1, <3>2
    <2>5. \A q \in Proc : pc'[q] \in Holding => (buf'[cur'[q]].valid <=> pc'[q] \notin Reading)
      <3>1. buf'[cur'[p]].valid BY <1>u, <1>0, <1>5
      <3> QED BY <1>a, <1>u, <1>o, <1>5, <1>13, <1>14, <3>1 DEF DataInv
    <2>6. \A c \in Buf : buf'[c].blockno \in pinned' => buf'[c].valid BY <1>a, <1>u, <1>5 DEF DataInv
    <2>7. \A q \in Proc : pc'[q] = "unpin" => buf'[cur'[q]].blockno \in pinned'
      <3>1. pc'[p] = "unpin" => n \in pinned BY <1>0, <1>1, <1>3, <1>6, <1>u DEF AfterDisk, Mine
      <3>2. pc'[p] = "unpin" => buf'[cur'[p]].blockno \in pinned' BY <1>u, <1>0, <1>1, <1>5, <3>1
      <3> QED BY <1>a, <1>u, <1>o, <1>5, <1>14, <2>s, <3>2 DEF DataInv
    <2> QED BY <2>1, <2>2, <2>3, <2>4, <2>5, <2>6, <2>7 DEF DataInv
  <1> QED BY <1>15, <1>16, <1>17, <1>18, <1>19, <1>20 DEF Inv

----------------------------------------------------------------------------
(* Theorems                                                                *)

\* Every step keeps the invariant.
LEMMA Next_Inv ==
    ASSUME Inv, [Next]_vars PROVE Inv'
  <1>1. ASSUME NEW p \in Proc, Step(p) PROVE Inv'
    BY <1>1, BgetHit_Inv, BgetMiss_Inv, Quiet_Inv, BwriteNew_Inv, BwritePinned_Inv, Bpin_Inv,
       Bunpin_Inv, Brelse_Inv, BrelseRef_Inv, AcquireSleep_Inv, Submit_Inv, Finish_Inv
    DEF Step
  <1>2. CASE UNCHANGED vars
    <2>1. UNCHANGED <<cache, platter, driver, cur, idx, pinned, latest>> /\ pc' = pc BY <1>2 DEF vars
    <2>2. pc \in [Proc -> PCs] BY DEF Inv, TypeOK
    <2> QED BY <2>1, <2>2, Quiet
  <1> QED BY <1>1, <1>2, IntrAck_Inv, IntrLoop_Inv, Device_Inv DEF Next

\* The invariant holds in every state.
LEMMA Invariant == Spec => []Inv
  <1>1. Inv /\ [Next]_vars => Inv' BY Next_Inv
  <1> QED BY Init_Inv, <1>1, PTL DEF Spec

\* Type correctness of the buffer cache and the driver.
THEOREM TypeCorrect == Spec => []TypeOK
  <1>1. Inv => TypeOK BY DEF Inv
  <1> QED BY Invariant, <1>1, PTL

\* Whatever the other processes, the device and the interrupt handler do, refcnt
\* is the number of processes between bget() and brelse() plus the log's pin, so
\* bget() never recycles a buffer under anybody.
THEOREM RefsExactHolds == Spec => []RefsExact
  <1>1. Inv => RefsExact BY DEF Inv, UserInv
  <1> QED BY Invariant, <1>1, PTL

\* Whoever holds a buffer after bread() sees what was last stored in its block.
THEOREM OwnerSeesLatestHolds == Spec => []OwnerSeesLatest
  <1>1. ASSUME Inv PROVE OwnerSeesLatest
    <2>1. TypeOK /\ UserInv /\ LockInv /\ DataInv BY <1>1 DEF Inv
    <2>2. ASSUME NEW p \in Proc, pc[p] = "own"
          PROVE  /\ buf[cur[p]].locked = p /\ ~buf[cur[p]].disk
                 /\ buf[cur[p]].data = latest[buf[cur[p]].blockno]
      <3>1. cur[p] \in Buf BY <2>1, <2>2, CurBuf
      <3>2. pc[p] \in Holding /\ pc[p] \notin Reading /\ pc[p] \notin Waiting
        BY <2>2 DEF Holding, Reading, Waiting
      <3>3. buf[cur[p]].locked = p /\ buf[cur[p]].valid BY <2>1, <3>2 DEF LockInv, DataInv
      <3>4. ~buf[cur[p]].disk
        <4>1. \A q \in Proc : pc[q] \in Waiting => pc[q] \in Holding BY DEF Waiting, Holding
        <4> QED BY <2>1, <3>1, <3>2, <4>1, Alone DEF LockInv
      <3> QED BY <2>1, <3>1, <3>3, <3>4 DEF DataInv
    <2> QED BY <2>1, <2>2 DEF OwnerSeesLatest, UserInv, Mine
  <1>2. Inv => OwnerSeesLatest BY <1>1
  <1> QED BY Invariant, <1>2, PTL

\* No descriptor is lost or shared, and nobody sleeps for descriptors that are there.
THEOREM DescriptorsHolds == Spec => []Descriptors
  <1>1. ASSUME Inv PROVE Descriptors
    <2>1. TypeOK /\ ChainInv BY <1>1 DEF Inv
    <2> DEFINE busy == {p \in Proc : pc[p] \in {"rwait", "wwait", "rdone", "wdone"}}
    <2>2. free \subseteq Desc BY <2>1 DEF TypeOK
    <2>3. \A d \in Desc : d \in free <=> \A p \in busy : d \notin chain[idx[p]].ids
      BY <2>1 DEF ChainInv, Busy
    <2>4. \A p, q \in busy : p # q => chain[idx[p]].ids \cap chain[idx[q]].ids = {}
      BY <2>1 DEF ChainInv, Busy
    <2>5. \A p \in Proc : pc[p] \in {"rsleep", "wsleep"} => Cardinality(free) < 3
      BY <2>1 DEF ChainInv
    <2>6. free = Desc \ UNION {chain[idx[p]].ids : p \in busy}
      <3> HIDE DEF busy
      <3> QED BY <2>2, <2>3
    <2> QED BY <2>4, <2>5, <2>6 DEF Descriptors
  <1>2. Inv => Descriptors BY <1>1
  <1> QED BY Invariant, <1>2, PTL

\* No completion is lost between the device and the interrupt handler.
THEOREM NoLostCompletionHolds == Spec => []NoLostCompletion
  <1>1. ASSUME Inv PROVE NoLostCompletion
    <2>1. TypeOK /\ LockInv /\ RingInv BY <1>1 DEF Inv
    <2>2. avail \in Seq(Desc) /\ used \in Seq(Desc) BY <2>1 DEF TypeOK
    <2>3. /\ Len(avail) \in Nat /\ Len(used) \in Nat
          /\ DOMAIN avail = 1 .. Len(avail) /\ DOMAIN used = 1 .. Len(used)
          /\ avail \o used \in Seq(Desc) /\ Len(avail \o used) = Len(avail) + Len(used)
          /\ \A i \in 1 .. Len(avail) + Len(used) :
               (avail \o used)[i] = IF i <= Len(avail) THEN avail[i] ELSE used[i - Len(avail)]
      BY <2>2
    <2>4. DOMAIN (avail \o used) = 1 .. Len(avail) + Len(used) BY <2>3
    <2>5. ASSUME NEW d, InAvail(d) \/ InUsed(d)
          PROVE  \E k \in DOMAIN (avail \o used) : (avail \o used)[k] = d
      <3>1. CASE InAvail(d)
        <4>1. PICK k \in 1 .. Len(avail) : avail[k] = d BY <2>3, <3>1 DEF InAvail
        <4>2. k \in 1 .. Len(avail) + Len(used) /\ k <= Len(avail) BY <2>3
        <4> QED BY <2>3, <2>4, <4>1, <4>2
      <3>2. CASE InUsed(d)
        <4>1. PICK k \in 1 .. Len(used) : used[k] = d BY <2>3, <3>2 DEF InUsed
        <4>2. PICK i \in 1 .. Len(avail) + Len(used) : i = Len(avail) + k BY <2>3
        <4>3. ~(i <= Len(avail)) /\ i - Len(avail) = k BY <2>3, <4>2
        <4> QED BY <2>3, <2>4, <4>1, <4>2, <4>3
      <3> QED BY <2>5, <3>1, <3>2
    <2>6. \A p \in Proc : pc[p] \in {"rwait", "wwait"} =>
            buf[cur[p]].disk /\ \E k \in DOMAIN (avail \o used) : (avail \o used)[k] = idx[p]
      BY <2>1, <2>5 DEF LockInv, RingInv, Waiting
    <2> QED BY <2>1, <2>6 DEF NoLostCompletion, RingInv, Mine
  <1>2. Inv => NoLostCompletion BY <1>1
  <1> QED BY Invariant, <1>2, PTL
=============================================================================
