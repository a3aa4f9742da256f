---------------------------- MODULE InodesProofs ----------------------------
(***************************************************************************)
(* Proofs about module Inodes, for any finite set of processes, any names, *)
(* and any numbers of inodes, blocks and directory entries.                *)
(***************************************************************************)
EXTENDS Inodes, FiniteSetTheorems, SequenceTheorems, WellFoundedInduction, TLAPS

----------------------------------------------------------------------------
(* Counting                                                                *)

One(a, i) == IF a = i THEN 1 ELSE 0

\* How often the function f on D has the value i.
Tally(D, f, i) == Cardinality({x \in D : f[x] = i})

LEMMA TallyNat ==
    ASSUME NEW D, IsFiniteSet(D), NEW f, NEW i
    PROVE  Tally(D, f, i) \in Nat /\ IsFiniteSet({x \in D : f[x] = i})
<1>1. {x \in D : f[x] = i} \in SUBSET D OBVIOUS
<1>2. IsFiniteSet({x \in D : f[x] = i}) BY <1>1, FS_Subset, Zenon
<1>3. Cardinality({x \in D : f[x] = i}) \in Nat BY <1>2, FS_CardinalityType, Zenon
<1>. QED BY <1>2, <1>3 DEF Tally

\* Changing one value changes two of the counts.
Change(D, f, g, x) == \A y \in D : y # x => g[y] = f[y]

LEMMA TallySet ==
    ASSUME NEW D, IsFiniteSet(D), NEW f, NEW g, NEW x \in D, NEW i, Change(D, f, g, x)
    PROVE  Tally(D, g, i) = Tally(D, f, i) - One(f[x], i) + One(g[x], i)
<1>. DEFINE A == {y \in D : f[y] = i}
            B == {y \in D : g[y] = i}
            C == {y \in D : f[y] = i /\ y # x}
<1>1. IsFiniteSet(C)
  <2>1. C \in SUBSET D OBVIOUS
  <2>. QED BY <2>1, FS_Subset, Zenon
<1>2. Cardinality(C) \in Nat BY <1>1, FS_CardinalityType
<1>3. Cardinality(A) = Cardinality(C) + One(f[x], i)
  <2>1. CASE f[x] = i
    <3>1. A = C \cup {x} BY <2>1
    <3>2. x \notin C OBVIOUS
    <3>3. Cardinality(C \cup {x}) = Cardinality(C) + 1
      <4>. HIDE DEF C
      <4>. QED BY <1>1, <3>2, FS_AddElement
    <3>. QED BY <2>1, <3>1, <3>3 DEF One
  <2>2. CASE f[x] # i
    <3>1. A = C BY <2>2
    <3>. HIDE DEF A, C
    <3>. QED BY <1>2, <2>2, <3>1 DEF One
  <2>. QED BY <2>1, <2>2
<1>4. Cardinality(B) = Cardinality(C) + One(g[x], i)
  <2>1. CASE g[x] = i
    <3>1. B = C \cup {x} BY <2>1 DEF Change
    <3>2. x \notin C OBVIOUS
    <3>3. Cardinality(C \cup {x}) = Cardinality(C) + 1
      <4>. HIDE DEF C
      <4>. QED BY <1>1, <3>2, FS_AddElement
    <3>. QED BY <2>1, <3>1, <3>3 DEF One
  <2>2. CASE g[x] # i
    <3>1. B = C BY <2>2 DEF Change
    <3>. HIDE DEF B, C
    <3>. QED BY <1>2, <2>2, <3>1 DEF One
  <2>. QED BY <2>1, <2>2
<1>5. Tally(D, f, i) = Cardinality(A) /\ Tally(D, g, i) = Cardinality(B) BY DEF Tally
<1>6. One(f[x], i) \in Int /\ One(g[x], i) \in Int BY DEF One
<1>. HIDE DEF A, B, C
<1>. QED BY <1>2, <1>3, <1>4, <1>5, <1>6

LEMMA TallySame ==
    ASSUME NEW D, NEW f, NEW g, NEW i, \A y \in D : (g[y] = i) <=> (f[y] = i)
    PROVE  Tally(D, g, i) = Tally(D, f, i)
<1>1. {y \in D : g[y] = i} = {y \in D : f[y] = i} OBVIOUS
<1>. QED BY <1>1 DEF Tally

\* A count of 0 and one of 1.
LEMMA TallyFew ==
    ASSUME NEW D, IsFiniteSet(D), NEW f, NEW i
    PROVE  /\ Tally(D, f, i) = 0 <=> \A x \in D : f[x] # i
           /\ Tally(D, f, i) = 1 => \A x, y \in D : f[x] = i /\ f[y] = i => x = y
<1>. DEFINE A == {x \in D : f[x] = i}
<1>1. IsFiniteSet(A) /\ Tally(D, f, i) = Cardinality(A)
  <2>1. IsFiniteSet({x \in D : f[x] = i})
    <3>1. {x \in D : f[x] = i} \in SUBSET D OBVIOUS
    <3>. QED BY <3>1, FS_Subset, Zenon
  <2>. QED BY <2>1, Zenon DEF Tally
<1>2. Tally(D, f, i) = 0 <=> A = {}
  <2>. HIDE DEF A
  <2>. QED BY <1>1, FS_EmptySet
<1>3. Tally(D, f, i) = 1 => \E z : A = {z}
  <2>. HIDE DEF A
  <2>. QED BY <1>1, FS_Singleton
<1>4. A = {} <=> \A x \in D : f[x] # i OBVIOUS
<1>5. (\E z : A = {z}) => \A x, y \in D : f[x] = i /\ f[y] = i => x = y
  <2>. SUFFICES ASSUME NEW z, A = {z}, NEW x \in D, NEW y \in D, f[x] = i, f[y] = i
                PROVE  x = y
    OBVIOUS
  <2>1. x \in A /\ y \in A OBVIOUS
  <2>. QED BY <2>1
<1>. QED BY <1>2, <1>3, <1>4, <1>5

\* Values that are cleared in a part of the domain.
LEMMA TallyClear ==
    ASSUME NEW D, IsFiniteSet(D), NEW E, E \subseteq D, NEW f, NEW g, NEW i,
           \A y \in D : y \notin E => g[y] = f[y], \A y \in E : g[y] # i
    PROVE  Tally(D, g, i) = Tally(D, f, i) - Tally(E, f, i)
<1>. DEFINE A == {y \in D : f[y] = i}
            B == {y \in E : f[y] = i}
            C == {y \in D : g[y] = i}
<1>1. IsFiniteSet(A)
  <2>1. IsFiniteSet({y \in D : f[y] = i})
    <3>1. {y \in D : f[y] = i} \in SUBSET D OBVIOUS
    <3>. QED BY <3>1, FS_Subset, Zenon
  <2>. QED BY <2>1, Zenon
<1>2. C = A \ B /\ B = A \cap B OBVIOUS
<1>3. Cardinality(A \ B) = Cardinality(A) - Cardinality(A \cap B)
  <2>. HIDE DEF A, B
  <2>. QED BY <1>1, FS_Difference
<1>. QED BY <1>2, <1>3 DEF Tally

----------------------------------------------------------------------------
(* References                                                              *)

Slot == Proc \X Slots

\* The reference in a slot of a process, and the slots as a function.
Ref(x) == RefIn(x[1], x[2])
Held   == [x \in Slot |-> Ref(x)]

\* The references of p to i.
Uses(p, i) == One(cwd[p], i) + One(file[p].ip, i) + One(pr[p].ip, i)
              + One(pr[p].held, i) + One(Put(p, 1), i) + One(Put(p, 2), i)

LEMMA SlotFinite == IsFiniteSet(Slot)
<1>1. IsFiniteSet(Slots)
  <2>1. IsFiniteSet({}) BY FS_EmptySet
  <2>2. IsFiniteSet({} \cup {"cwd"}) BY <2>1, FS_AddElement
  <2>3. IsFiniteSet(({} \cup {"cwd"}) \cup {"file"}) BY <2>2, FS_AddElement
  <2>4. IsFiniteSet((({} \cup {"cwd"}) \cup {"file"}) \cup {"ip"}) BY <2>3, FS_AddElement
  <2>5. IsFiniteSet(((({} \cup {"cwd"}) \cup {"file"}) \cup {"ip"}) \cup {"held"})
    BY <2>4, FS_AddElement
  <2>6. IsFiniteSet((((({} \cup {"cwd"}) \cup {"file"}) \cup {"ip"}) \cup {"held"}) \cup {"put1"})
    BY <2>5, FS_AddElement
  <2>7. IsFiniteSet(((((({} \cup {"cwd"}) \cup {"file"}) \cup {"ip"}) \cup {"held"})
                       \cup {"put1"}) \cup {"put2"})
    BY <2>6, FS_AddElement
  <2>8. Slots = ((((({} \cup {"cwd"}) \cup {"file"}) \cup {"ip"}) \cup {"held"})
                  \cup {"put1"}) \cup {"put2"}
    BY DEF Slots
  <2>. QED BY <2>7, <2>8, Zenon
<1>2. IsFiniteSet(Proc) BY InodesAssumption
<1>. QED BY <1>1, <1>2, FS_Product DEF Slot

\* What the slots of a process hold.
LEMMA SlotValues ==
    ASSUME NEW p \in Proc
    PROVE  /\ Held[<<p, "cwd">>] = cwd[p] /\ Held[<<p, "file">>] = file[p].ip
           /\ Held[<<p, "ip">>] = pr[p].ip /\ Held[<<p, "held">>] = pr[p].held
           /\ Held[<<p, "put1">>] = Put(p, 1) /\ Held[<<p, "put2">>] = Put(p, 2)
BY DEF Held, Slot, Slots, Ref, RefIn

LEMMA SlotValuesNext ==
    ASSUME NEW p \in Proc
    PROVE  /\ (Held')[<<p, "cwd">>] = cwd'[p] /\ (Held')[<<p, "file">>] = file'[p].ip
           /\ (Held')[<<p, "ip">>] = pr'[p].ip /\ (Held')[<<p, "held">>] = pr'[p].held
           /\ (Held')[<<p, "put1">>] = Put(p, 1)' /\ (Held')[<<p, "put2">>] = Put(p, 2)'
BY DEF Held, Slot, Slots, Ref, RefIn

LEMMA TallySlot ==
    ASSUME NEW f, NEW g, NEW x \in Slot, NEW i, Change(Slot, f, g, x)
    PROVE  Tally(Slot, g, i) = Tally(Slot, f, i) - One(f[x], i) + One(g[x], i)
BY SlotFinite, TallySet

Row(f, p, i) ==
    One(f[<<p, "cwd">>], i) + One(f[<<p, "file">>], i) + One(f[<<p, "ip">>], i)
    + One(f[<<p, "held">>], i) + One(f[<<p, "put1">>], i) + One(f[<<p, "put2">>], i)

\* A change of what one process refers to.
LEMMA TallyRow ==
    ASSUME NEW f, NEW g, NEW p \in Proc, NEW i,
           \A x \in Slot : x[1] # p => g[x] = f[x]
    PROVE  Tally(Slot, g, i) = Tally(Slot, f, i) - Row(f, p, i) + Row(g, p, i)
<1>. DEFINE In(S) == [x \in Slot |-> IF x[1] = p /\ x[2] \in S THEN g[x] ELSE f[x]]
            c == <<p, "cwd">>
            e == <<p, "file">>
            k == <<p, "ip">>
            h == <<p, "held">>
            u == <<p, "put1">>
            w == <<p, "put2">>
            F0 == In({})
            F1 == In({"cwd"})
            F2 == In({"cwd", "file"})
            F3 == In({"cwd", "file", "ip"})
            F4 == In({"cwd", "file", "ip", "held"})
            F5 == In({"cwd", "file", "ip", "held", "put1"})
            F6 == In(Slots)
<1>1. c \in Slot /\ e \in Slot /\ k \in Slot /\ h \in Slot /\ u \in Slot /\ w \in Slot
  BY DEF Slot, Slots
<1>2. \A x \in Slot : /\ x = <<x[1], x[2]>> /\ x[2] \in Slots
  BY DEF Slot
<1>3. Tally(Slot, F0, i) = Tally(Slot, f, i)
  <2>1. \A x \in Slot : F0[x] = f[x] OBVIOUS
  <2>. HIDE DEF F0
  <2>. QED BY <2>1, TallySame
<1>4. Tally(Slot, F6, i) = Tally(Slot, g, i)
  <2>1. \A x \in Slot : F6[x] = g[x] BY <1>2
  <2>. HIDE DEF F6
  <2>. QED BY <2>1, TallySame
<1>5. Tally(Slot, F1, i) = Tally(Slot, F0, i) - One(f[c], i) + One(g[c], i)
  <2>1. F0[c] = f[c] /\ F1[c] = g[c] BY <1>1
  <2>2. Change(Slot, F0, F1, c) BY <1>2 DEF Change
  <2>. HIDE DEF F0, F1, c, In
  <2>3. Tally(Slot, F1, i) = Tally(Slot, F0, i) - One(F0[c], i) + One(F1[c], i)
    BY <1>1, <2>2, TallySlot
  <2>. QED BY <2>1, <2>3
<1>6. Tally(Slot, F2, i) = Tally(Slot, F1, i) - One(f[e], i) + One(g[e], i)
  <2>1. F1[e] = f[e] /\ F2[e] = g[e] BY <1>1
  <2>2. Change(Slot, F1, F2, e) BY <1>2 DEF Change
  <2>. HIDE DEF F1, F2, e, In
  <2>3. Tally(Slot, F2, i) = Tally(Slot, F1, i) - One(F1[e], i) + One(F2[e], i)
    BY <1>1, <2>2, TallySlot
  <2>. QED BY <2>1, <2>3
<1>7. Tally(Slot, F3, i) = Tally(Slot, F2, i) - One(f[k], i) + One(g[k], i)
  <2>1. F2[k] = f[k] /\ F3[k] = g[k] BY <1>1
  <2>2. Change(Slot, F2, F3, k) BY <1>2 DEF Change
  <2>. HIDE DEF F2, F3, k, In
  <2>3. Tally(Slot, F3, i) = Tally(Slot, F2, i) - One(F2[k], i) + One(F3[k], i)
    BY <1>1, <2>2, TallySlot
  <2>. QED BY <2>1, <2>3
<1>8. Tally(Slot, F4, i) = Tally(Slot, F3, i) - One(f[h], i) + One(g[h], i)
  <2>1. F3[h] = f[h] /\ F4[h] = g[h] BY <1>1
  <2>2. Change(Slot, F3, F4, h) BY <1>2 DEF Change
  <2>. HIDE DEF F3, F4, h, In
  <2>3. Tally(Slot, F4, i) = Tally(Slot, F3, i) - One(F3[h], i) + One(F4[h], i)
    BY <1>1, <2>2, TallySlot
  <2>. QED BY <2>1, <2>3
<1>9. Tally(Slot, F5, i) = Tally(Slot, F4, i) - One(f[u], i) + One(g[u], i)
  <2>1. F4[u] = f[u] /\ F5[u] = g[u] BY <1>1
  <2>2. Change(Slot, F4, F5, u) BY <1>2 DEF Change
  <2>. HIDE DEF F4, F5, u, In
  <2>3. Tally(Slot, F5, i) = Tally(Slot, F4, i) - One(F4[u], i) + One(F5[u], i)
    BY <1>1, <2>2, TallySlot
  <2>. QED BY <2>1, <2>3
<1>10. Tally(Slot, F6, i) = Tally(Slot, F5, i) - One(f[w], i) + One(g[w], i)
  <2>1. F5[w] = f[w] /\ F6[w] = g[w] BY <1>1 DEF Slots
  <2>2. Change(Slot, F5, F6, w) BY <1>2 DEF Change, Slots
  <2>. HIDE DEF F5, F6, w, In
  <2>3. Tally(Slot, F6, i) = Tally(Slot, F5, i) - One(F5[w], i) + One(F6[w], i)
    BY <1>1, <2>2, TallySlot
  <2>. QED BY <2>1, <2>3
<1>11. Tally(Slot, f, i) \in Nat BY SlotFinite, TallyNat
<1>12. \A a, b : One(a, b) \in Int BY DEF One
<1>. HIDE DEF F0, F1, F2, F3, F4, F5, F6, c, e, k, h, u, w
<1>13. Tally(Slot, g, i) = Tally(Slot, f, i) - (One(f[c], i) + One(f[e], i) + One(f[k], i)
          + One(f[h], i) + One(f[u], i) + One(f[w], i)) + (One(g[c], i) + One(g[e], i)
          + One(g[k], i) + One(g[h], i) + One(g[u], i) + One(g[w], i))
  BY <1>3, <1>4, <1>5, <1>6, <1>7, <1>8, <1>9, <1>10, <1>11, <1>12
<1>. QED BY <1>13 DEF Row, c, e, k, h, u, w

----------------------------------------------------------------------------
(* The invariant                                                           *)

\* What a slot is to its process: the inode that create() has just allocated, the one
\* that iput() is freeing or has freed, or any other.
Kind(x) == IF x[2] = "held" /\ pr[x[1]].pc = "init" THEN "new"
           ELSE IF x[2] = "put1" /\ pr[x[1]].iput = "freeing" THEN "freed"
           ELSE IF x[2] = "put1" /\ pr[x[1]].iput = "dropping" THEN "dropped" ELSE "plain"

\* Nobody else relies on an inode of one of these two.
Special == {"new", "freed"}

CallOK(r) ==
    /\ r.rest \in Seq(Names) /\ r.new \in Seq(Names)
    /\ r.ip = 0 <=> r.pc \in {"idle", "bad"}
    /\ r.pc = "idle" => r.call = "none"
    /\ r.pc = "at" => Parent(r.call)
    /\ r.pc \in {"exists", "init"} => r.call \in CreateCalls
    /\ r.pc = "unlink" => r.call = "unlink"
    /\ r.pc = "bad" => r.call = "link2"
    /\ r.held # 0 <=> r.call = "link2" \/ r.pc \in {"init", "unlink"}
    /\ r.pc \in {"at", "init", "unlink"} => Len(r.puts) = 0 /\ Len(r.rest) = 1
    /\ r.pc \in {"walk", "exists", "bad"} => Len(r.puts) <= 1
    /\ r.iput # "no" => Len(r.puts) > 0

\* The fields of a call fit together.
CallInv == \A p \in Proc : CallOK(pr[p])

\* The table counts references exactly.
RefInv == \A i \in Inode : ref[i] = Tally(Slot, Held, i)

\* An inode that is new or being freed has no other reference, except that it may be
\* allocated again before the one that has freed it is gone.
SoleInv ==
    \A x, y \in Slot : x # y /\ Ref(x) = Ref(y) /\ Ref(x) # 0 =>
        /\ Kind(x) = "new" => Kind(y) \in {"freed", "dropped"}
        /\ Kind(x) = "freed" => Kind(y) = "new"

\* The other references are to inodes that exist.
AllocInv == \A x \in Slot : Ref(x) # 0 /\ Kind(x) \in {"new", "plain"} =>
                disk[Ref(x)].type # "FREE"

\* Those two kinds have no links.
SpecialInv == \A x \in Slot : Ref(x) # 0 /\ Kind(x) \in Special => disk[Ref(x)].nlink = 0

\* p has taken the lock of i and is to give it up.
Locks(p, i) == \/ pr[p].pc \in {"init", "unlink"} /\ pr[p].ip = i
               \/ Put(p, 1) = i \/ Put(p, 2) = i

LockInv ==
    /\ \A i \in Inode, p \in Proc : lock[i] = p => Locks(p, i)
    /\ \A p \in Proc : pr[p].pc \in {"init", "unlink"} => lock[pr[p].ip] = p
    /\ \A p \in Proc : pr[p].iput = "freeing" => lock[Put(p, 1)] = p
    /\ \A p \in Proc : pr[p].iput = "dropping" => lock[Put(p, 1)] # p

Freeing(i) == \E p \in Proc : pr[p].iput = "freeing" /\ Put(p, 1) = i
Creating(i) == \E p \in Proc : pr[p].pc = "init" /\ pr[p].held = i

\* The table's copies.
MemInv ==
    \A i \in Inode :
        /\ mem[i] # NoCopy => ref[i] > 0
        /\ mem[i] \in {NoCopy, disk[i]} \/ Freeing(i)
        /\ disk[i].type = "FREE" => mem[i] = NoCopy \/ Freeing(i)

\* The last iput() of an inode without links will see that there are none.
OrphanInv ==
    \A i \in Inode : disk[i].type # "FREE" /\ disk[i].nlink = 0 /\ ref[i] > 0 =>
        (mem[i] # NoCopy /\ ~Freeing(i)) \/ Creating(i)

\* What is known of the inodes that a call works on.
WorkOK(p) ==
    /\ pr[p].pc \in {"at", "init", "unlink"} => disk[pr[p].ip].type = "DIR"
    /\ pr[p].call = "link2" => disk[pr[p].held].type # "DIR"
    /\ pr[p].pc = "init" => /\ disk[pr[p].held] = Allocated(TypeOf(pr[p].call))
                            /\ disk[pr[p].ip].ents[Elem(pr[p])] = 0
    /\ pr[p].pc = "unlink" => disk[pr[p].ip].ents[Elem(pr[p])] = pr[p].held

WorkInv == \A p \in Proc : WorkOK(p)

\* Names in the directories that exist, where the directories that have a name (or are
\* the root) are, and what link() is at.
NameIn(x)   == IF disk[x[1]].type = "DIR" THEN disk[x[1]].ents[x[2]] ELSE 0
Name        == Inode \X Names
NameTo      == [x \in Name |-> NameIn(x)]
InTree(d)   == disk[d].type = "DIR" /\ (d = ROOTINO \/ \E x \in Name : NameIn(x) = d)
ParentOf    == [d \in Inode |-> IF InTree(d) THEN disk[d].ents[Dots] ELSE 0]
LinkOf(p)   == IF pr[p].call = "link2" THEN pr[p].held ELSE 0
LinkTo      == [p \in Proc |-> LinkOf(p)]

DiskInv ==
    /\ \A i \in Inode : disk[i].type = "FREE" => disk[i] = NoInode
    /\ \A i \in Inode : disk[i].type # "DIR" => disk[i].ents = NoEnts
    /\ disk[ROOTINO].type = "DIR" /\ disk[ROOTINO].ents[Dots] = ROOTINO

\* A directory other than the root has one name at most, in its parent.
TreeInv ==
    \A x \in Name :
        /\ NameIn(x) # ROOTINO
        /\ NameIn(x) # 0 /\ disk[NameIn(x)].type = "DIR" =>
            /\ x[1] = disk[NameIn(x)].ents[Dots]
            /\ \A y \in Name : NameIn(y) = NameIn(x) => x = y

LinkInv ==
    \A i \in Inode : disk[i].nlink = Tally(Name, NameTo, i) + Tally(Inode, ParentOf, i)
                                     + Tally(Proc, LinkTo, i) + lost[i]

\* No block is in two places of an inode.
Apart(ino) ==
    /\ \A j, k \in DOMAIN ino.data : j # k => ino.data[j] # ino.data[k]
    /\ \A j \in DOMAIN ino.data : ino.data[j] # ino.ind

BlocksOK(dk, u) ==
    /\ u = UNION {OwnBlocks(dk[i]) : i \in Inode}
    /\ \A i, j \in Inode : i # j => OwnBlocks(dk[i]) \cap OwnBlocks(dk[j]) = {}
    /\ \A i \in Inode : Apart(dk[i])

Inv ==
    /\ TypeOK /\ CallInv /\ RefInv /\ SoleInv /\ AllocInv /\ SpecialInv /\ LockInv
    /\ MemInv /\ OrphanInv /\ WorkInv /\ DiskInv /\ TreeInv /\ LinkInv
    /\ BlocksOK(disk, used)

\* No call is given a path with "..".
NoDots == Paths \subseteq Seq(Names)

----------------------------------------------------------------------------
(* References of the process that takes the step                          *)

LEMMA Consts ==
    /\ NINODES \in Nat /\ NBLOCKS \in Nat /\ ROOTINO \in Inode /\ ROOTINO # 0
    /\ 0 \notin Inode /\ Inode \subseteq Nat /\ 0 .. NINODES = Inode \cup {0}
    /\ 0 \notin Blocks /\ Blocks \subseteq Nat /\ 0 .. NBLOCKS = Blocks \cup {0}
    /\ 0 \notin Proc /\ Dots \in Entries /\ Dots \notin Names /\ Names \subseteq Entries
    /\ MAXFILE \in Nat /\ MAXFILE > 0 /\ 1 \in Blocks
BY InodesAssumption DEF Inode, ROOTINO, Blocks, Entries, Dots, MAXFILE

LEMMA FinitelyMany ==
    IsFiniteSet(Proc) /\ IsFiniteSet(Names) /\ IsFiniteSet(Inode) /\ IsFiniteSet(Name)
<1>1. IsFiniteSet(Proc) /\ IsFiniteSet(Names) BY InodesAssumption
<1>2. NINODES \in Int BY Consts
<1>3. IsFiniteSet(1 .. NINODES) BY <1>2, FS_Interval
<1>4. IsFiniteSet(Inode) BY <1>3 DEF Inode
<1>5. IsFiniteSet(Inode \X Names) BY <1>1, <1>4, FS_Product
<1>. QED BY <1>1, <1>4, <1>5 DEF Name

\* The references of the others stay.
Move(p) == \A q \in Proc \ {p} :
    cwd'[q] = cwd[q] /\ file'[q].ip = file[q].ip /\ pr'[q] = pr[q]

LEMMA MoveSlots ==
    ASSUME NEW p \in Proc, Move(p)
    PROVE  \A x \in Slot : x[1] # p => Ref(x)' = Ref(x) /\ Kind(x)' = Kind(x)
<1>. SUFFICES ASSUME NEW x \in Slot, x[1] # p PROVE Ref(x)' = Ref(x) /\ Kind(x)' = Kind(x)
  OBVIOUS
<1>1. x[1] \in Proc \ {p} BY DEF Slot
<1>2. cwd'[x[1]] = cwd[x[1]] /\ file'[x[1]].ip = file[x[1]].ip /\ pr'[x[1]] = pr[x[1]]
  BY <1>1 DEF Move
<1>. QED BY <1>2 DEF Ref, RefIn, Put, Kind

LEMMA OwnSlots ==
    ASSUME NEW p \in Proc
    PROVE  /\ Ref(<<p, "cwd">>) = cwd[p] /\ Ref(<<p, "file">>) = file[p].ip
           /\ Ref(<<p, "ip">>) = pr[p].ip /\ Ref(<<p, "held">>) = pr[p].held
           /\ Ref(<<p, "put1">>) = Put(p, 1) /\ Ref(<<p, "put2">>) = Put(p, 2)
           /\ <<p, "cwd">> \in Slot /\ <<p, "file">> \in Slot /\ <<p, "ip">> \in Slot
           /\ <<p, "held">> \in Slot /\ <<p, "put1">> \in Slot /\ <<p, "put2">> \in Slot
           /\ Kind(<<p, "cwd">>) = "plain" /\ Kind(<<p, "file">>) = "plain"
           /\ Kind(<<p, "ip">>) = "plain" /\ Kind(<<p, "put2">>) = "plain"
           /\ Kind(<<p, "held">>) = (IF pr[p].pc = "init" THEN "new" ELSE "plain")
           /\ Kind(<<p, "put1">>) =
               (IF pr[p].iput = "freeing" THEN "freed"
                ELSE IF pr[p].iput = "dropping" THEN "dropped" ELSE "plain")
BY DEF Slot, Slots, Ref, RefIn, Kind

LEMMA OwnSlotsNext ==
    ASSUME NEW p \in Proc
    PROVE  /\ Ref(<<p, "cwd">>)' = cwd'[p] /\ Ref(<<p, "file">>)' = file'[p].ip
           /\ Ref(<<p, "ip">>)' = pr'[p].ip /\ Ref(<<p, "held">>)' = pr'[p].held
           /\ Ref(<<p, "put1">>)' = Put(p, 1)' /\ Ref(<<p, "put2">>)' = Put(p, 2)'
           /\ Kind(<<p, "cwd">>)' = "plain" /\ Kind(<<p, "file">>)' = "plain"
           /\ Kind(<<p, "ip">>)' = "plain" /\ Kind(<<p, "put2">>)' = "plain"
           /\ Kind(<<p, "held">>)' = (IF pr'[p].pc = "init" THEN "new" ELSE "plain")
           /\ Kind(<<p, "put1">>)' =
               (IF pr'[p].iput = "freeing" THEN "freed"
                ELSE IF pr'[p].iput = "dropping" THEN "dropped" ELSE "plain")
BY DEF Slot, Slots, Ref, RefIn, Kind

\* The slots of a process are these six.
LEMMA SixSlots ==
    ASSUME NEW p \in Proc, NEW x \in Slot, x[1] = p
    PROVE  \/ x = <<p, "cwd">> \/ x = <<p, "file">> \/ x = <<p, "ip">>
           \/ x = <<p, "held">> \/ x = <<p, "put1">> \/ x = <<p, "put2">>
BY DEF Slot, Slots

\* What they hold when the process neither creates nor frees an inode.
LEMMA OwnPlainNext ==
    ASSUME NEW p \in Proc, pr'[p].pc # "init", pr'[p].iput = "no", NEW x \in Slot, x[1] = p
    PROVE  /\ Kind(x)' = "plain"
           /\ Ref(x)' \in {cwd'[p], file'[p].ip, pr'[p].ip, pr'[p].held, Put(p, 1)', Put(p, 2)'}
<1>1. CASE x = <<p, "cwd">> BY <1>1, OwnSlotsNext
<1>2. CASE x = <<p, "file">> BY <1>2, OwnSlotsNext
<1>3. CASE x = <<p, "ip">> BY <1>3, OwnSlotsNext
<1>4. CASE x = <<p, "held">> BY <1>4, OwnSlotsNext
<1>5. CASE x = <<p, "put1">> BY <1>5, OwnSlotsNext
<1>6. CASE x = <<p, "put2">> BY <1>6, OwnSlotsNext
<1>. QED BY <1>1, <1>2, <1>3, <1>4, <1>5, <1>6, SixSlots

\* Counting goes on as ref does.
LEMMA RefStep ==
    ASSUME NEW p \in Proc, Move(p), RefInv,
           \A i \in Inode : ref'[i] = ref[i] - Uses(p, i) + Uses(p, i)'
    PROVE  RefInv'
<1>. SUFFICES ASSUME NEW i \in Inode PROVE ref'[i] = Tally(Slot, Held', i)
  BY DEF RefInv
<1>1. \A x \in Slot : Held[x] = Ref(x) /\ (Held')[x] = Ref(x)' BY DEF Held
<1>2. \A x \in Slot : x[1] # p => (Held')[x] = Held[x] BY <1>1, MoveSlots
<1>3. Tally(Slot, Held', i) = Tally(Slot, Held, i) - Row(Held, p, i) + Row(Held', p, i)
  <2>. DEFINE f == Held
              g == Held'
  <2>1. \A x \in Slot : x[1] # p => g[x] = f[x] BY <1>2
  <2>. HIDE DEF f, g
  <2>2. Tally(Slot, g, i) = Tally(Slot, f, i) - Row(f, p, i) + Row(g, p, i)
    BY <2>1, TallyRow
  <2>. QED BY <2>2 DEF f, g
<1>4. Row(Held, p, i) = Uses(p, i) BY SlotValues DEF Row, Uses
<1>5. Row(Held', p, i) = Uses(p, i)' BY SlotValuesNext DEF Row, Uses
<1>. QED BY <1>3, <1>4, <1>5 DEF RefInv

\* Nobody else is creating or freeing i.
Plain(p, i) == \A x \in Slot : x[1] # p /\ Ref(x) = i => Kind(x) \notin Special

\* p ends with plain references only.
LEMMA SoleStep ==
    ASSUME NEW p \in Proc, Move(p), SoleInv, SpecialInv,
           \A x \in Slot : x[1] = p => Kind(x)' = "plain" /\ (Ref(x)' = 0 \/ Plain(p, Ref(x)'))
    PROVE  SoleInv'
<1>. SUFFICES ASSUME NEW x \in Slot, NEW y \in Slot, x # y, Ref(x)' = Ref(y)', Ref(x)' # 0
              PROVE  /\ Kind(x)' = "new" => Kind(y)' \in {"freed", "dropped"}
                     /\ Kind(x)' = "freed" => Kind(y)' = "new"
  BY DEF SoleInv
<1>1. CASE x[1] = p /\ y[1] = p BY <1>1
<1>2. CASE x[1] # p /\ y[1] # p BY <1>2, MoveSlots DEF SoleInv
<1>3. CASE x[1] = p /\ y[1] # p BY <1>3, MoveSlots DEF Plain
<1>4. CASE x[1] # p /\ y[1] = p BY <1>4, MoveSlots DEF Plain, Special
<1>. QED BY <1>1, <1>2, <1>3, <1>4

LEMMA SpecialStep ==
    ASSUME NEW p \in Proc, Move(p), SpecialInv,
           \A x \in Slot : x[1] = p => Kind(x)' = "plain",
           \A i \in Inode : Plain(p, i) \/ disk'[i].nlink = disk[i].nlink,
           \A x \in Slot : Ref(x) \in Inode \cup {0}
    PROVE  SpecialInv'
<1>. SUFFICES ASSUME NEW x \in Slot, Ref(x)' # 0, Kind(x)' \in Special
              PROVE  disk'[Ref(x)'].nlink = 0
  BY DEF SpecialInv, Special
<1>1. x[1] # p BY DEF Special
<1>2. Ref(x)' = Ref(x) /\ Kind(x)' = Kind(x) BY <1>1, MoveSlots
<1>3. ~Plain(p, Ref(x)) BY <1>1, <1>2 DEF Plain
<1>. QED BY <1>2, <1>3 DEF SpecialInv

LEMMA AllocStep ==
    ASSUME NEW p \in Proc, Move(p), AllocInv,
           \A x \in Slot : Ref(x) \in Inode \cup {0},
           \A i \in Inode : disk[i].type # "FREE" => disk'[i].type # "FREE",
           \A x \in Slot : x[1] = p /\ Ref(x)' # 0 /\ Kind(x)' \in {"new", "plain"}
                            => disk'[Ref(x)'].type # "FREE"
    PROVE  AllocInv'
<1>. SUFFICES ASSUME NEW x \in Slot, Ref(x)' # 0, Kind(x)' \in {"new", "plain"}, x[1] # p
              PROVE  disk'[Ref(x)'].type # "FREE"
  BY DEF AllocInv
<1>1. Ref(x)' = Ref(x) /\ Kind(x)' = Kind(x) BY MoveSlots
<1>. QED BY <1>1 DEF AllocInv

\* What TypeOK and CallInv say of a process.
LEMMA ProcTypes ==
    ASSUME TypeOK, CallInv, NEW q \in Proc
    PROVE  /\ cwd[q] \in Inode /\ file[q].ip \in Inode \cup {0}
           /\ pr[q].ip \in Inode \cup {0} /\ pr[q].held \in Inode \cup {0}
           /\ Put(q, 1) \in Inode \cup {0} /\ Put(q, 2) \in Inode \cup {0}
           /\ Put(q, 1) = 0 <=> Len(pr[q].puts) = 0
           /\ Len(pr[q].puts) <= 1 => Put(q, 2) = 0
           /\ pr[q].puts \in Seq(Inode) /\ Len(pr[q].puts) \in 0 .. 2
           /\ pr[q].pc \in {"init", "unlink"} => pr[q].ip \in Inode /\ pr[q].held \in Inode
           /\ pr[q].iput # "no" => Put(q, 1) \in Inode
           /\ CallOK(pr[q]) /\ pr[q] \in CallType
<1>0. Len(pr[q].puts) <= 2 BY DEF TypeOK
<1>1. pr[q] \in CallType /\ CallOK(pr[q]) BY DEF TypeOK, CallInv
<1>2. /\ pr[q].ip \in Inode \cup {0} /\ pr[q].held \in Inode \cup {0}
      /\ pr[q].puts \in Seq(Inode)
  BY <1>1, Consts DEF CallType
<1>3. Len(pr[q].puts) \in 0 .. 2
  <2>1. Len(pr[q].puts) \in Nat BY <1>2, LenProperties
  <2>. DEFINE n == Len(pr[q].puts)
  <2>2. n \in Nat /\ n <= 2 BY <1>0, <2>1
  <2>. HIDE DEF n
  <2>3. n \in 0 .. 2 BY <2>2
  <2>. QED BY <2>3 DEF n
<1>4. \A k \in 1 .. Len(pr[q].puts) : pr[q].puts[k] \in Inode BY <1>2, ElementOfSeq
<1>5. /\ Put(q, 1) \in Inode \cup {0} /\ Put(q, 2) \in Inode \cup {0}
      /\ Put(q, 1) = 0 <=> Len(pr[q].puts) = 0
      /\ Len(pr[q].puts) <= 1 => Put(q, 2) = 0
      /\ Len(pr[q].puts) > 0 => Put(q, 1) \in Inode
  BY <1>3, <1>4, Consts DEF Put
<1>6. /\ pr[q].pc \in {"init", "unlink"} => pr[q].ip # 0 /\ pr[q].held # 0
      /\ pr[q].iput # "no" => Len(pr[q].puts) > 0
  BY <1>1 DEF CallOK
<1>7. cwd[q] \in Inode /\ file[q].ip \in Inode \cup {0}
  BY Consts DEF TypeOK, FileType, NoFile
<1>. QED BY <1>1, <1>2, <1>3, <1>5, <1>6, <1>7

LEMMA RefTypes ==
    ASSUME TypeOK, CallInv
    PROVE  \A x \in Slot : Ref(x) \in Inode \cup {0}
<1>. SUFFICES ASSUME NEW p \in Proc, NEW x \in Slot, x[1] = p PROVE Ref(x) \in Inode \cup {0}
  BY DEF Slot
<1>1. \/ x = <<p, "cwd">> \/ x = <<p, "file">> \/ x = <<p, "ip">>
      \/ x = <<p, "held">> \/ x = <<p, "put1">> \/ x = <<p, "put2">>
  BY SixSlots
<1>2. /\ cwd[p] \in Inode /\ file[p].ip \in Inode \cup {0}
      /\ pr[p].ip \in Inode \cup {0} /\ pr[p].held \in Inode \cup {0}
      /\ Put(p, 1) \in Inode \cup {0} /\ Put(p, 2) \in Inode \cup {0}
  BY ProcTypes
<1>. QED BY <1>1, <1>2, OwnSlots

\* Locks are taken and given up by the process that takes the step.
LEMMA LockStep ==
    ASSUME NEW p \in Proc, Move(p), TypeOK, CallInv, LockInv,
           \A i \in Inode : /\ lock'[i] = p => Locks(p, i)'
                            /\ lock'[i] \notin {0, p} => lock'[i] = lock[i]
                            /\ lock[i] \notin {0, p} => lock'[i] = lock[i],
           pr'[p].pc \in {"init", "unlink"} => lock'[pr'[p].ip] = p,
           pr'[p].iput = "freeing" => lock'[Put(p, 1)'] = p,
           pr'[p].iput = "dropping" => lock'[Put(p, 1)'] # p
    PROVE  LockInv'
<1>1. \A q \in Proc : q # p => pr'[q] = pr[q] /\ Put(q, 1)' = Put(q, 1) /\ Put(q, 2)' = Put(q, 2)
  BY DEF Move, Put
<1>2. \A q \in Proc, i \in Inode : q # p => (Locks(q, i)' <=> Locks(q, i))
  BY <1>1 DEF Locks
<1>3. \A i \in Inode : lock[i] \in Proc \cup {0} BY DEF TypeOK
<1>4. ASSUME NEW i \in Inode, NEW q \in Proc, lock'[i] = q PROVE Locks(q, i)'
  <2>1. CASE q = p BY <1>4, <2>1
  <2>2. CASE q # p
    <3>1. lock[i] = q BY <1>4, <2>2, Consts
    <3>. QED BY <1>2, <2>2, <3>1 DEF LockInv
  <2>. QED BY <2>1, <2>2
<1>5. ASSUME NEW q \in Proc, pr'[q].pc \in {"init", "unlink"} PROVE lock'[pr'[q].ip] = q
  <2>1. CASE q = p BY <1>5, <2>1
  <2>2. CASE q # p
    <3>1. pr'[q] = pr[q] /\ pr[q].ip \in Inode BY <1>1, <1>5, <2>2, ProcTypes
    <3>2. lock[pr[q].ip] = q BY <1>5, <3>1 DEF LockInv
    <3>. QED BY <2>2, <3>1, <3>2, Consts
  <2>. QED BY <2>1, <2>2
<1>6. ASSUME NEW q \in Proc, pr'[q].iput = "freeing" PROVE lock'[Put(q, 1)'] = q
  <2>1. CASE q = p BY <1>6, <2>1
  <2>2. CASE q # p
    <3>1. pr'[q] = pr[q] /\ Put(q, 1)' = Put(q, 1) /\ Put(q, 1) \in Inode
      BY <1>1, <1>6, <2>2, ProcTypes
    <3>2. lock[Put(q, 1)] = q BY <1>6, <3>1 DEF LockInv
    <3>. QED BY <2>2, <3>1, <3>2, Consts
  <2>. QED BY <2>1, <2>2
<1>7. ASSUME NEW q \in Proc, pr'[q].iput = "dropping" PROVE lock'[Put(q, 1)'] # q
  <2>1. CASE q = p BY <1>7, <2>1
  <2>2. CASE q # p
    <3>1. pr'[q] = pr[q] /\ Put(q, 1)' = Put(q, 1) /\ Put(q, 1) \in Inode
      BY <1>1, <1>7, <2>2, ProcTypes
    <3>2. lock[Put(q, 1)] # q BY <1>7, <3>1 DEF LockInv
    <3>. QED BY <2>2, <3>1, <3>2, Consts
  <2>. QED BY <2>1, <2>2
<1>. QED BY <1>4, <1>5, <1>6, <1>7 DEF LockInv

\* The lock of i is not with p, or p gives it up at the end of its call.
LEMMA NotLocked ==
    ASSUME TypeOK, CallInv, LockInv, NEW p \in Proc, Len(pr[p].puts) = 0,
           pr[p].pc \notin {"init", "unlink"}
    PROVE  \A i \in Inode : lock[i] # p
<1>1. Put(p, 1) = 0 /\ Put(p, 2) = 0 BY ProcTypes
<1>2. \A i \in Inode : ~Locks(p, i) BY <1>1, Consts DEF Locks
<1>. QED BY <1>2, Consts DEF LockInv

\* A call that neither takes nor keeps locks.
LEMMA LockKeep ==
    ASSUME NEW p \in Proc, Move(p), TypeOK, CallInv, LockInv, UNCHANGED lock,
           Len(pr[p].puts) = 0, pr[p].pc \notin {"init", "unlink"},
           pr'[p].pc \notin {"init", "unlink"}, pr'[p].iput = "no"
    PROVE  LockInv'
<1>1. \A i \in Inode : lock'[i] = lock[i] /\ lock[i] # p BY NotLocked
<1>. QED BY <1>1, LockStep

----------------------------------------------------------------------------
(* Inodes that are written                                                 *)

\* The inodes of S have been stored or read in.
Wrote(S) ==
    /\ S \subseteq Inode
    /\ \A j \in Inode \ S : disk'[j] = disk[j] /\ mem'[j] = mem[j]
    /\ \A j \in S : mem'[j] = disk'[j] /\ ref'[j] > 0

LEMMA ValidCopy == \A ino \in InodeType : ino # NoCopy
BY DEF InodeType, NoCopy, NoInode, Types

\* Who frees and who creates goes on with it.
LEMMA MemStep ==
    ASSUME NEW p \in Proc, Move(p), TypeOK, TypeOK', MemInv, OrphanInv, NEW S, Wrote(S),
           \A j \in Inode : ref'[j] >= ref[j],
           \A j \in Inode : ref[j] = 0 /\ ref'[j] > 0 => disk[j].nlink # 0,
           pr[p].iput = "no", pr[p].pc = "init" => pr[p].held \in S,
           pr'[p].iput = "no", \A j \in S : Plain(p, j) /\ disk'[j].type # "FREE"
    PROVE  MemInv' /\ OrphanInv'
<1>1. \A q \in Proc : q # p => pr'[q] = pr[q] /\ Put(q, 1)' = Put(q, 1)
  BY DEF Move, Put
<1>2. \A j \in Inode : Freeing(j) => Freeing(j)' BY <1>1 DEF Freeing
<1>3. \A j \in Inode \ S : Creating(j) => Creating(j)' BY <1>1 DEF Creating
<1>7. \A j \in Inode : Freeing(j)' => Freeing(j) /\ j \notin S
  <2>. SUFFICES ASSUME NEW j \in Inode, NEW q \in Proc, pr'[q].iput = "freeing", Put(q, 1)' = j
                PROVE  Freeing(j) /\ j \notin S
    BY DEF Freeing
  <2>1. q # p /\ pr[q].iput = "freeing" /\ Put(q, 1) = j BY <1>1
  <2>2. <<q, "put1">> \in Slot /\ Ref(<<q, "put1">>) = j /\ Kind(<<q, "put1">>) = "freed"
    BY <2>1, OwnSlots
  <2>3. ~Plain(p, j) BY <2>1, <2>2 DEF Plain, Special
  <2>. QED BY <2>1, <2>3 DEF Freeing
<1>4. \A j \in Inode : ref'[j] \in Nat /\ ref[j] \in Nat BY DEF TypeOK
<1>5. ASSUME NEW j \in Inode
      PROVE  /\ mem'[j] # NoCopy => ref'[j] > 0
             /\ mem'[j] \in {NoCopy, disk'[j]} \/ Freeing(j)'
             /\ disk'[j].type = "FREE" => mem'[j] = NoCopy \/ Freeing(j)'
  <2>1. CASE j \in S BY <2>1 DEF Wrote
  <2>2. CASE j \notin S
    <3>1. disk'[j] = disk[j] /\ mem'[j] = mem[j] BY <2>2 DEF Wrote
    <3>. QED BY <1>2, <1>4, <3>1 DEF MemInv
  <2>. QED BY <2>1, <2>2
<1>6. ASSUME NEW j \in Inode, disk'[j].type # "FREE", disk'[j].nlink = 0, ref'[j] > 0
      PROVE  (mem'[j] # NoCopy /\ ~Freeing(j)') \/ Creating(j)'
  <2>1. CASE j \in S
    <3>1. mem'[j] = disk'[j] /\ ref'[j] > 0 /\ disk'[j] \in InodeType BY <2>1 DEF Wrote, TypeOK
    <3>. QED BY <1>7, <2>1, <3>1, ValidCopy
  <2>2. CASE j \notin S
    <3>1. disk'[j] = disk[j] /\ mem'[j] = mem[j] BY <2>2 DEF Wrote
    <3>2. ref[j] > 0 BY <1>4, <1>6, <3>1
    <3>3. (mem[j] # NoCopy /\ ~Freeing(j)) \/ Creating(j) BY <1>6, <3>1, <3>2 DEF OrphanInv
    <3>. QED BY <1>3, <1>7, <2>2, <3>1, <3>3
  <2>. QED BY <2>1, <2>2
<1>. QED BY <1>5, <1>6 DEF MemInv, OrphanInv

\* The references of a process are to inodes that exist.
LEMMA OwnRefs ==
    ASSUME AllocInv, NEW p \in Proc
    PROVE  /\ cwd[p] # 0 => disk[cwd[p]].type # "FREE"
           /\ file[p].ip # 0 => disk[file[p].ip].type # "FREE"
           /\ pr[p].ip # 0 => disk[pr[p].ip].type # "FREE"
           /\ pr[p].held # 0 => disk[pr[p].held].type # "FREE"
           /\ Put(p, 2) # 0 => disk[Put(p, 2)].type # "FREE"
           /\ Put(p, 1) # 0 /\ pr[p].iput = "no" => disk[Put(p, 1)].type # "FREE"
<1>1. \A x \in Slot : Ref(x) # 0 /\ Kind(x) \in {"new", "plain"} => disk[Ref(x)].type # "FREE"
  BY DEF AllocInv
<1>. QED BY <1>1, OwnSlots

\* What the others work on stays what it is.
LEMMA WorkStep ==
    ASSUME NEW p \in Proc, Move(p), TypeOK, CallInv, AllocInv, WorkInv, WorkOK(p)',
           \A i \in Inode : disk[i].type # "FREE" => disk'[i].type = disk[i].type,
           \A i \in Inode : Plain(p, i) \/ disk'[i] = disk[i],
           LockInv, \A i \in Inode : lock[i] \in {0, p} \/ disk'[i].ents = disk[i].ents
    PROVE  WorkInv'
<1>. SUFFICES ASSUME NEW q \in Proc, q # p PROVE WorkOK(q)' BY DEF WorkInv
<1>1. pr'[q] = pr[q] /\ WorkOK(q) BY DEF Move, WorkInv
<1>c. CallOK(pr[q]) /\ pr[q].ip \in Inode \cup {0} /\ pr[q].held \in Inode \cup {0}
  BY ProcTypes
<1>o. /\ pr[q].ip # 0 => disk[pr[q].ip].type # "FREE"
      /\ pr[q].held # 0 => disk[pr[q].held].type # "FREE"
  BY OwnRefs
<1>2. pr[q].pc \in {"at", "init", "unlink"} =>
         pr[q].ip \in Inode /\ disk[pr[q].ip].type # "FREE"
  BY <1>c, <1>o DEF CallOK
<1>3. pr[q].call = "link2" => pr[q].held \in Inode /\ disk[pr[q].held].type # "FREE"
  BY <1>c, <1>o DEF CallOK
<1>4. pr[q].pc = "init" => pr[q].held \in Inode /\ ~Plain(p, pr[q].held)
  <2>. SUFFICES ASSUME pr[q].pc = "init" PROVE pr[q].held \in Inode /\ ~Plain(p, pr[q].held)
    OBVIOUS
  <2>1. <<q, "held">> \in Slot /\ Kind(<<q, "held">>) = "new" /\ Ref(<<q, "held">>) = pr[q].held
    BY OwnSlots
  <2>2. <<q, "held">>[1] = q OBVIOUS
  <2>. QED BY <2>1, <2>2, ProcTypes DEF Plain, Special
<1>5. pr[q].pc \in {"init", "unlink"} => disk'[pr[q].ip].ents = disk[pr[q].ip].ents
  <2>. SUFFICES ASSUME pr[q].pc \in {"init", "unlink"}
                PROVE  disk'[pr[q].ip].ents = disk[pr[q].ip].ents
    OBVIOUS
  <2>1. lock[pr[q].ip] = q /\ pr[q].ip \in Inode BY <1>2, ProcTypes DEF LockInv
  <2>2. q \notin {0, p} BY Consts
  <2>. QED BY <2>1, <2>2
<1>. QED BY <1>1, <1>2, <1>3, <1>4, <1>5 DEF WorkOK

----------------------------------------------------------------------------
(* Facts of a state                                                        *)

\* The copy of a lock holder is the disk's.
LEMMA Current ==
    ASSUME TypeOK, CallInv, LockInv, MemInv, NEW p \in Proc, pr[p].iput = "no",
           NEW i \in Inode, lock[i] \in {0, p}
    PROVE  Ino(i) = disk[i] /\ disk[i] \in InodeType
<1>1. ~Freeing(i)
  <2>. SUFFICES ASSUME NEW q \in Proc, pr[q].iput = "freeing", Put(q, 1) = i PROVE FALSE
    BY DEF Freeing
  <2>1. lock[i] = q BY DEF LockInv
  <2>. QED BY <2>1, Consts
<1>2. mem[i] \in {NoCopy, disk[i]} BY <1>1 DEF MemInv
<1>3. disk[i] \in InodeType BY DEF TypeOK
<1>. QED BY <1>2, <1>3 DEF Ino

\* The three counts of links.
LEMMA LinkCountsNat ==
    ASSUME NEW i
    PROVE  /\ Tally(Name, NameTo, i) \in Nat /\ Tally(Inode, ParentOf, i) \in Nat
           /\ Tally(Proc, LinkTo, i) \in Nat
BY FinitelyMany, TallyNat

\* A name is that of an inode with links.
LEMMA NamedInode ==
    ASSUME TypeOK, DiskInv, LinkInv, NEW x \in Name, NameIn(x) # 0
    PROVE  /\ NameIn(x) \in Inode /\ disk[NameIn(x)].nlink > 0
           /\ disk[NameIn(x)].type # "FREE" /\ disk[x[1]].type = "DIR"
<1>. DEFINE i == NameIn(x)
<1>1. x[1] \in Inode /\ x[2] \in Names BY DEF Name
<1>2. disk[x[1]] \in InodeType BY <1>1 DEF TypeOK
<1>3. i \in Inode /\ disk[x[1]].type = "DIR"
  BY <1>1, <1>2, Consts DEF NameIn, InodeType
<1>4. NameTo[x] = i BY DEF NameTo
<1>. HIDE DEF i
<1>5. Tally(Name, NameTo, i) # 0 BY <1>4, TallyFew, FinitelyMany
<1>6. lost[i] \in Nat BY <1>3 DEF TypeOK
<1>7. disk[i].nlink = Tally(Name, NameTo, i) + Tally(Inode, ParentOf, i)
                      + Tally(Proc, LinkTo, i) + lost[i]
  BY <1>3 DEF LinkInv
<1>8. disk[i].nlink > 0 BY <1>5, <1>6, <1>7, LinkCountsNat
<1>9. disk[i].type # "FREE" BY <1>3, <1>8 DEF DiskInv, NoInode
<1>. QED BY <1>3, <1>8, <1>9 DEF i

LEMMA RootLinked ==
    ASSUME TypeOK, DiskInv, LinkInv
    PROVE  disk[ROOTINO].nlink > 0 /\ disk[ROOTINO].type = "DIR"
<1>1. ParentOf[ROOTINO] = ROOTINO /\ disk[ROOTINO].type = "DIR"
  BY Consts DEF ParentOf, InTree, DiskInv
<1>2. Tally(Inode, ParentOf, ROOTINO) # 0 BY <1>1, TallyFew, FinitelyMany, Consts
<1>3. lost[ROOTINO] \in Nat BY Consts DEF TypeOK
<1>4. disk[ROOTINO].nlink = Tally(Name, NameTo, ROOTINO) + Tally(Inode, ParentOf, ROOTINO)
                            + Tally(Proc, LinkTo, ROOTINO) + lost[ROOTINO]
  BY Consts DEF LinkInv
<1>. QED BY <1>1, <1>2, <1>3, <1>4, LinkCountsNat

\* An inode with links is neither new nor being freed.
LEMMA LinkedPlain ==
    ASSUME SpecialInv, NEW p \in Proc, NEW i \in Inode, disk[i].nlink # 0
    PROVE  Plain(p, i)
BY Consts DEF SpecialInv, Plain

\* Who has a reference is counted.
LEMMA RefPositive ==
    ASSUME RefInv, TypeOK, NEW x \in Slot, Ref(x) \in Inode
    PROVE  ref[Ref(x)] > 0
<1>1. Held[x] = Ref(x) BY DEF Held
<1>2. Tally(Slot, Held, Ref(x)) # 0 BY <1>1, TallyFew, SlotFinite
<1>3. ref[Ref(x)] = Tally(Slot, Held, Ref(x)) BY DEF RefInv
<1>4. ref[Ref(x)] \in Nat BY DEF TypeOK
<1>. QED BY <1>2, <1>3, <1>4

\* A process may refer to i, which it has found by a name or which has references, and is
\* the only one, if any, to create or free it.
Good(p, i) ==
    \/ i = 0
    \/ /\ i \in Inode /\ Plain(p, i) /\ disk[i].type # "FREE"
       /\ ref[i] > 0 \/ disk[i].nlink # 0

LEMMA OwnGood ==
    ASSUME Inv, NEW p \in Proc
    PROVE  /\ Good(p, cwd[p]) /\ Good(p, file[p].ip) /\ Good(p, pr[p].ip) /\ Good(p, Put(p, 2))
           /\ pr[p].pc # "init" => Good(p, pr[p].held)
           /\ pr[p].iput = "no" => Good(p, Put(p, 1))
<1>1. ASSUME NEW x \in Slot, x[1] = p, Kind(x) = "plain" PROVE Good(p, Ref(x))
  <2>. SUFFICES ASSUME Ref(x) # 0 PROVE Good(p, Ref(x)) BY DEF Good
  <2>1. Ref(x) \in Inode BY RefTypes, Consts DEF Inv
  <2>2. disk[Ref(x)].type # "FREE" BY <1>1 DEF Inv, AllocInv
  <2>3. ASSUME NEW y \in Slot, y[1] # p, Ref(y) = Ref(x) PROVE Kind(y) \notin Special
    <3>1. x # y BY <1>1, <2>3
    <3>2. /\ Kind(y) = "new" => Kind(x) \in {"freed", "dropped"}
          /\ Kind(y) = "freed" => Kind(x) = "new"
      BY <2>3, <3>1 DEF Inv, SoleInv
    <3>. QED BY <1>1, <3>2 DEF Special
  <2>4. Plain(p, Ref(x)) BY <2>3 DEF Plain
  <2>5. ref[Ref(x)] > 0 BY <2>1, RefPositive DEF Inv
  <2>. QED BY <2>1, <2>2, <2>4, <2>5 DEF Good
<1>2. /\ <<p, "cwd">>[1] = p /\ <<p, "file">>[1] = p /\ <<p, "ip">>[1] = p
      /\ <<p, "held">>[1] = p /\ <<p, "put1">>[1] = p /\ <<p, "put2">>[1] = p
  OBVIOUS
<1>. QED BY <1>1, <1>2, OwnSlots

LEMMA OwnCounted ==
    ASSUME Inv, NEW p \in Proc
    PROVE  /\ ref[cwd[p]] > 0
           /\ file[p].ip # 0 => ref[file[p].ip] > 0
           /\ pr[p].ip # 0 => ref[pr[p].ip] > 0
           /\ pr[p].held # 0 => ref[pr[p].held] > 0
           /\ Put(p, 1) # 0 => ref[Put(p, 1)] > 0
           /\ Put(p, 2) # 0 => ref[Put(p, 2)] > 0
<1>1. \A x \in Slot : Ref(x) \in Inode => ref[Ref(x)] > 0 BY RefPositive DEF Inv
<1>2. \A x \in Slot : Ref(x) # 0 => Ref(x) \in Inode BY RefTypes DEF Inv
<1>3. cwd[p] # 0 BY ProcTypes, Consts DEF Inv
<1>. QED BY <1>1, <1>2, <1>3, OwnSlots

\* The references to put of a call that begins or ends.
LEMMA PutValues ==
    ASSUME NEW p \in Proc
    PROVE  /\ pr[p].puts = <<>> => Put(p, 1) = 0 /\ Put(p, 2) = 0
           /\ pr'[p].puts = <<>> => Put(p, 1)' = 0 /\ Put(p, 2)' = 0
           /\ \A a : pr'[p].puts = <<a>> => Put(p, 1)' = a /\ Put(p, 2)' = 0
           /\ \A a, b : pr'[p].puts = <<a, b>> => Put(p, 1)' = a /\ Put(p, 2)' = b
BY DEF Put

----------------------------------------------------------------------------
(* Steps that go on with a call or end it                                  *)

\* The end of a call that holds the lock of its directory until it puts it.
LEMMA LockEnd ==
    ASSUME NEW p \in Proc, Move(p), TypeOK, CallInv, LockInv, UNCHANGED lock,
           Len(pr[p].puts) = 0, pr[p].ip \in {Put(p, 1)', Put(p, 2)'},
           pr'[p].pc \notin {"init", "unlink"}, pr'[p].iput = "no"
    PROVE  LockInv'
<1>1. Put(p, 1) = 0 /\ Put(p, 2) = 0 BY ProcTypes
<1>2. \A i \in Inode : lock[i] = p => pr[p].ip = i BY <1>1, Consts DEF LockInv, Locks
<1>3. \A i \in Inode : lock'[i] = lock[i] OBVIOUS
<1>4. \A i \in Inode : lock'[i] = p => Locks(p, i)' BY <1>2, <1>3 DEF Locks
<1>. QED BY <1>3, <1>4, LockStep

\* An inode that gets references again has been found by a name.
LEMMA Refound ==
    ASSUME NEW p \in Proc, \A i \in Inode : ref'[i] = ref[i] - Uses(p, i) + Uses(p, i)',
           Good(p, cwd'[p]), Good(p, file'[p].ip), Good(p, pr'[p].ip), Good(p, pr'[p].held),
           Good(p, Put(p, 1)'), Good(p, Put(p, 2)')
    PROVE  \A j \in Inode : ref[j] = 0 /\ ref'[j] > 0 => disk[j].nlink # 0
<1>. SUFFICES ASSUME NEW j \in Inode, ref[j] = 0, ref'[j] > 0, disk[j].nlink = 0
              PROVE  FALSE
  OBVIOUS
<1>1. \A a : Good(p, a) => a # j BY Consts DEF Good
<1>2. Uses(p, j)' = 0 BY <1>1 DEF Uses, One
<1>3. Uses(p, j) \in Nat BY DEF Uses, One
<1>4. ref'[j] = ref[j] - Uses(p, j) + Uses(p, j)' OBVIOUS
<1>. QED BY <1>2, <1>3, <1>4

\* A step of a call, but for what it does to the tree and to the blocks.
LEMMA CallStep ==
    ASSUME NEW p \in Proc, Inv, TypeOK', Move(p), pr[p].iput = "no",
           CallOK(pr'[p]), pr'[p].pc # "init", pr'[p].iput = "no",
           \A i \in Inode : ref'[i] = ref[i] - Uses(p, i) + Uses(p, i)',
           \A i \in Inode : ref'[i] >= ref[i],
           Good(p, cwd'[p]), Good(p, file'[p].ip), Good(p, pr'[p].ip), Good(p, pr'[p].held),
           Good(p, Put(p, 1)'), Good(p, Put(p, 2)'),
           NEW S, Wrote(S),
           \A i \in S : /\ lock[i] \in {0, p} /\ Plain(p, i)
                        /\ disk[i].type # "FREE" /\ disk'[i].type = disk[i].type,
           pr[p].pc = "init" => pr[p].held \in S,
           LockInv', WorkOK(p)', DiskInv', TreeInv', LinkInv', BlocksOK(disk', used')
    PROVE  Inv'
<1>1. \A i \in Inode : disk'[i].type = disk[i].type
  <2>. SUFFICES ASSUME NEW i \in Inode, i \notin S PROVE disk'[i].type = disk[i].type OBVIOUS
  <2>1. disk'[i] = disk[i] BY DEF Wrote
  <2>. QED BY <2>1
<1>2. \A i \in Inode : Plain(p, i) \/ disk'[i] = disk[i] BY DEF Wrote
<1>3. \A i \in Inode : lock[i] \in {0, p} \/ disk'[i].ents = disk[i].ents
  <2>. SUFFICES ASSUME NEW i \in Inode, i \notin S PROVE disk'[i].ents = disk[i].ents
    OBVIOUS
  <2>1. disk'[i] = disk[i] BY DEF Wrote
  <2>. QED BY <2>1
<1>4. \A x \in Slot : x[1] = p => Kind(x)' = "plain" /\ Good(p, Ref(x)')
  <2>. SUFFICES ASSUME NEW x \in Slot, x[1] = p PROVE Kind(x)' = "plain" /\ Good(p, Ref(x)')
    OBVIOUS
  <2>. QED BY OwnPlainNext
<1>5. CallInv' BY DEF CallInv, Move, Inv
<1>6. RefInv' BY RefStep DEF Inv
<1>t. \A x \in Slot : Ref(x) \in Inode \cup {0} BY RefTypes DEF Inv
<1>7. SoleInv'
  <2>1. \A x \in Slot : x[1] = p => Kind(x)' = "plain" /\ (Ref(x)' = 0 \/ Plain(p, Ref(x)'))
    BY <1>4 DEF Good
  <2>2. SoleInv /\ SpecialInv BY DEF Inv
  <2>. QED BY <2>1, <2>2, SoleStep
<1>8. SpecialInv'
  <2>1. \A i \in Inode : Plain(p, i) \/ disk'[i].nlink = disk[i].nlink
    <3>. SUFFICES ASSUME NEW i \in Inode, ~Plain(p, i) PROVE disk'[i].nlink = disk[i].nlink
      OBVIOUS
    <3>1. disk'[i] = disk[i] BY <1>2
    <3>. QED BY <3>1
  <2>2. \A x \in Slot : x[1] = p => Kind(x)' = "plain" BY <1>4
  <2>. QED BY <1>t, <2>1, <2>2, SpecialStep DEF Inv
<1>9. AllocInv'
  <2>1. \A x \in Slot : x[1] = p /\ Ref(x)' # 0 /\ Kind(x)' \in {"new", "plain"}
                            => disk'[Ref(x)'].type # "FREE"
    BY <1>1, <1>4 DEF Good
  <2>2. \A i \in Inode : disk[i].type # "FREE" => disk'[i].type # "FREE" BY <1>1
  <2>. QED BY <1>t, <2>1, <2>2, AllocStep DEF Inv
<1>10. MemInv' /\ OrphanInv'
  <2>1. \A j \in Inode : ref[j] = 0 /\ ref'[j] > 0 => disk[j].nlink # 0 BY Refound
  <2>2. \A j \in S : Plain(p, j) /\ disk'[j].type # "FREE" BY <1>1 DEF Wrote
  <2>. QED BY <2>1, <2>2, MemStep DEF Inv
<1>11. WorkInv' BY <1>1, <1>2, <1>3, WorkStep DEF Inv
<1>. QED BY <1>5, <1>6, <1>7, <1>8, <1>9, <1>10, <1>11 DEF Inv

\* A step that changes no name: it accounts for the link counts by what link() is at.
LEMMA SameNames ==
    ASSUME NEW p \in Proc, Move(p), TypeOK, DiskInv, TreeInv, LinkInv, UNCHANGED lost,
           \A i \in Inode : /\ disk'[i].type = disk[i].type /\ disk'[i].ents = disk[i].ents
                            /\ disk[i].type = "FREE" => disk'[i] = disk[i]
                            /\ disk'[i].nlink = disk[i].nlink - One(LinkOf(p), i)
                                                + One(LinkOf(p)', i)
    PROVE  DiskInv' /\ TreeInv' /\ LinkInv'
<1>1. \A x \in Name : x[1] \in Inode /\ NameIn(x)' = NameIn(x)
  BY DEF Name, NameIn
<1>2. \A d \in Inode : InTree(d)' <=> InTree(d) BY <1>1 DEF InTree
<1>3. DiskInv' BY Consts DEF DiskInv
<1>4. TreeInv'
  <2>1. \A x \in Name : NameIn(x) # 0 => NameIn(x) \in Inode BY NamedInode
  <2>. QED BY <1>1, <2>1 DEF TreeInv
<1>5. LinkInv'
  <2>. SUFFICES ASSUME NEW i \in Inode
                PROVE  disk'[i].nlink = Tally(Name, NameTo', i) + Tally(Inode, ParentOf', i)
                                        + Tally(Proc, LinkTo', i) + lost'[i]
    BY DEF LinkInv
  <2>1. Tally(Name, NameTo', i) = Tally(Name, NameTo, i)
    <3>1. \A x \in Name : (NameTo')[x] = NameTo[x] BY <1>1 DEF NameTo
    <3>. QED BY <3>1, TallySame
  <2>2. Tally(Inode, ParentOf', i) = Tally(Inode, ParentOf, i)
    <3>1. \A d \in Inode : (ParentOf')[d] = ParentOf[d] BY <1>2 DEF ParentOf
    <3>. QED BY <3>1, TallySame
  <2>3. Tally(Proc, LinkTo', i) = Tally(Proc, LinkTo, i) - One(LinkOf(p), i)
                                  + One(LinkOf(p)', i)
    <3>1. \A q \in Proc : LinkTo[q] = LinkOf(q) /\ (LinkTo')[q] = LinkOf(q)' BY DEF LinkTo
    <3>2. \A q \in Proc : q # p => (LinkTo')[q] = LinkTo[q] BY <3>1 DEF Move, LinkOf
    <3>3. Tally(Proc, LinkTo', i) = Tally(Proc, LinkTo, i) - One(LinkTo[p], i)
                                    + One((LinkTo')[p], i)
      <4>. DEFINE f == LinkTo
                  g == LinkTo'
      <4>1. Change(Proc, f, g, p) BY <3>2 DEF Change
      <4>. HIDE DEF f, g
      <4>2. Tally(Proc, g, i) = Tally(Proc, f, i) - One(f[p], i) + One(g[p], i)
        BY <4>1, TallySet, FinitelyMany
      <4>. QED BY <4>2 DEF f, g
    <3>. QED BY <3>1, <3>3
  <2>4. disk[i].nlink = Tally(Name, NameTo, i) + Tally(Inode, ParentOf, i)
                        + Tally(Proc, LinkTo, i) + lost[i]
    BY DEF LinkInv
  <2>5. lost[i] \in Nat /\ lost'[i] = lost[i] BY DEF TypeOK
  <2>6. One(LinkOf(p), i) \in Int /\ One(LinkOf(p)', i) \in Int BY DEF One
  <2>7. disk'[i].nlink = disk[i].nlink - One(LinkOf(p), i) + One(LinkOf(p)', i) OBVIOUS
  <2>. QED BY <2>1, <2>2, <2>3, <2>4, <2>5, <2>6, <2>7, LinkCountsNat
<1>. QED BY <1>3, <1>4, <1>5

\* A step that only reads.
LEMMA Reads ==
    ASSUME NEW p \in Proc, Move(p), Inv, UNCHANGED <<disk, used, lost>>, LinkOf(p)' = LinkOf(p)
    PROVE  DiskInv' /\ TreeInv' /\ LinkInv' /\ BlocksOK(disk', used')
<1>1. \A i \in Inode : disk[i].nlink \in Nat BY DEF Inv, TypeOK, InodeType
<1>2. One(LinkOf(p), 0) \in Int /\ \A i \in Inode : One(LinkOf(p), i) \in Int BY DEF One
<1>3. DiskInv' /\ TreeInv' /\ LinkInv' BY <1>1, <1>2, SameNames DEF Inv
<1>. QED BY <1>3 DEF Inv

\* ilock() of an inode with references, and no ilock() at all.
LEMMA LoadWrites ==
    ASSUME NEW p \in Proc, Inv, pr[p].iput = "no", UNCHANGED disk, NEW i \in Inode,
           lock[i] \in {0, p}, Load(i), ref'[i] > 0
    PROVE  Wrote({i})
<1>1. Ino(i) = disk[i] BY Current DEF Inv
<1>2. mem'[i] = disk[i] /\ \A j \in Inode \ {i} : mem'[j] = mem[j]
  BY <1>1 DEF Load, Inv, TypeOK
<1>. QED BY <1>2 DEF Wrote

LEMMA WroteNone == UNCHANGED <<disk, mem>> => Wrote({})
BY DEF Wrote

\* A call that has returned, and one of link() that has failed.
IsIdle(r, puts) ==
    /\ r.pc = "idle" /\ r.call = "none" /\ r.ip = 0 /\ r.held = 0
    /\ r.rest = <<>> /\ r.new = <<>> /\ r.puts = puts /\ r.iput = "no"

LEMMA IdleFields == \A s : IsIdle(Idle(s), s)
BY DEF IsIdle, Idle

IsBad(e, r, puts) ==
    /\ e \in CallType /\ CallOK(e) /\ e.pc = "bad" /\ e.call = "link2" /\ e.ip = 0
    /\ e.held = r.held /\ e.puts = puts /\ e.iput = "no"

LEMMA FailOK ==
    ASSUME NEW r \in CallType, CallOK(r), r.call = "link2", r.iput = "no", NEW d \in Inode
    PROVE  IsBad(Fail(r, <<d>>), r, <<d>>)
<1>. SUFFICES ASSUME NEW e, e = [r EXCEPT !.pc = "bad", !.ip = 0, !.rest = <<>>, !.puts = <<d>>]
              PROVE  IsBad(e, r, <<d>>)
  BY DEF Fail
<1>1. e.puts = <<d>> /\ e.pc = "bad" /\ e.call = r.call /\ e.ip = 0 /\ e.held = r.held
      /\ e.rest = <<>> /\ e.iput = "no" /\ e.new = r.new
  BY DEF CallType
<1>2. e.puts \in Seq(Inode) /\ Len(e.puts) = 1 BY <1>1
<1>3. <<>> \in Seq(Names) /\ <<>> \in Seq(Entries) OBVIOUS
<1>4. CallOK(e) BY <1>1, <1>2, <1>3 DEF CallOK
<1>5. e \in CallType BY <1>1, <1>2, <1>3, Consts DEF CallType
<1>. QED BY <1>1, <1>4, <1>5 DEF IsBad

LEMMA IdleOK ==
    ASSUME NEW a \in Inode, NEW b \in Inode
    PROVE  /\ Idle(<<>>) \in CallType /\ CallOK(Idle(<<>>)) /\ Len(Idle(<<>>).puts) = 0
           /\ Idle(<<a>>) \in CallType /\ CallOK(Idle(<<a>>)) /\ Len(Idle(<<a>>).puts) = 1
           /\ Idle(<<a, b>>) \in CallType /\ CallOK(Idle(<<a, b>>))
           /\ Len(Idle(<<a, b>>).puts) = 2
           /\ Len(Idle(<<>>).puts) <= 2 /\ Len(Idle(<<a>>).puts) <= 2
           /\ Len(Idle(<<a, b>>).puts) <= 2
<1>1. 0 \in 0 .. NINODES BY Consts
<1>2. <<>> \in Seq(Inode) /\ <<a>> \in Seq(Inode) /\ <<a, b>> \in Seq(Inode) OBVIOUS
<1>3. <<>> \in Seq(Names) /\ <<>> \in Seq(Entries) OBVIOUS
<1>4. Len(<<>>) = 0 /\ Len(<<a>>) = 1 /\ Len(<<a, b>>) = 2 OBVIOUS
<1>5. \A s \in Seq(Inode) : Idle(s) \in CallType BY <1>1, <1>3 DEF Idle, CallType
<1>6. \A s \in Seq(Inode) : CallOK(Idle(s)) /\ Idle(s).puts = s
  BY <1>3 DEF Idle, CallOK, Parent, CreateCalls
<1>7. /\ Idle(<<>>) \in CallType /\ CallOK(Idle(<<>>)) /\ Len(Idle(<<>>).puts) = 0
      /\ Idle(<<a>>) \in CallType /\ CallOK(Idle(<<a>>)) /\ Len(Idle(<<a>>).puts) = 1
      /\ Idle(<<a, b>>) \in CallType /\ CallOK(Idle(<<a, b>>))
      /\ Len(Idle(<<a, b>>).puts) = 2
  BY <1>2, <1>4, <1>5, <1>6
<1>8. \A n \in {0, 1, 2} : n <= 2 OBVIOUS
<1>. QED BY <1>7, <1>8

\* The inodes that p reads in, if it reads one.
Reading(p) == UNCHANGED mem \/ (\E i \in Inode : lock[i] = 0 /\ Load(i) /\ ref'[i] > 0 /\ Good(p, i))

\* A step of a call that only reads the disk and takes no lock.
LEMMA QuietStep ==
    ASSUME NEW p \in Proc, Inv, pr[p].puts = <<>>, pr[p].pc \notin {"init", "unlink"},
           UNCHANGED <<disk, lock, used, lost>>, Reading(p),
           NEW r \in CallType, pr' = [pr EXCEPT ![p] = r], CallOK(r), Len(r.puts) <= 2,
           r.pc \notin {"init", "unlink"}, r.iput = "no",
           cwd' \in [Proc -> Inode], file' \in [Proc -> FileType], ref' \in [Inode -> Nat],
           \A q \in Proc \ {p} : cwd'[q] = cwd[q] /\ file'[q] = file[q],
           \A i \in Inode : ref'[i] = ref[i] - Uses(p, i) + Uses(p, i)',
           \A i \in Inode : ref'[i] >= ref[i],
           Good(p, cwd'[p]), Good(p, file'[p].ip), Good(p, r.ip), Good(p, r.held),
           Good(p, Put(p, 1)'), Good(p, Put(p, 2)'),
           LinkOf(p)' = LinkOf(p), WorkOK(p)'
    PROVE  Inv'
<1>t. TypeOK /\ CallInv BY DEF Inv
<1>1. pr'[p] = r /\ \A q \in Proc \ {p} : pr'[q] = pr[q] BY <1>t DEF TypeOK
<1>2. Move(p) BY <1>1 DEF Move
<1>3. Len(pr[p].puts) = 0 /\ pr[p].iput = "no"
  <2>1. Put(p, 1) = 0 /\ ~(0 \in Inode) BY PutValues, Consts
  <2>. QED BY <1>t, <2>1, ProcTypes
<1>4. \E S : /\ Wrote(S)
             /\ \A i \in S : lock[i] \in {0, p} /\ Good(p, i) /\ i # 0
  <2>1. CASE UNCHANGED mem BY <2>1, WroteNone
  <2>2. CASE ~(UNCHANGED mem)
    <3>1. PICK i \in Inode : lock[i] = 0 /\ Load(i) /\ ref'[i] > 0 /\ Good(p, i)
      BY <2>2 DEF Reading
    <3>2. Wrote({i}) BY <1>3, <3>1, LoadWrites
    <3>. QED BY <3>1, <3>2, Consts
  <2>. QED BY <2>1, <2>2
<1>5. PICK S : /\ Wrote(S)
               /\ \A i \in S : lock[i] \in {0, p} /\ Good(p, i) /\ i # 0
  BY <1>4
<1>6. \A i \in S : /\ lock[i] \in {0, p} /\ Plain(p, i)
                   /\ disk[i].type # "FREE" /\ disk'[i].type = disk[i].type
  BY <1>5 DEF Good
<1>7. TypeOK'
  <2>1. mem' \in [Inode -> InodeType \cup {NoCopy}]
    <3>1. CASE UNCHANGED mem BY <1>t, <3>1 DEF TypeOK
    <3>2. CASE ~(UNCHANGED mem)
      <4>1. PICK i \in Inode : lock[i] = 0 /\ Load(i) BY <3>2 DEF Reading
      <4>2. Ino(i) \in InodeType BY <1>3, <4>1, Current DEF Inv
      <4>. QED BY <1>t, <4>1, <4>2 DEF Load, TypeOK
    <3>. QED BY <3>1, <3>2
  <2>2. pr' \in [Proc -> CallType] /\ \A q \in Proc : Len(pr'[q].puts) <= 2
    BY <1>t, <1>1 DEF TypeOK
  <2>. QED BY <1>t, <2>1, <2>2 DEF TypeOK, FileType
<1>8. LockInv'
  <2>1. Len(pr[p].puts) = 0 /\ LockInv BY <1>3 DEF Inv
  <2>2. pr'[p].pc \notin {"init", "unlink"} /\ pr'[p].iput = "no" BY <1>1
  <2>. QED BY <1>t, <1>2, <2>1, <2>2, LockKeep
<1>9. DiskInv' /\ TreeInv' /\ LinkInv' /\ BlocksOK(disk', used')
  BY <1>2, Reads
<1>10. CallOK(pr'[p]) /\ pr'[p].pc # "init" /\ pr'[p].iput = "no"
       /\ Good(p, pr'[p].ip) /\ Good(p, pr'[p].held) /\ pr[p].pc # "init"
  BY <1>1
<1>. QED BY <1>2, <1>3, <1>5, <1>6, <1>7, <1>8, <1>9, <1>10, CallStep

----------------------------------------------------------------------------
(* namex()                                                                 *)

\* The name that a call looks up in its directory.
LEMMA Lookup ==
    ASSUME Inv, NEW p \in Proc, NEW d \in Inode, NEW rest, rest \in Seq(Names), rest # <<>>
    PROVE  LET next == disk[d].ents[Head(rest)] IN
           /\ Head(rest) \in Names /\ Tail(rest) \in Seq(Names) /\ Len(Tail(rest)) = Len(rest) - 1
           /\ <<d, Head(rest)>> \in Name
           /\ next \in Inode \cup {0}
           /\ next # 0 => /\ NameIn(<<d, Head(rest)>>) = next
                          /\ disk[next].nlink > 0 /\ disk[next].type # "FREE"
                          /\ Good(p, next) /\ disk[d].type = "DIR"
<1>. DEFINE n == Head(rest)
            next == disk[d].ents[n]
<1>1. n \in Names /\ Tail(rest) \in Seq(Names) /\ Len(Tail(rest)) = Len(rest) - 1
  BY HeadTailProperties
<1>2. <<d, n>> \in Name BY <1>1 DEF Name
<1>3. next \in Inode \cup {0}
  <2>1. disk[d] \in InodeType /\ n \in Entries BY <1>1, Consts DEF Inv, TypeOK
  <2>. HIDE DEF n
  <2>. QED BY <2>1, Consts DEF InodeType
<1>4. ASSUME next # 0
      PROVE  /\ NameIn(<<d, n>>) = next
             /\ disk[next].nlink > 0 /\ disk[next].type # "FREE" /\ Good(p, next)
             /\ disk[d].type = "DIR"
  <2>1. disk[d].ents # NoEnts BY <1>1, <1>4, Consts DEF NoEnts
  <2>2. disk[d].type = "DIR" BY <2>1 DEF Inv, DiskInv
  <2>3. NameIn(<<d, n>>) = next BY <2>2 DEF NameIn
  <2>4. disk[next].nlink > 0 /\ disk[next].type # "FREE" BY <1>2, <1>4, <2>3, NamedInode DEF Inv
  <2>5. Plain(p, next)
    <3>1. next \in Inode /\ disk[next].nlink # 0 BY <1>3, <1>4, <2>4
    <3>. HIDE DEF next
    <3>. QED BY <3>1, LinkedPlain DEF Inv
  <2>. QED BY <1>3, <1>4, <2>2, <2>3, <2>4, <2>5 DEF Good
<1>. QED BY <1>1, <1>2, <1>3, <1>4

\* A call that is on its way with no reference to put.
Walking(p, r) ==
    /\ r \in CallType /\ CallOK(r) /\ r.pc = "walk" /\ r.puts = <<>> /\ r.iput = "no"
    /\ Good(p, r.ip) /\ r.ip # 0 /\ r.held = pr[p].held
    /\ r.call = "link2" <=> pr[p].call = "link2"

\* What WalkStep makes of it.
WalkEnds(e, r) ==
    \/ e = r
    \/ e = Fail(r, <<r.ip>>)
    \/ e = [r EXCEPT !.pc = "at"] /\ Parent(r.call) /\ Len(r.rest) = 1

WalkedOK(p, e, r) ==
    /\ e \in CallType /\ CallOK(e) /\ Len(e.puts) <= 2
    /\ e.pc \notin {"init", "unlink"} /\ e.iput = "no"
    /\ e.call = "link2" <=> r.call = "link2"
    /\ e.held = r.held
    /\ e.pc = "at" => e.ip = r.ip
    /\ \/ e.ip = r.ip /\ Put(p, 1)' = 0 /\ Put(p, 2)' = 0
       \/ e.ip = 0 /\ Put(p, 1)' = r.ip /\ Put(p, 2)' = 0

LEMMA FailEnds == \A r \in CallType : \A puts : Fail(r, puts).pc # "at"
BY DEF Fail, Idle, CallType

LEMMA WalkEndsOK ==
    ASSUME NEW p \in Proc, NEW r, NEW e, e = pr'[p], Walking(p, r), WalkEnds(e, r)
    PROVE  WalkedOK(p, e, r)
<1>. SUFFICES ASSUME NEW d \in Inode, r.ip = d PROVE WalkedOK(p, e, r)
  BY DEF Walking, Good
<1>1. d \in Inode OBVIOUS
<1>2. Len(r.puts) = 0 /\ r.puts = <<>> BY DEF Walking
<1>3. CASE e = r
  <2>1. Put(p, 1)' = 0 /\ Put(p, 2)' = 0 BY <1>2, <1>3, PutValues
  <2>. QED BY <1>2, <1>3, <2>1 DEF Walking, WalkedOK
<1>4. CASE e = [r EXCEPT !.pc = "at"] /\ Parent(r.call) /\ Len(r.rest) = 1
  <2>1. r \in CallType /\ CallOK(r) /\ r.pc = "walk" /\ r.iput = "no" BY DEF Walking
  <2>2. e.puts = <<>> /\ e.pc = "at" /\ e.call = r.call /\ e.ip = r.ip
        /\ e.held = r.held /\ e.rest = r.rest /\ e.iput = "no"
        /\ e.new = r.new
    BY <1>2, <1>4, <2>1 DEF CallType
  <2>3. Put(p, 1)' = 0 /\ Put(p, 2)' = 0 BY <2>2, PutValues
  <2>4. CallOK(e) BY <1>2, <1>4, <2>1, <2>2 DEF CallOK
  <2>5. e \in CallType BY <1>4, <2>1 DEF CallType
  <2>. QED BY <1>2, <2>2, <2>3, <2>4, <2>5 DEF WalkedOK
<1>5. CASE e = Fail(r, <<r.ip>>) /\ r.call # "link2"
  <2>1. e = Idle(<<d>>) BY <1>5 DEF Fail
  <2>i. IsIdle(e, <<d>>) BY <2>1, IdleFields
  <2>2. Put(p, 1)' = d /\ Put(p, 2)' = 0 BY <2>i, PutValues DEF IsIdle
  <2>4. r.held = 0 BY <1>5 DEF Walking, CallOK
  <2>5. e \in CallType /\ CallOK(e) /\ Len(e.puts) = 1 BY <1>1, <2>1, IdleOK
  <2>6. e.pc = "idle" /\ e.call = "none" /\ e.iput = "no" BY <2>i DEF IsIdle
  <2>7. e.ip = 0 BY <2>i DEF IsIdle
  <2>8. e.held = r.held BY <2>i, <2>4 DEF IsIdle
  <2>9. e.call = "link2" <=> r.call = "link2" BY <1>5, <2>6
  <2>10. Len(e.puts) <= 2 BY <2>5
  <2>11. Put(p, 1)' = r.ip BY <2>2
  <2>. QED BY <2>2, <2>5, <2>6, <2>7, <2>8, <2>9, <2>10, <2>11 DEF WalkedOK
<1>6. CASE e = Fail(r, <<r.ip>>) /\ r.call = "link2"
  <2>1. r \in CallType /\ CallOK(r) /\ r.iput = "no" BY DEF Walking
  <2>2. IsBad(e, r, <<d>>) BY <1>6, <2>1, FailOK
  <2>3. Put(p, 1)' = d /\ Put(p, 2)' = 0 BY <2>2, PutValues DEF IsBad
  <2>4. Len(<<d>>) = 1 OBVIOUS
  <2>6. e.pc = "bad" /\ e.call = "link2" /\ e.iput = "no" BY <2>2 DEF IsBad
  <2>7. e.ip = 0 BY <2>2 DEF IsBad
  <2>8. e.held = r.held BY <2>2 DEF IsBad
  <2>9. e.call = "link2" <=> r.call = "link2" BY <1>6, <2>6
  <2>10. Len(e.puts) <= 2 BY <2>4, <2>2 DEF IsBad
  <2>11. Put(p, 1)' = r.ip BY <2>3
  <2>12. e \in CallType /\ CallOK(e) BY <2>2 DEF IsBad
  <2>. QED BY <2>3, <2>12, <2>6, <2>7, <2>8, <2>9, <2>10, <2>11 DEF WalkedOK
<1>. QED BY <1>3, <1>4, <1>5, <1>6 DEF WalkEnds

\* What the call works on, after a step that only reads.
LEMMA WorkQuiet ==
    ASSUME WorkInv, NEW p \in Proc, NEW e, e = pr'[p], UNCHANGED disk,
           e.pc \notin {"init", "unlink"}, e.pc = "at" => disk[e.ip].type = "DIR",
           e.call = "link2" => pr[p].call = "link2" /\ e.held = pr[p].held
    PROVE  WorkOK(p)'
<1>1. WorkOK(p) BY DEF WorkInv
<1>. QED BY <1>1 DEF WorkOK

LEMMA WalkKeeps ==
    ASSUME Inv, NEW p \in Proc, NEW r, NEW refs \in [Inode -> Nat], Walking(p, r),
           pr[p].puts = <<>>, pr[p].pc \notin {"init", "unlink"},
           \A i \in Inode : refs[i] = ref[i] - One(pr[p].ip, i) + One(r.ip, i),
           \A i \in Inode : refs[i] >= ref[i], refs[r.ip] > 0, WalkStep(p, r, refs)
    PROVE  Inv'
<1>. DEFINE e == pr'[p]
            next == Ino(r.ip).ents[Head(r.rest)]
<1>t. TypeOK /\ CallInv /\ WorkInv BY DEF Inv
<1>u. UNCHANGED <<disk, lock, used, lost, cwd, file>> BY DEF WalkStep, Files
<1>1. /\ r \in CallType /\ CallOK(r) /\ r.ip \in Inode /\ Good(p, r.ip) /\ r.iput = "no"
      /\ r.puts = <<>> /\ r.pc = "walk" /\ r.held = pr[p].held
      /\ r.call = "link2" <=> pr[p].call = "link2"
  BY DEF Walking, Good
<1>2. pr' = [pr EXCEPT ![p] = e] /\ pr[p].iput = "no"
  <2>1. pr' = [pr EXCEPT ![p] = e] BY <1>t DEF WalkStep, TypeOK
  <2>2. Put(p, 1) = 0 /\ ~(0 \in Inode) BY PutValues, Consts
  <2>. QED BY <1>t, <2>1, <2>2, ProcTypes
<1>3. lock[r.ip] = 0 => Ino(r.ip) = disk[r.ip] BY <1>1, <1>2, Current DEF Inv
<1>4. Good(p, cwd[p]) /\ Good(p, file[p].ip) /\ Good(p, pr[p].held) BY OwnGood, <1>2
<1>5. cwd[p] \in Inode /\ cwd \in [Proc -> Inode] /\ file \in [Proc -> FileType]
  BY <1>t DEF TypeOK, FileType
<1>6. Put(p, 1) = 0 /\ Put(p, 2) = 0 BY PutValues
<1>7. \A i \in Inode : ref[i] \in Nat /\ refs[i] \in Nat BY <1>t DEF TypeOK
<1>8. Good(p, 0) BY DEF Good
<1>9. ASSUME NEW d \in Inode, d = r.ip, WalkEnds(e, r), ref' = refs, Reading(p),
             e.pc = "at" => disk[d].type = "DIR"
      PROVE  Inv'
  <2>1. WalkedOK(p, e, r)
    <3>. HIDE DEF e
    <3>1. e = pr'[p] BY DEF e
    <3>. QED BY <1>9, <3>1, WalkEndsOK
  <2>2. e \in CallType /\ CallOK(e) /\ Len(e.puts) <= 2 /\ e.pc \notin {"init", "unlink"}
        /\ e.iput = "no" /\ e.held = pr[p].held
    BY <1>1, <2>1 DEF WalkedOK
  <2>3. e.call = "link2" <=> pr[p].call = "link2" BY <1>1, <2>1 DEF WalkedOK
  <2>4. e.pc = "at" => e.ip = d BY <1>9, <2>1 DEF WalkedOK
  <2>5. \/ e.ip = d /\ Put(p, 1)' = 0 /\ Put(p, 2)' = 0
        \/ e.ip = 0 /\ Put(p, 1)' = d /\ Put(p, 2)' = 0
    BY <1>9, <2>1 DEF WalkedOK
  <2>6. Good(p, d) /\ Good(p, e.ip) /\ Good(p, Put(p, 1)') /\ Good(p, Put(p, 2)')
    BY <1>1, <1>8, <1>9, <2>5
  <2>7. \A i \in Inode : ref'[i] = ref[i] - Uses(p, i) + Uses(p, i)'
    BY <1>u, <1>6, <1>7, <1>9, <2>2, <2>5 DEF Uses, One
  <2>8. WorkOK(p)'
    <3>1. e.pc = "at" => disk[e.ip].type = "DIR" BY <1>9, <2>4
    <3>2. e = pr'[p] OBVIOUS
    <3>. HIDE DEF e
    <3>. QED BY <1>t, <1>u, <2>2, <2>3, <3>1, <3>2, WorkQuiet
  <2>9. LinkOf(p)' = LinkOf(p) BY <2>2, <2>3 DEF LinkOf
  <2>10. ref' \in [Inode -> Nat] /\ \A i \in Inode : ref'[i] >= ref[i] BY <1>9
  <2>11. Good(p, cwd'[p]) /\ Good(p, file'[p].ip) /\ Good(p, e.held)
         /\ cwd' \in [Proc -> Inode] /\ file' \in [Proc -> FileType]
         /\ \A q \in Proc \ {p} : cwd'[q] = cwd[q] /\ file'[q] = file[q]
    BY <1>u, <1>4, <1>5, <2>2
  <2>. HIDE DEF e
  <2>. QED BY <1>u, <1>2, <1>9, <2>2, <2>6, <2>7, <2>8, <2>9, <2>10, <2>11, QuietStep
<1>10. ASSUME lock[r.ip] = 0, r.rest # <<>>, next # 0, disk[r.ip].type = "DIR", Load(r.ip),
              ~(Parent(r.call) /\ Len(r.rest) = 1), ref' = Iget(refs, next),
              e = [r EXCEPT !.ip = next, !.rest = Tail(@), !.puts = <<r.ip>>]
       PROVE  Inv'
  <2>1. r.rest \in Seq(Names) BY <1>1 DEF CallOK
  <2>2. next = disk[r.ip].ents[Head(r.rest)] BY <1>3, <1>10
  <2>3. /\ Tail(r.rest) \in Seq(Names) /\ next \in Inode /\ Good(p, next)
        /\ Len(Tail(r.rest)) = Len(r.rest) - 1
    <3>. HIDE DEF next
    <3>. QED BY <1>1, <1>10, <2>1, <2>2, Lookup
  <2>. SUFFICES ASSUME NEW d \in Inode, NEW i \in Inode, NEW f, d = r.ip, i = next, f = e
                PROVE  Inv'
    BY <1>1, <2>3
  <2>. HIDE DEF e, next
  <2>4. f = [r EXCEPT !.ip = i, !.rest = Tail(@), !.puts = <<d>>] BY <1>10
  <2>5. f.pc = "walk" /\ f.call = r.call /\ f.ip = i /\ f.rest = Tail(r.rest) /\ f.puts = <<d>>
        /\ f.held = r.held /\ f.new = r.new /\ f.iput = "no"
    BY <1>1, <2>4 DEF CallType
  <2>6. <<d>> \in Seq(Inode) /\ Len(<<d>>) = 1 OBVIOUS
  <2>7. CallOK(f) BY <1>1, <2>3, <2>5, <2>6, Consts DEF CallOK
  <2>8. f \in CallType
    <3>1. Tail(r.rest) \in Seq(Entries)
      <4>1. r.rest \in Seq(Entries) BY <1>1 DEF CallType
      <4>. QED BY <1>10, <4>1, HeadTailProperties
    <3>. QED BY <1>1, <2>4, <2>6, <3>1, Consts DEF CallType
  <2>9. pr'[p] = f BY DEF e
  <2>10. Put(p, 1)' = d /\ Put(p, 2)' = 0 BY <2>5, <2>9, PutValues
  <2>11. f.ip = i /\ f.held = pr[p].held BY <1>1, <2>5
  <2>12. \A j \in Inode : ref'[j] = refs[j] + One(i, j) BY <1>7, <1>10 DEF Iget, One
  <2>13. \A j \in Inode : ref'[j] = ref[j] - Uses(p, j) + Uses(p, j)'
    <3>. SUFFICES ASSUME NEW j \in Inode PROVE ref'[j] = ref[j] - Uses(p, j) + Uses(p, j)'
      OBVIOUS
    <3>1. refs[j] = ref[j] - One(pr[p].ip, j) + One(d, j) OBVIOUS
    <3>2. pr'[p].ip = i /\ pr'[p].held = pr[p].held BY <2>9, <2>11
    <3>3. Uses(p, j)' = One(cwd[p], j) + One(file[p].ip, j) + One(i, j) + One(pr[p].held, j)
                        + One(d, j) + One(0, j)
      BY <1>u, <2>10, <3>2 DEF Uses
    <3>4. \A a : One(a, j) \in Int BY DEF One
    <3>5. Uses(p, j) = One(cwd[p], j) + One(file[p].ip, j) + One(pr[p].ip, j)
                       + One(pr[p].held, j) + One(0, j) + One(0, j)
      BY <1>6 DEF Uses
    <3>6. One(0, j) = 0 BY Consts DEF One
    <3>7. ref[j] \in Int /\ ref'[j] = refs[j] + One(i, j) BY <1>7, <2>12
    <3>. QED BY ONLY <3>1, <3>3, <3>4, <3>5, <3>6, <3>7
  <2>14. ref' \in [Inode -> Nat] /\ \A j \in Inode : ref'[j] >= refs[j] /\ ref'[j] >= ref[j]
    BY <1>7, <1>10 DEF Iget
  <2>15. Reading(p)
    <3>1. ref'[d] > 0 BY <1>7, <2>14
    <3>. QED BY <1>1, <1>10, <3>1 DEF Reading
  <2>16. WorkOK(p)'
    <3>1. f.pc = "walk" /\ (f.call = "link2" => pr[p].call = "link2") BY <1>1, <2>5
    <3>. QED BY <1>t, <1>u, <2>9, <2>11, <3>1, WorkQuiet
  <2>17. LinkOf(p)' = LinkOf(p)
    <3>1. f.call = "link2" <=> pr[p].call = "link2" BY <1>1, <2>5
    <3>. QED BY <2>9, <2>11, <3>1 DEF LinkOf
  <2>18. Good(p, cwd'[p]) /\ Good(p, file'[p].ip) /\ Good(p, f.held)
         /\ cwd' \in [Proc -> Inode] /\ file' \in [Proc -> FileType]
         /\ \A q \in Proc \ {p} : cwd'[q] = cwd[q] /\ file'[q] = file[q]
    BY <1>u, <1>4, <1>5, <2>11
  <2>19. Good(p, f.ip) /\ Good(p, Put(p, 1)') /\ Good(p, Put(p, 2)')
    BY <1>1, <1>8, <2>3, <2>10, <2>11
  <2>20. pr' = [pr EXCEPT ![p] = f] /\ Len(f.puts) <= 2 /\ f.pc \notin {"init", "unlink"}
         /\ f.iput = "no"
    BY <1>2, <2>5, <2>6
  <2>. QED BY <1>u, <2>7, <2>8, <2>13, <2>14, <2>15, <2>16, <2>17, <2>18, <2>19, <2>20,
              QuietStep
<1>11. \/ /\ r.rest = <<>>
          /\ e = IF Parent(r.call) THEN Fail(r, <<r.ip>>) ELSE r
          /\ ref' = refs /\ UNCHANGED mem
       \/ /\ r.rest # <<>> /\ lock[r.ip] = 0 /\ Load(r.ip)
          /\ \/ e = Fail(r, <<r.ip>>) /\ ref' = refs
             \/ /\ Ino(r.ip).type = "DIR" /\ Parent(r.call) /\ Len(r.rest) = 1
                /\ e = [r EXCEPT !.pc = "at"] /\ ref' = refs
             \/ /\ Ino(r.ip).type = "DIR" /\ ~(Parent(r.call) /\ Len(r.rest) = 1) /\ next # 0
                /\ e = [r EXCEPT !.ip = next, !.rest = Tail(@), !.puts = <<r.ip>>]
                /\ ref' = Iget(refs, next)
  BY <1>t DEF WalkStep, Elem, TypeOK
<1>12. CASE r.rest = <<>> /\ UNCHANGED mem /\ ref' = refs
            /\ e = IF Parent(r.call) THEN Fail(r, <<r.ip>>) ELSE r
  <2>1. WalkEnds(e, r) BY <1>12 DEF WalkEnds
  <2>2. Reading(p) BY <1>12 DEF Reading
  <2>3. e.pc # "at"
    <3>1. CASE e = r BY <1>1, <3>1
    <3>2. CASE e = Fail(r, <<r.ip>>) BY <1>1, <3>2, FailEnds
    <3>. QED BY <1>12, <3>1, <3>2
  <2>. QED BY <1>1, <1>9, <1>12, <2>1, <2>2, <2>3
<1>13. CASE r.rest # <<>> /\ lock[r.ip] = 0 /\ Load(r.ip) /\ ref' = refs
            /\ e = Fail(r, <<r.ip>>)
  <2>1. WalkEnds(e, r) BY <1>13 DEF WalkEnds
  <2>2. Reading(p) BY <1>1, <1>13 DEF Reading
  <2>3. e.pc # "at" BY <1>1, <1>13, FailEnds
  <2>. QED BY <1>1, <1>9, <1>13, <2>1, <2>2, <2>3
<1>14. CASE r.rest # <<>> /\ lock[r.ip] = 0 /\ Load(r.ip) /\ ref' = refs
            /\ Ino(r.ip).type = "DIR" /\ Parent(r.call) /\ Len(r.rest) = 1
            /\ e = [r EXCEPT !.pc = "at"]
  <2>1. WalkEnds(e, r) BY <1>14 DEF WalkEnds
  <2>2. Reading(p) BY <1>1, <1>14 DEF Reading
  <2>3. disk[r.ip].type = "DIR" BY <1>3, <1>14
  <2>. QED BY <1>1, <1>9, <1>14, <2>1, <2>2, <2>3
<1>15. CASE r.rest # <<>> /\ lock[r.ip] = 0 /\ Load(r.ip)
            /\ Ino(r.ip).type = "DIR" /\ ~(Parent(r.call) /\ Len(r.rest) = 1) /\ next # 0
            /\ e = [r EXCEPT !.ip = next, !.rest = Tail(@), !.puts = <<r.ip>>]
            /\ ref' = Iget(refs, next)
  BY <1>3, <1>10, <1>15
<1>. HIDE DEF e, next
<1>. QED BY <1>11, <1>12, <1>13, <1>14, <1>15

LEMMA Unfreed ==
    ASSUME TypeOK, CallInv, NEW p \in Proc, pr[p].puts = <<>>
    PROVE  pr[p].iput = "no" /\ Put(p, 1) = 0 /\ Put(p, 2) = 0
<1>1. Put(p, 1) = 0 /\ Put(p, 2) = 0 /\ ~(0 \in Inode) BY PutValues, Consts
<1>. QED BY <1>1, ProcTypes

LEMMA WalkStepKeeps == ASSUME Inv, NEW p \in Proc, Walk(p) PROVE Inv'
<1>t. TypeOK /\ CallInv BY DEF Inv
<1>1. pr[p].pc = "walk" /\ pr[p].puts = <<>> /\ WalkStep(p, pr[p], ref) BY DEF Walk
<1>2. pr[p].iput = "no" BY <1>t, <1>1, Unfreed
<1>3. pr[p] \in CallType /\ CallOK(pr[p]) /\ pr[p].ip \in Inode \cup {0} BY <1>t, ProcTypes
<1>4. Good(p, pr[p].ip) BY OwnGood
<1>5. pr[p].ip # 0 /\ pr[p].iput = "no" BY <1>1, <1>2, <1>3 DEF CallOK, CallType
<1>6. Walking(p, pr[p]) BY <1>1, <1>3, <1>4, <1>5 DEF Walking
<1>7. ref \in [Inode -> Nat] /\ ref[pr[p].ip] > 0 BY <1>t, <1>5, OwnCounted DEF TypeOK
<1>8. \A i \in Inode : ref[i] = ref[i] - One(pr[p].ip, i) + One(pr[p].ip, i) /\ ref[i] >= ref[i]
  BY <1>7 DEF One
<1>9. pr[p].pc \notin {"init", "unlink"} BY <1>1
<1>. QED BY <1>1, <1>6, <1>7, <1>8, <1>9, WalkKeeps

LEMMA BeginKeeps ==
    ASSUME NoDots, Inv, NEW p \in Proc, NEW call \in Calls, NEW start \in {ROOTINO, cwd[p]},
           NEW path \in Paths, NEW new \in Paths \cup {<<>>}, Begin(p, call, start, path, new)
    PROVE  Inv'
<1>. DEFINE rr == [Idle(<<>>) EXCEPT !.pc = "walk", !.call = call, !.ip = start,
                                    !.rest = path, !.new = new]
<1>t. TypeOK /\ CallInv BY DEF Inv
<1>0. pr[p].pc = "idle" /\ pr[p].puts = <<>> /\ WalkStep(p, rr, Iget(ref, start))
  BY DEF Begin, AtRest
<1>1. /\ pr[p].ip = 0 /\ pr[p].call = "none" /\ pr[p].held = 0
  <2>1. CallOK(pr[p]) BY <1>t, ProcTypes
  <2>. QED BY <1>0, <2>1 DEF CallOK
<1>2. start \in Inode /\ Good(p, start)
  <2>1. cwd[p] \in Inode /\ Good(p, cwd[p]) BY <1>t, ProcTypes, OwnGood
  <2>2. ROOTINO \in Inode /\ Good(p, ROOTINO)
    <3>1. disk[ROOTINO].nlink > 0 /\ disk[ROOTINO].type = "DIR" BY RootLinked DEF Inv
    <3>2. Plain(p, ROOTINO) BY <3>1, Consts, LinkedPlain DEF Inv
    <3>. QED BY <3>1, <3>2, Consts DEF Good
  <2>. QED BY <2>1, <2>2
<1>3. call \notin {"none", "link2"} /\ call \in Calls BY InodesAssumption
<1>4. path \in Seq(Names) /\ new \in Seq(Names)
  <2>1. <<>> \in Seq(Names) OBVIOUS
  <2>. QED BY <2>1 DEF NoDots
<1>5. path \in Seq(Entries) /\ new \in Seq(Entries)
  <2>1. <<>> \in Seq(Entries) OBVIOUS
  <2>2. Paths \subseteq Seq(Entries) BY InodesAssumption DEF Entries, Dots
  <2>. QED BY <2>1, <2>2
<1>6. /\ rr.pc = "walk" /\ rr.call = call /\ rr.ip = start /\ rr.rest = path /\ rr.new = new
      /\ rr.held = 0 /\ rr.puts = <<>> /\ rr.iput = "no"
  BY DEF Idle
<1>7. rr \in CallType
  <2>1. Idle(<<>>) \in CallType BY IdleOK, <1>2
  <2>. QED BY <1>2, <1>3, <1>5, <2>1, Consts DEF CallType
<1>8. CallOK(rr)
  <2>. SUFFICES ASSUME NEW r, r = rr PROVE CallOK(r) OBVIOUS
  <2>1. /\ r.pc = "walk" /\ r.call = call /\ r.ip = start /\ r.rest = path /\ r.new = new
        /\ r.held = 0 /\ r.puts = <<>> /\ r.iput = "no"
    BY <1>6
  <2>. HIDE DEF rr
  <2>2. r.rest \in Seq(Names) /\ r.new \in Seq(Names) BY <1>4, <2>1
  <2>3. r.ip # 0 BY <1>2, <2>1, Consts
  <2>4. ~(r.held # 0) BY <2>1
  <2>5. r.pc = "walk" /\ r.call # "link2" /\ r.iput = "no" BY <1>3, <2>1
  <2>6. Len(r.puts) <= 1 BY <2>1
  <2>. QED BY <2>2, <2>3, <2>4, <2>5, <2>6 DEF CallOK
<1>9. Walking(p, rr)
  <2>1. rr.ip # 0 BY <1>2, <1>6, Consts
  <2>. HIDE DEF rr
  <2>. QED BY <1>1, <1>2, <1>3, <1>6, <1>7, <1>8, <2>1 DEF Walking
<1>10. /\ Iget(ref, start) \in [Inode -> Nat] /\ Iget(ref, start)[rr.ip] > 0
       /\ \A i \in Inode : /\ Iget(ref, start)[i] = ref[i] - One(pr[p].ip, i) + One(rr.ip, i)
                           /\ Iget(ref, start)[i] >= ref[i]
  <2>1. ref \in [Inode -> Nat] BY <1>t DEF TypeOK
  <2>2. rr.ip = start BY <1>6
  <2>. HIDE DEF rr
  <2>3. \A i \in Inode : Iget(ref, start)[i] = ref[i] + One(rr.ip, i) /\ ref[i] \in Nat
    BY <1>2, <2>1, <2>2 DEF Iget, One
  <2>4. \A i \in Inode : One(pr[p].ip, i) = 0 BY <1>1, Consts DEF One
  <2>5. \A i \in Inode : One(rr.ip, i) \in Nat BY DEF One
  <2>6. One(rr.ip, start) = 1 BY <2>2 DEF One
  <2>7. Iget(ref, start) \in [Inode -> Nat] BY <1>2, <2>1 DEF Iget
  <2>8. ref[start] + One(rr.ip, start) > 0 BY <1>2, <2>1, <2>6
  <2>. QED BY <1>2, <2>2, <2>3, <2>4, <2>5, <2>7, <2>8
<1>11. pr[p].pc \notin {"init", "unlink"} BY <1>0
<1>. HIDE DEF rr
<1>. QED BY <1>0, <1>9, <1>10, <1>11, WalkKeeps

----------------------------------------------------------------------------
(* Calls that return without a change to the disk                          *)

LEMMA QuietReturn ==
    ASSUME Inv, NEW p \in Proc, pr[p].puts = <<>>, pr[p].pc \notin {"init", "unlink"},
           pr[p].call # "link2", UNCHANGED <<disk, lock, used, lost, ref>>, Reading(p),
           NEW a \in Inode \cup {0}, Return(p, IF a = 0 THEN <<>> ELSE <<a>>), Good(p, a),
           cwd' \in [Proc -> Inode], file' \in [Proc -> FileType],
           \A q \in Proc \ {p} : cwd'[q] = cwd[q] /\ file'[q] = file[q],
           Good(p, cwd'[p]), Good(p, file'[p].ip),
           \A i \in Inode : One(cwd[p], i) + One(file[p].ip, i) + One(pr[p].ip, i)
                            = One(cwd'[p], i) + One(file'[p].ip, i) + One(a, i)
    PROVE  Inv'
<1>t. TypeOK /\ CallInv /\ WorkInv BY DEF Inv
<1>. DEFINE s == IF a = 0 THEN <<>> ELSE <<a>>
<1>. SUFFICES ASSUME NEW e, e = Idle(s) PROVE Inv' OBVIOUS
<1>1. pr' = [pr EXCEPT ![p] = e] /\ pr'[p] = e BY <1>t DEF Return, TypeOK
<1>2. e \in CallType /\ CallOK(e) /\ Len(e.puts) <= 2
  <2>1. CASE a = 0
    <3>1. e = Idle(<<>>) BY <2>1
    <3>2. ROOTINO \in Inode BY Consts
    <3>3. e \in CallType /\ CallOK(e) BY <3>1, <3>2, IdleOK
    <3>4. Len(e.puts) <= 2 BY <3>1, <3>2, IdleOK
    <3>. QED BY <3>3, <3>4
  <2>2. CASE a # 0
    <3>1. e = Idle(<<a>>) /\ a \in Inode BY <2>2
    <3>2. e \in CallType /\ CallOK(e) BY <3>1, IdleOK
    <3>3. Len(e.puts) <= 2 BY <3>1, IdleOK
    <3>. QED BY <3>2, <3>3
  <2>. QED BY <2>1, <2>2
<1>3. IsIdle(e, s) BY IdleFields
<1>. HIDE DEF s
<1>4. e.pc = "idle" /\ e.call = "none" /\ e.iput = "no" BY <1>3 DEF IsIdle
<1>5. e.ip = 0 /\ e.held = 0 BY <1>3 DEF IsIdle
<1>6. Put(p, 1)' = a /\ Put(p, 2)' = 0
  <2>1. pr'[p].puts = s BY <1>1, <1>3 DEF IsIdle
  <2>. QED BY <2>1, PutValues DEF s
<1>7. Put(p, 1) = 0 /\ Put(p, 2) = 0 BY <1>t, Unfreed
<1>8. pr[p].held = 0
  <2>1. CallOK(pr[p]) BY <1>t, ProcTypes
  <2>. QED BY <2>1 DEF CallOK
<1>9. \A i \in Inode : ref'[i] = ref[i] - Uses(p, i) + Uses(p, i)' /\ ref'[i] >= ref[i]
  <2>. SUFFICES ASSUME NEW i \in Inode
                PROVE  ref'[i] = ref[i] - Uses(p, i) + Uses(p, i)' /\ ref'[i] >= ref[i]
    OBVIOUS
  <2>1. Uses(p, i) = One(cwd[p], i) + One(file[p].ip, i) + One(pr[p].ip, i)
                     + One(0, i) + One(0, i) + One(0, i)
    BY <1>7, <1>8 DEF Uses
  <2>2. Uses(p, i)' = One(cwd'[p], i) + One(file'[p].ip, i) + One(0, i)
                      + One(0, i) + One(a, i) + One(0, i)
    BY <1>1, <1>5, <1>6 DEF Uses
  <2>3. /\ One(cwd[p], i) \in Int /\ One(file[p].ip, i) \in Int /\ One(pr[p].ip, i) \in Int
        /\ One(cwd'[p], i) \in Int /\ One(file'[p].ip, i) \in Int /\ One(a, i) \in Int
        /\ One(0, i) = 0
    BY Consts DEF One
  <2>4. ref[i] \in Nat /\ ref'[i] = ref[i] BY <1>t DEF TypeOK
  <2>5. One(cwd[p], i) + One(file[p].ip, i) + One(pr[p].ip, i)
                            = One(cwd'[p], i) + One(file'[p].ip, i) + One(a, i)
    OBVIOUS
  <2>. QED BY <2>1, <2>2, <2>3, <2>4, <2>5
<1>10. Good(p, 0) /\ ref' \in [Inode -> Nat] BY <1>t DEF Good, TypeOK
<1>11. WorkOK(p)' BY <1>t, <1>1, <1>4, WorkQuiet
<1>12. LinkOf(p)' = LinkOf(p) BY <1>1, <1>4 DEF LinkOf
<1>13. e.pc \notin {"init", "unlink"} BY <1>4
<1>. QED BY <1>1, <1>2, <1>4, <1>5, <1>6, <1>9, <1>10, <1>11, <1>12, <1>13, QuietStep

\* A call that can lock the inode it has come to.
LEMMA ArrivedOK ==
    ASSUME Inv, NEW p \in Proc, NEW calls, Arrived(p, calls)
    PROVE  /\ pr[p].puts = <<>> /\ pr[p].pc \in {"at", "walk"} /\ pr[p].call \in calls
           /\ pr[p].ip \in Inode /\ Good(p, pr[p].ip) /\ lock[pr[p].ip] = 0
           /\ Ino(pr[p].ip) = disk[pr[p].ip] /\ disk[pr[p].ip] \in InodeType /\ ref[pr[p].ip] > 0
           /\ pr[p].iput = "no"
           /\ pr[p].rest \in Seq(Names)
           /\ Parent(pr[p].call) => /\ pr[p].pc = "at" /\ Len(pr[p].rest) = 1 /\ pr[p].rest # <<>>
                                    /\ disk[pr[p].ip].type = "DIR"
<1>t. TypeOK /\ CallInv /\ LockInv /\ MemInv BY DEF Inv
<1>1. /\ pr[p].puts = <<>> /\ pr[p].pc \in {"at", "walk"} /\ pr[p].call \in calls
      /\ lock[pr[p].ip] = 0 /\ (Parent(pr[p].call) => pr[p].pc = "at")
  BY DEF Arrived
<1>2. pr[p].iput = "no" BY <1>t, <1>1, Unfreed
<1>3. CallOK(pr[p]) /\ pr[p].ip \in Inode \cup {0} BY <1>t, ProcTypes
<1>4. pr[p].ip # 0 /\ pr[p].rest \in Seq(Names) /\ (pr[p].pc = "at" => Len(pr[p].rest) = 1)
  BY <1>1, <1>3 DEF CallOK
<1>5. Good(p, pr[p].ip) /\ ref[pr[p].ip] > 0 BY <1>4, OwnGood, OwnCounted
<1>6. Ino(pr[p].ip) = disk[pr[p].ip] /\ disk[pr[p].ip] \in InodeType
  BY <1>t, <1>1, <1>2, <1>3, <1>4, Current
<1>7. pr[p].pc = "at" => disk[pr[p].ip].type = "DIR" BY DEF Inv, WorkInv, WorkOK
<1>8. Len(pr[p].rest) = 1 => pr[p].rest # <<>>
  <2>1. Len(<<>>) # 1 OBVIOUS
  <2>. QED BY <2>1
<1>. QED BY <1>1, <1>2, <1>3, <1>4, <1>5, <1>6, <1>7, <1>8

\* A call of one argument that gives up its inode.
LEMMA GiveUp ==
    ASSUME Inv, NEW p \in Proc, pr[p].puts = <<>>, pr[p].pc \notin {"init", "unlink"},
           pr[p].call # "link2", UNCHANGED <<disk, lock, used, lost, ref, cwd, file>>,
           pr[p].ip \in Inode, lock[pr[p].ip] = 0, Load(pr[p].ip), Return(p, <<pr[p].ip>>)
    PROVE  Inv'
<1>. SUFFICES ASSUME NEW a \in Inode, a = pr[p].ip PROVE Inv' OBVIOUS
<1>1. Good(p, a) /\ ref[a] > 0 BY OwnGood, OwnCounted, Consts
<1>2. Reading(p) BY <1>1 DEF Reading
<1>3. a # 0 /\ Return(p, IF a = 0 THEN <<>> ELSE <<a>>) BY Consts
<1>4. cwd' \in [Proc -> Inode] /\ file' \in [Proc -> FileType] BY DEF Inv, TypeOK
<1>5. Good(p, cwd'[p]) /\ Good(p, file'[p].ip) BY OwnGood
<1>6. \A i \in Inode : One(cwd[p], i) + One(file[p].ip, i) + One(pr[p].ip, i)
                       = One(cwd'[p], i) + One(file'[p].ip, i) + One(a, i)
  OBVIOUS
<1>7. \A q \in Proc \ {p} : cwd'[q] = cwd[q] /\ file'[q] = file[q] OBVIOUS
<1>. QED BY <1>1, <1>2, <1>3, <1>4, <1>5, <1>6, <1>7, QuietReturn

LEMMA ChdirKeeps == ASSUME Inv, NEW p \in Proc, Chdir(p) PROVE Inv'
<1>. DEFINE i == pr[p].ip
<1>1. /\ pr[p].puts = <<>> /\ pr[p].pc \in {"at", "walk"} /\ pr[p].call = "chdir"
      /\ i \in Inode /\ Good(p, i) /\ lock[i] = 0 /\ Ino(i) = disk[i] /\ ref[i] > 0
  BY ArrivedOK DEF Chdir
<1>2. UNCHANGED <<disk, ref, lock, used, file, lost>> /\ Load(i) BY DEF Chdir
<1>3. CASE Return(p, <<i>>) /\ UNCHANGED cwd BY <1>1, <1>2, <1>3, GiveUp
<1>4. CASE Return(p, <<cwd[p]>>) /\ cwd' = [cwd EXCEPT ![p] = i]
  <2>0. cwd \in [Proc -> Inode] /\ file \in [Proc -> FileType] BY DEF Inv, TypeOK
  <2>1. cwd'[p] = i /\ cwd' \in [Proc -> Inode] /\ \A q \in Proc \ {p} : cwd'[q] = cwd[q]
    BY <1>1, <1>4, <2>0
  <2>. SUFFICES ASSUME NEW a \in Inode, a = cwd[p] PROVE Inv' BY <2>0
  <2>2. Good(p, a) /\ Good(p, cwd'[p]) /\ Good(p, file'[p].ip) BY <1>1, <1>2, <2>1, OwnGood
  <2>3. Reading(p) BY <1>1, <1>2 DEF Reading
  <2>4. Return(p, IF a = 0 THEN <<>> ELSE <<a>>) BY <1>4, Consts
  <2>5. \A j \in Inode : One(cwd[p], j) + One(file[p].ip, j) + One(pr[p].ip, j)
                         = One(cwd'[p], j) + One(file'[p].ip, j) + One(a, j)
    BY <1>2, <2>1 DEF One
  <2>6. \A q \in Proc \ {p} : cwd'[q] = cwd[q] /\ file'[q] = file[q] BY <1>2, <2>1
  <2>. HIDE DEF i
  <2>. QED BY <1>1, <1>2, <2>0, <2>1, <2>2, <2>3, <2>4, <2>5, <2>6, QuietReturn
<1>. QED BY <1>3, <1>4 DEF Chdir

LEMMA CloseKeeps == ASSUME Inv, NEW p \in Proc, Close(p) PROVE Inv'
<1>t. TypeOK /\ CallInv BY DEF Inv
<1>1. pr[p].pc = "idle" /\ pr[p].puts = <<>> /\ file[p] # NoFile BY DEF Close, AtRest
<1>2. UNCHANGED <<disk, mem, ref, lock, used, cwd, lost>> BY DEF Close
<1>3. pr[p].ip = 0 /\ pr[p].call = "none"
  <2>1. CallOK(pr[p]) BY <1>t, ProcTypes
  <2>. QED BY <1>1, <2>1 DEF CallOK
<1>0. cwd \in [Proc -> Inode] /\ file \in [Proc -> FileType] BY <1>t DEF TypeOK
<1>4. file[p].ip \in Inode BY <1>0, <1>1 DEF FileType
<1>5. file'[p] = NoFile /\ file' \in [Proc -> FileType] /\ \A q \in Proc \ {p} : file'[q] = file[q]
  BY <1>0 DEF Close, FileType
<1>6. file'[p].ip = 0 BY <1>5 DEF NoFile
<1>. SUFFICES ASSUME NEW a \in Inode, a = file[p].ip PROVE Inv' BY <1>4
<1>7. Good(p, a) /\ Good(p, cwd'[p]) BY <1>2, OwnGood
<1>8. Good(p, file'[p].ip) BY <1>6 DEF Good
<1>9. Reading(p) BY <1>2 DEF Reading
<1>10. Return(p, IF a = 0 THEN <<>> ELSE <<a>>) BY Consts DEF Close
<1>11. \A j \in Inode : One(cwd[p], j) + One(file[p].ip, j) + One(pr[p].ip, j)
                        = One(cwd'[p], j) + One(file'[p].ip, j) + One(a, j)
  <2>. SUFFICES ASSUME NEW j \in Inode
                PROVE  One(cwd[p], j) + One(file[p].ip, j) + One(pr[p].ip, j)
                       = One(cwd'[p], j) + One(file'[p].ip, j) + One(a, j)
    OBVIOUS
  <2>1. One(pr[p].ip, j) = 0 /\ One(file'[p].ip, j) = 0 BY <1>3, <1>6, Consts DEF One
  <2>2. cwd'[p] = cwd[p] /\ One(cwd[p], j) \in Int /\ One(a, j) \in Int BY <1>2 DEF One
  <2>. QED BY <2>1, <2>2
<1>12. \A q \in Proc \ {p} : cwd'[q] = cwd[q] /\ file'[q] = file[q] BY <1>2, <1>5
<1>13. cwd' \in [Proc -> Inode] /\ pr[p].call # "link2" /\ pr[p].pc \notin {"init", "unlink"}
  BY <1>0, <1>1, <1>2, <1>3
<1>. QED BY <1>1, <1>2, <1>5, <1>7, <1>8, <1>9, <1>10, <1>11, <1>12, <1>13, QuietReturn

LEMMA ReadKeeps == ASSUME Inv, NEW p \in Proc, Read(p) PROVE Inv'
<1>t. TypeOK /\ CallInv /\ WorkInv BY DEF Inv
<1>. DEFINE i == file[p].ip
<1>1. pr[p].pc = "idle" /\ pr[p].puts = <<>> /\ file[p] # NoFile /\ lock[i] = 0 /\ Load(i)
  BY DEF Read, AtRest
<1>2. UNCHANGED <<disk, ref, lock, used, cwd, pr, lost>> BY DEF Read
<1>0. cwd \in [Proc -> Inode] /\ file \in [Proc -> FileType] BY <1>t DEF TypeOK
<1>3. file[p] \in [ip : Inode, off : 0 .. MAXFILE, writable : BOOLEAN] BY <1>0, <1>1 DEF FileType
<1>4. i \in Inode /\ i # 0 BY <1>3, Consts
<1>5. ref[i] > 0 /\ Good(p, i) BY <1>4, OwnGood, OwnCounted
<1>6. Reading(p) BY <1>1, <1>2, <1>4, <1>5 DEF Reading
<1>7. pr[p].iput = "no" /\ Put(p, 1) = 0 /\ Put(p, 2) = 0 BY <1>t, <1>1, Unfreed
<1>8. disk[i] \in InodeType /\ Ino(i) = disk[i] BY <1>1, <1>4, <1>7, Current DEF Inv
<1>9. file' = [file EXCEPT ![p].off = @ + Readi(Ino(i), @)] /\ Readi(Ino(i), file[p].off) > 0
  BY DEF Read
<1>10. file'[p] = [file[p] EXCEPT !.off = file[p].off + 1] /\ file[p].off + 1 \in 0 .. MAXFILE
       /\ \A q \in Proc \ {p} : file'[q] = file[q]
  <2>1. Ino(i).size \in 0 .. MAXFILE BY <1>8 DEF InodeType
  <2>2. file[p].off < Ino(i).size /\ Readi(Ino(i), file[p].off) = 1 BY <1>9 DEF Readi
  <2>3. file[p].off \in 0 .. MAXFILE BY <1>3
  <2>4. file[p].off + 1 \in 0 .. MAXFILE BY <2>1, <2>2, <2>3, Consts
  <2>. QED BY <1>0, <1>9, <2>2, <2>4
<1>11. file'[p].ip = i /\ file' \in [Proc -> FileType]
  <2>1. file'[p] \in [ip : Inode, off : 0 .. MAXFILE, writable : BOOLEAN] /\ file'[p].ip = i
    BY <1>3, <1>10
  <2>2. \A q \in Proc : file'[q] \in FileType BY <1>0, <1>10, <2>1 DEF FileType
  <2>3. file' = [q \in Proc |-> file'[q]] BY <1>0, <1>9
  <2>. QED BY <2>1, <2>2, <2>3
<1>. SUFFICES ASSUME NEW e, e = pr[p] PROVE Inv' OBVIOUS
<1>12. e \in CallType /\ CallOK(e) /\ e.pc \notin {"init", "unlink"} /\ e.iput = "no"
       /\ pr' = [pr EXCEPT ![p] = e] /\ Len(e.puts) <= 2
  BY <1>t, <1>1, <1>2, <1>7, ProcTypes DEF TypeOK
<1>13. Good(p, cwd'[p]) /\ Good(p, file'[p].ip) /\ Good(p, e.ip) /\ Good(p, e.held)
  BY <1>1, <1>2, <1>11, OwnGood
<1>14. pr' = pr BY <1>2
<1>15. Put(p, 1)' = 0 /\ Put(p, 2)' = 0 /\ Good(p, 0) BY <1>1, <1>14, PutValues DEF Good
<1>16. \A j \in Inode : ref'[j] = ref[j] - Uses(p, j) + Uses(p, j)' /\ ref'[j] >= ref[j]
  <2>. SUFFICES ASSUME NEW j \in Inode
                PROVE  ref'[j] = ref[j] - Uses(p, j) + Uses(p, j)' /\ ref'[j] >= ref[j]
    OBVIOUS
  <2>1. Uses(p, j)' = Uses(p, j) BY <1>2, <1>7, <1>11, <1>15 DEF Uses
  <2>2. Uses(p, j) \in Int BY DEF Uses, One
  <2>3. ref[j] \in Nat /\ ref'[j] = ref[j] BY <1>t, <1>2 DEF TypeOK
  <2>. QED BY <2>1, <2>2, <2>3
<1>17. WorkOK(p)'
  <2>1. WorkOK(p) BY <1>t DEF WorkInv
  <2>. QED BY <1>2, <2>1 DEF WorkOK
<1>18. LinkOf(p)' = LinkOf(p) BY <1>2 DEF LinkOf
<1>19. cwd' \in [Proc -> Inode] /\ ref' \in [Inode -> Nat]
       /\ \A q \in Proc \ {p} : cwd'[q] = cwd[q] /\ file'[q] = file[q]
  BY <1>t, <1>0, <1>2, <1>10 DEF TypeOK
<1>. HIDE DEF i
<1>. QED BY <1>1, <1>2, <1>6, <1>11, <1>12, <1>13, <1>15, <1>16, <1>17, <1>18, <1>19, QuietStep

----------------------------------------------------------------------------
(* Blocks                                                                  *)

LEMMA LowestIn ==
    ASSUME NEW S, S \subseteq Nat, S # {}
    PROVE  Lowest(S) \in S
<1>1. PICK x \in S : \A y \in S : ~(<<y, x>> \in OpToRel(<, Nat))
  BY NatLessThanWellFounded, WFMin
<1>2. \A y \in S : y \in Nat /\ x \in Nat BY <1>1
<1>3. \A y \in S : ~(y < x) BY <1>1, <1>2 DEF OpToRel
<1>4. \E z \in S : \A y \in S : z <= y BY <1>2, <1>3
<1>. QED BY <1>4 DEF Lowest

\* An inode whose blocks are marked in the bitmap u.
Fits(x, u) ==
    /\ x \in InodeType /\ Apart(x) /\ x.size <= Len(x.data)
    /\ OwnBlocks(x) \subseteq u /\ u \subseteq Blocks

\* y is x with the blocks that v has more than u.
Grown(x, u, y, v) ==
    /\ Fits(y, v) /\ u \subseteq v /\ OwnBlocks(y) = OwnBlocks(x) \cup (v \ u)
    /\ Len(x.data) <= Len(y.data)
    /\ y.type = x.type /\ y.nlink = x.nlink /\ y.ents = x.ents /\ y.size = x.size

LEMMA FitsFields ==
    ASSUME NEW x, NEW u, Fits(x, u)
    PROVE  /\ x.data \in Seq(Blocks) /\ Len(x.data) \in Nat /\ x.size \in 0 .. MAXFILE
           /\ x.size \in Nat /\ x.ind \in Blocks \cup {0} /\ DOMAIN x.data = 1 .. Len(x.data)
           /\ \A k \in 1 .. Len(x.data) : x.data[k] \in Blocks
BY Consts, ElementOfSeq, LenProperties DEF Fits, InodeType

LEMMA GrownSame == ASSUME NEW x, NEW u, Fits(x, u) PROVE Grown(x, u, x, u)
<1>1. Len(x.data) \in Nat BY FitsFields
<1>. QED BY <1>1 DEF Grown

LEMMA GrownTrans ==
    ASSUME NEW x, NEW u, NEW y, NEW v, NEW z, NEW w, Fits(x, u), Grown(x, u, y, v), Grown(y, v, z, w)
    PROVE  Grown(x, u, z, w)
<1>1. Len(x.data) \in Nat /\ Len(y.data) \in Nat /\ Len(z.data) \in Nat
  BY FitsFields DEF Grown
<1>2. OwnBlocks(z) = OwnBlocks(x) \cup (w \ u) BY DEF Grown, Fits
<1>3. Len(x.data) <= Len(z.data) BY <1>1 DEF Grown
<1>. QED BY <1>2, <1>3 DEF Grown

\* Allocation of the indirect block.
LEMMA TakeIndirect ==
    ASSUME NEW x, NEW u, Fits(x, u), x.ind = 0, NEW b \in Blocks \ u
    PROVE  Grown(x, u, [x EXCEPT !.ind = b], u \cup {b})
<1>. SUFFICES ASSUME NEW y, y = [x EXCEPT !.ind = b] PROVE Grown(x, u, y, u \cup {b}) OBVIOUS
<1>1. y.data = x.data /\ y.ind = b /\ y.size = x.size /\ y.type = x.type /\ y.nlink = x.nlink
      /\ y.ents = x.ents
  BY DEF Fits, InodeType
<1>2. y \in InodeType BY Consts DEF Fits, InodeType
<1>3. OwnBlocks(y) = OwnBlocks(x) \cup {b} BY <1>1, Consts DEF OwnBlocks
<1>4. \A k \in DOMAIN x.data : x.data[k] \in OwnBlocks(x) BY DEF OwnBlocks
<1>5. Apart(y) BY <1>1, <1>4 DEF Apart, Fits
<1>6. Len(x.data) \in Nat BY FitsFields
<1>7. Fits(y, u \cup {b}) BY <1>1, <1>2, <1>3, <1>5 DEF Fits
<1>8. OwnBlocks(y) = OwnBlocks(x) \cup ((u \cup {b}) \ u) BY <1>3
<1>. QED BY <1>1, <1>6, <1>7, <1>8 DEF Grown

\* Allocation of a data block.
LEMMA TakeData ==
    ASSUME NEW x, NEW u, Fits(x, u), NEW b \in Blocks \ u
    PROVE  /\ Grown(x, u, [x EXCEPT !.data = Append(@, b)], u \cup {b})
           /\ Len([x EXCEPT !.data = Append(@, b)].data) = Len(x.data) + 1
<1>. SUFFICES ASSUME NEW y, y = [x EXCEPT !.data = Append(@, b)]
              PROVE  Grown(x, u, y, u \cup {b}) /\ Len(y.data) = Len(x.data) + 1
  OBVIOUS
<1>1. y.data = Append(x.data, b) /\ y.ind = x.ind /\ y.size = x.size /\ y.type = x.type
      /\ y.nlink = x.nlink /\ y.ents = x.ents
  BY DEF Fits, InodeType
<1>2. x.data \in Seq(Blocks) /\ Len(x.data) \in Nat /\ x.size \in Nat BY FitsFields
<1>3. /\ y.data \in Seq(Blocks) /\ Len(y.data) = Len(x.data) + 1
      /\ \A k \in 1 .. Len(x.data) : y.data[k] = x.data[k]
      /\ y.data[Len(x.data) + 1] = b
  BY <1>1, <1>2, AppendProperties
<1>4. y \in InodeType BY <1>3, <1>1 DEF Fits, InodeType
<1>5. DOMAIN x.data = 1 .. Len(x.data) /\ DOMAIN y.data = 1 .. (Len(x.data) + 1)
  BY <1>2, <1>3, LenProperties
<1>6. \A k \in DOMAIN y.data : k \in DOMAIN x.data \/ k = Len(x.data) + 1 BY <1>2, <1>5
<1>7. \A k \in DOMAIN x.data : k \in DOMAIN y.data /\ y.data[k] = x.data[k] /\ k # Len(x.data) + 1
  BY <1>2, <1>3, <1>5
<1>8. Len(x.data) + 1 \in DOMAIN y.data BY <1>2, <1>5
<1>9. OwnBlocks(y) = OwnBlocks(x) \cup {b}
  <2>1. {y.data[k] : k \in DOMAIN y.data} = {x.data[k] : k \in DOMAIN x.data} \cup {b}
    BY <1>3, <1>6, <1>7, <1>8
  <2>. QED BY <1>1, <2>1 DEF OwnBlocks
<1>10. \A k \in DOMAIN x.data : x.data[k] \in u BY DEF OwnBlocks, Fits
<1>11. x.ind # 0 => x.ind \in u BY DEF OwnBlocks, Fits
<1>12. Apart(y)
  <2>1. Apart(x) BY DEF Fits
  <2>2. b # x.ind BY <1>11, Consts
  <2>. QED BY <1>1, <1>3, <1>6, <1>7, <1>10, <2>1, <2>2 DEF Apart
<1>13. Fits(y, u \cup {b})
  <2>1. y.size <= Len(y.data) BY <1>1, <1>2, <1>3 DEF Fits
  <2>. QED BY <1>4, <1>9, <1>12, <2>1 DEF Fits
<1>14. OwnBlocks(y) = OwnBlocks(x) \cup ((u \cup {b}) \ u) BY <1>9
<1>15. Len(x.data) <= Len(y.data) BY <1>2, <1>3
<1>. QED BY <1>1, <1>3, <1>13, <1>14, <1>15 DEF Grown

\* bmap() takes at most an indirect block and a data block that were free.
LEMMA BmapOK ==
    ASSUME NEW x, NEW u, Fits(x, u), NEW bn \in Nat, bn <= Len(x.data)
    PROVE  LET r == Bmap(x, u, bn) IN
           /\ Grown(x, u, r.ino, r.used) /\ r.ok \in BOOLEAN
           /\ r.ok => bn + 1 <= Len(r.ino.data)
<1>. DEFINE ind == bn >= NDIRECT /\ x.ind = 0 /\ Blocks # u
            L  == Lowest(Blocks \ u)
            i1 == IF ind THEN [x EXCEPT !.ind = L] ELSE x
            u1 == u \cup OwnBlocks(i1)
            b  == Lowest(Blocks \ u1)
            r  == Bmap(x, u, bn)
<1>1. Grown(x, u, i1, u1)
  <2>1. CASE ind
    <3>1. u \subseteq Blocks BY DEF Fits
    <3>2. Blocks \ u # {} /\ Blocks \ u \subseteq Nat BY <2>1, <3>1, Consts
    <3>3. L \in Blocks \ u
      <4>. DEFINE S == Blocks \ u
      <4>. HIDE DEF S
      <4>1. S # {} /\ S \subseteq Nat BY <3>2 DEF S
      <4>2. Lowest(S) \in S BY <4>1, LowestIn
      <4>. QED BY <4>2 DEF S
    <3>. HIDE DEF L
    <3>4. Grown(x, u, [x EXCEPT !.ind = L], u \cup {L}) BY <2>1, <3>3, TakeIndirect
    <3>5. i1 = [x EXCEPT !.ind = L] BY <2>1
    <3>. HIDE DEF i1, ind
    <3>6. OwnBlocks(i1) = OwnBlocks(x) \cup ((u \cup {L}) \ u) BY <3>4, <3>5 DEF Grown
    <3>7. u1 = u \cup {L} BY <3>3, <3>6 DEF Fits
    <3>. QED BY <3>4, <3>5, <3>7
  <2>2. CASE ~ind
    <3>1. i1 = x BY <2>2
    <3>. HIDE DEF i1, ind
    <3>2. u1 = u BY <3>1 DEF Fits
    <3>. QED BY <3>1, <3>2, GrownSame
  <2>. QED BY <2>1, <2>2
<1>2. CASE bn < Len(x.data)
  <2>1. r = [ok |-> TRUE, ino |-> x, used |-> u] BY <1>2 DEF Bmap
  <2>2. r.ok = TRUE /\ r.ino = x /\ r.used = u BY <2>1
  <2>3. bn + 1 <= Len(x.data) BY <1>2, FitsFields
  <2>. HIDE DEF r
  <2>4. Grown(x, u, r.ino, r.used) BY <2>2, GrownSame
  <2>. QED BY <2>2, <2>3, <2>4 DEF r
<1>3. CASE bn >= Len(x.data) /\ u1 = Blocks
  <2>0. ~(bn < Len(x.data)) BY <1>3, FitsFields
  <2>1. r = [ok |-> FALSE, ino |-> i1, used |-> u1]
    BY <1>3, <2>0, Zenon DEF Bmap
  <2>. HIDE DEF i1, u1
  <2>2. r.ok = FALSE /\ r.ino = i1 /\ r.used = u1 BY <2>1
  <2>. HIDE DEF r
  <2>. QED BY <1>1, <2>2 DEF r
<1>4. CASE bn >= Len(x.data) /\ u1 # Blocks
  <2>0. ~(bn < Len(x.data)) /\ ~(bn >= Len(x.data) /\ u1 = Blocks) BY <1>4, FitsFields
  <2>1. r = [ok |-> TRUE, ino |-> [i1 EXCEPT !.data = Append(@, b)], used |-> u1 \cup {b}]
    BY <2>0, Zenon DEF Bmap
  <2>. HIDE DEF i1, u1
  <2>2. b \in Blocks \ u1
    <3>1. u1 \subseteq Blocks BY <1>1 DEF Grown, Fits
    <3>2. Blocks \ u1 # {} /\ Blocks \ u1 \subseteq Nat BY <1>4, <3>1, Consts
    <3>. DEFINE S == Blocks \ u1
    <3>. HIDE DEF S
    <3>3. S # {} /\ S \subseteq Nat BY <3>2 DEF S
    <3>4. Lowest(S) \in S BY <3>3, LowestIn
    <3>. QED BY <3>4 DEF S
  <2>. HIDE DEF b
  <2>. DEFINE y == [i1 EXCEPT !.data = Append(@, b)]
  <2>3. Grown(i1, u1, y, u1 \cup {b}) /\ Len(y.data) = Len(i1.data) + 1
    <3>1. Fits(i1, u1) BY <1>1 DEF Grown
    <3>. QED BY <2>2, <3>1, TakeData
  <2>. HIDE DEF y
  <2>4. Grown(x, u, y, u1 \cup {b}) BY <1>1, <2>3, GrownTrans
  <2>5. bn + 1 <= Len(y.data)
    <3>1. Len(i1.data) \in Nat /\ Len(x.data) \in Nat BY <1>1, FitsFields DEF Grown
    <3>2. Len(x.data) <= Len(i1.data) BY <1>1 DEF Grown
    <3>. QED BY <2>3, <3>1, <3>2
  <2>6. r.ok = TRUE /\ r.ino = y /\ r.used = u1 \cup {b} BY <2>1 DEF y
  <2>. HIDE DEF r
  <2>. QED BY <2>4, <2>5, <2>6 DEF r
<1>5. bn < Len(x.data) \/ bn >= Len(x.data) BY FitsFields
<1>. QED BY <1>2, <1>3, <1>4, <1>5

\* The same, whatever becomes of the entries and the size.
Wider(x, u, y, v) ==
    /\ Fits(y, v) /\ u \subseteq v /\ OwnBlocks(y) = OwnBlocks(x) \cup (v \ u)
    /\ y.type = x.type

LEMMA GrownWider ==
    ASSUME NEW x, NEW u, NEW y, NEW v, Grown(x, u, y, v), NEW z, z \in InodeType,
           z.type = y.type, z.data = y.data, z.ind = y.ind, z.size <= Len(y.data)
    PROVE  Wider(x, u, z, v)
<1>1. OwnBlocks(z) = OwnBlocks(y) BY DEF OwnBlocks
<1>2. Apart(z) BY DEF Apart, Grown, Fits
<1>3. Fits(z, v) BY <1>1, <1>2 DEF Fits, Grown
<1>. QED BY <1>1, <1>3 DEF Wider, Grown

\* What dirlink() makes of a directory.
LinkedIn(x, y, ok, n, inum) ==
    /\ ok \in BOOLEAN /\ y.type = x.type /\ y.nlink = x.nlink
    /\ y.ents = IF ok THEN [x.ents EXCEPT ![n] = inum] ELSE x.ents

LEMMA DirlinkOK ==
    ASSUME NEW x, NEW u, Fits(x, u), NEW n \in Entries, NEW inum \in Inode
    PROVE  LET r == Dirlink(x, u, n, inum) IN
           Wider(x, u, r.ino, r.used) /\ LinkedIn(x, r.ino, r.ok, n, inum)
<1>. DEFINE new(d) == [d EXCEPT !.ents[n] = inum]
            full == Count(x) >= DIRENTS * x.size
            b == Bmap(x, u, x.size)
            r == Dirlink(x, u, n, inum)
<1>f. x.size \in Nat /\ Len(x.data) \in Nat /\ x.size <= Len(x.data) /\ x.size \in 0 .. MAXFILE
  BY FitsFields DEF Fits
<1>1. ASSUME NEW y \in InodeType
      PROVE  /\ new(y) \in InodeType /\ new(y).ents = [y.ents EXCEPT ![n] = inum]
             /\ new(y).type = y.type /\ new(y).nlink = y.nlink /\ new(y).data = y.data
             /\ new(y).ind = y.ind /\ new(y).size = y.size
  BY Consts DEF InodeType
<1>2. x \in InodeType BY DEF Fits
<1>3. CASE ~full
  <2>1. r = [ok |-> TRUE, ino |-> new(x), used |-> u] BY <1>3, Zenon DEF Dirlink
  <2>2. r.ok = TRUE /\ r.ino = new(x) /\ r.used = u BY <2>1
  <2>3. Wider(x, u, new(x), u)
    <3>. DEFINE z == new(x)
    <3>1. z \in InodeType /\ z.type = x.type /\ z.data = x.data /\ z.ind = x.ind
          /\ z.size <= Len(x.data)
      BY <1>1, <1>2, <1>f
    <3>. HIDE DEF z
    <3>2. Wider(x, u, z, u) BY <3>1, GrownSame, GrownWider
    <3>. QED BY <3>2 DEF z
  <2>4. LinkedIn(x, new(x), TRUE, n, inum) BY <1>1, <1>2 DEF LinkedIn
  <2>. HIDE DEF r, new
  <2>. QED BY <2>2, <2>3, <2>4 DEF r
<1>4. CASE full /\ x.size = MAXFILE
  <2>1. r = [ok |-> FALSE, ino |-> x, used |-> u]
    <3>. HIDE DEF full
    <3>. QED BY <1>4, Zenon DEF Dirlink, full
  <2>2. r.ok = FALSE /\ r.ino = x /\ r.used = u BY <2>1
  <2>3. Wider(x, u, x, u) BY <1>2, <1>f, GrownSame, GrownWider
  <2>4. LinkedIn(x, x, FALSE, n, inum) BY DEF LinkedIn
  <2>. HIDE DEF r
  <2>. QED BY <2>2, <2>3, <2>4 DEF r
<1>5. CASE full /\ x.size # MAXFILE
  <2>1. Grown(x, u, b.ino, b.used) /\ b.ok \in BOOLEAN
        /\ (b.ok => x.size + 1 <= Len(b.ino.data))
    BY <1>f, BmapOK
  <2>2. r = IF b.ok THEN [b EXCEPT !.ino = [new(b.ino) EXCEPT !.size = @ + 1]] ELSE b
    BY <1>5, Zenon DEF Dirlink
  <2>3. b.ino \in InodeType /\ b.ino.size = x.size /\ b.ino.type = x.type
        /\ b.ino.nlink = x.nlink /\ b.ino.ents = x.ents
    BY <2>1 DEF Grown, Fits
  <2>4. CASE ~b.ok
    <3>1. r = b BY <2>2, <2>4
    <3>2. Wider(x, u, b.ino, b.used)
      <4>1. b.ino.size <= Len(b.ino.data) BY <2>1 DEF Grown, Fits
      <4>. HIDE DEF b
      <4>. QED BY <2>1, <2>3, <4>1, GrownWider
    <3>3. LinkedIn(x, b.ino, b.ok, n, inum)
      <4>. HIDE DEF b
      <4>. QED BY <2>1, <2>3, <2>4 DEF LinkedIn
    <3>. HIDE DEF b, r
    <3>. QED BY <3>1, <3>2, <3>3 DEF r
  <2>5. CASE b.ok
    <3>. DEFINE z == [new(b.ino) EXCEPT !.size = @ + 1]
    <3>1. r = [b EXCEPT !.ino = z] BY <2>2, <2>5
    <3>2. r.ino = z /\ r.ok = b.ok /\ r.used = b.used
      <4>1. \E f : b = [ok |-> b.ok, ino |-> b.ino, used |-> b.used]
        BY DEF Bmap
      <4>. HIDE DEF b, z, r
      <4>. QED BY <3>1, <4>1
    <3>3. z \in InodeType /\ z.type = x.type /\ z.data = b.ino.data /\ z.ind = b.ino.ind
          /\ z.size = x.size + 1 /\ z.nlink = x.nlink
          /\ z.ents = [x.ents EXCEPT ![n] = inum]
      <4>1. x.size + 1 \in 0 .. MAXFILE BY <1>5, <1>f, Consts
      <4>. DEFINE y == b.ino
      <4>. HIDE DEF b, full
      <4>2. y \in InodeType /\ y.size = x.size /\ y.type = x.type /\ y.nlink = x.nlink
            /\ y.ents = x.ents
        BY <2>3
      <4>. HIDE DEF y
      <4>. DEFINE w == new(y)
      <4>3. /\ w \in InodeType /\ w.ents = [y.ents EXCEPT ![n] = inum]
            /\ w.type = y.type /\ w.nlink = y.nlink /\ w.data = y.data
            /\ w.ind = y.ind /\ w.size = y.size
        BY <1>1, <4>2
      <4>. HIDE DEF w, new
      <4>4. \A e : e = [w EXCEPT !.size = @ + 1] =>
              /\ e \in InodeType /\ e.type = x.type /\ e.data = y.data /\ e.ind = y.ind
              /\ e.size = x.size + 1 /\ e.nlink = x.nlink
              /\ e.ents = [x.ents EXCEPT ![n] = inum]
        <5>. SUFFICES ASSUME NEW e, e = [w EXCEPT !.size = @ + 1]
                      PROVE  /\ e \in InodeType /\ e.type = x.type /\ e.data = y.data
                             /\ e.ind = y.ind /\ e.size = x.size + 1 /\ e.nlink = x.nlink
                             /\ e.ents = [x.ents EXCEPT ![n] = inum]
          OBVIOUS
        <5>1. /\ e.type = w.type /\ e.data = w.data /\ e.ind = w.ind /\ e.nlink = w.nlink
              /\ e.ents = w.ents /\ e.size = w.size + 1
          BY <4>3 DEF InodeType
        <5>2. w.size + 1 \in 0 .. MAXFILE BY <4>1, <4>2, <4>3
        <5>3. e \in InodeType BY <4>3, <5>2 DEF InodeType
        <5>. QED BY <4>2, <4>3, <5>1, <5>3
      <4>. QED BY <4>4 DEF w, y
    <3>. HIDE DEF z, r, b, full
    <3>4. Wider(x, u, z, b.used)
      <4>1. z.size <= Len(b.ino.data) BY <2>1, <2>5, <3>3
      <4>. QED BY <2>1, <2>3, <3>3, <4>1, GrownWider
    <3>5. LinkedIn(x, z, b.ok, n, inum) BY <2>1, <2>5, <3>3 DEF LinkedIn
    <3>. QED BY <3>2, <3>4, <3>5 DEF r
  <2>. QED BY <2>1, <2>4, <2>5
<1>. HIDE DEF full
<1>. QED BY <1>3, <1>4, <1>5

\* The loop of writei() after k blocks, from what it was after k - 1.
WriteFirst(x, u) == [ok |-> TRUE, ino |-> x, used |-> u, tot |-> 0]
WriteNext(off, m, k, prev) ==
    LET r == Bmap(prev.ino, prev.used, off + k - 1)
    IN IF ~prev.ok THEN prev
       ELSE [ok |-> r.ok /\ k <= m, ino |-> r.ino, used |-> r.used,
             tot |-> IF r.ok /\ k <= m THEN k ELSE k - 1]

Wrun(x, u, off, m, n, w) ==
    w = [k \in 0 .. n |-> IF k = 0 THEN WriteFirst(x, u) ELSE WriteNext(off, m, k, w[k - 1])]

LEMMA WriteRuns ==
    ASSUME NEW x, NEW u, NEW off, NEW m
    PROVE  \A n \in Nat : \E w : Wrun(x, u, off, m, n, w)
<1>. DEFINE Bad == {n \in Nat : ~ \E w : Wrun(x, u, off, m, n, w)}
<1>1. CASE Bad = {} BY <1>1
<1>2. CASE Bad # {}
  <2>1. PICK n \in Bad : \A j \in Bad : ~(<<j, n>> \in OpToRel(<, Nat))
    BY <1>2, NatLessThanWellFounded, WFMin
  <2>2. n \in Nat /\ ~ \E w : Wrun(x, u, off, m, n, w) OBVIOUS
  <2>3. CASE n = 0
    <3>. DEFINE w == [k \in 0 .. 0 |-> WriteFirst(x, u)]
    <3>. HIDE DEF WriteFirst, WriteNext
    <3>1. w = [k \in 0 .. 0 |-> IF k = 0 THEN WriteFirst(x, u)
                               ELSE WriteNext(off, m, k, w[k - 1])]
      OBVIOUS
    <3>2. Wrun(x, u, off, m, 0, w) BY <3>1 DEF Wrun
    <3>. QED BY <2>2, <2>3, <3>2
  <2>4. CASE n # 0
    <3>1. n - 1 \in Nat /\ n - 1 < n BY <2>2, <2>4
    <3>2. n - 1 \notin Bad
      <4>1. n - 1 \in Bad => <<n - 1, n>> \in OpToRel(<, Nat) BY <2>2, <3>1 DEF OpToRel
      <4>. QED BY <2>1, <4>1
    <3>3. PICK g : Wrun(x, u, off, m, n - 1, g) BY <3>1, <3>2
    <3>. DEFINE w == [k \in 0 .. n |-> IF k = n THEN WriteNext(off, m, n, g[n - 1]) ELSE g[k]]
    <3>4. ASSUME NEW k \in 0 .. n
          PROVE  w[k] = IF k = 0 THEN WriteFirst(x, u) ELSE WriteNext(off, m, k, w[k - 1])
      <4>1. CASE k = n
        <5>1. n - 1 \in 0 .. n /\ n - 1 # n /\ k # 0 BY <2>2, <2>4, <4>1
        <5>. HIDE DEF WriteNext, WriteFirst
        <5>2. w[n - 1] = g[n - 1] BY <5>1
        <5>3. w[n] = WriteNext(off, m, n, g[n - 1]) BY <2>2
        <5>. HIDE DEF w
        <5>. QED BY <4>1, <5>1, <5>2, <5>3
      <4>2. CASE k # n
        <5>1. k \in 0 .. n - 1 /\ (k # 0 => k - 1 \in 0 .. n /\ k - 1 # n) BY <2>2, <4>2
        <5>. HIDE DEF WriteNext, WriteFirst
        <5>2. w[k] = g[k] /\ (k # 0 => w[k - 1] = g[k - 1]) BY <4>2, <5>1
        <5>3. g[k] = IF k = 0 THEN WriteFirst(x, u) ELSE WriteNext(off, m, k, g[k - 1])
          BY <3>3, <5>1 DEF Wrun
        <5>. HIDE DEF w
        <5>. QED BY <5>2, <5>3
      <4>. QED BY <4>1, <4>2
    <3>5. w = [k \in 0 .. n |-> w[k]] OBVIOUS
    <3>. HIDE DEF w, WriteNext, WriteFirst
    <3>6. w = [k \in 0 .. n |-> IF k = 0 THEN WriteFirst(x, u)
                               ELSE WriteNext(off, m, k, w[k - 1])]
      BY <3>4, <3>5
    <3>7. Wrun(x, u, off, m, n, w) BY <3>6 DEF Wrun
    <3>. QED BY <2>2, <3>7
  <2>. QED BY <2>3, <2>4
<1>. QED BY <1>1, <1>2

\* What is known of the loop after k blocks.
WroteUpTo(x, u, off, k, r) ==
    /\ Grown(x, u, r.ino, r.used) /\ r.ok \in BOOLEAN
    /\ r.tot \in 0 .. k /\ (r.ok => r.tot = k) /\ off + r.tot <= Len(r.ino.data)
    /\ r = [ok |-> r.ok, ino |-> r.ino, used |-> r.used, tot |-> r.tot]

LEMMA WriteNextOK ==
    ASSUME NEW x, NEW u, Fits(x, u), NEW off \in Nat, NEW m \in Nat, NEW k \in Nat, k # 0,
           NEW prev, WroteUpTo(x, u, off, k - 1, prev), NEW e, e = WriteNext(off, m, k, prev)
    PROVE  WroteUpTo(x, u, off, k, e)
<1>1. /\ Grown(x, u, prev.ino, prev.used) /\ prev.ok \in BOOLEAN
      /\ prev.tot \in 0 .. k - 1 /\ (prev.ok => prev.tot = k - 1)
      /\ off + prev.tot <= Len(prev.ino.data)
      /\ prev = [ok |-> prev.ok, ino |-> prev.ino, used |-> prev.used, tot |-> prev.tot]
  BY DEF WroteUpTo
<1>2. Fits(prev.ino, prev.used) BY <1>1 DEF Grown
<1>3. CASE ~prev.ok
  <2>1. e = prev BY <1>3 DEF WriteNext
  <2>2. prev.tot \in 0 .. k BY <1>1
  <2>. QED BY <1>1, <1>3, <2>1, <2>2 DEF WroteUpTo
<1>4. CASE prev.ok
  <2>. DEFINE bn == off + k - 1
              b == Bmap(prev.ino, prev.used, bn)
  <2>1. bn \in Nat /\ bn <= Len(prev.ino.data) /\ Len(prev.ino.data) \in Nat
    BY <1>1, <1>2, <1>4, FitsFields
  <2>2. Grown(prev.ino, prev.used, b.ino, b.used) /\ b.ok \in BOOLEAN
        /\ (b.ok => bn + 1 <= Len(b.ino.data))
    <3>. HIDE DEF bn
    <3>. QED BY <1>2, <2>1, BmapOK
  <2>3. e = [ok |-> b.ok /\ k <= m, ino |-> b.ino, used |-> b.used,
             tot |-> IF b.ok /\ k <= m THEN k ELSE k - 1]
    BY <1>4, Zenon DEF WriteNext
  <2>. HIDE DEF b, bn
  <2>. DEFINE c == b.ok /\ k <= m
  <2>c. c \in BOOLEAN /\ (c => b.ok) OBVIOUS
  <2>r. e = [ok |-> c, ino |-> b.ino, used |-> b.used, tot |-> IF c THEN k ELSE k - 1]
    BY <2>3
  <2>. HIDE DEF c
  <2>4. e.ino = b.ino /\ e.used = b.used BY <2>r
  <2>i. e.ok = c BY <2>r
  <2>j. e.tot = IF c THEN k ELSE k - 1 BY <2>r
  <2>5. Grown(x, u, e.ino, e.used)
    <3>1. Grown(x, u, b.ino, b.used) BY <1>1, <2>2, GrownTrans
    <3>. QED BY <2>4, <3>1
  <2>6. e.tot \in 0 .. k /\ (e.ok => e.tot = k) /\ e.ok \in BOOLEAN BY <2>c, <2>i, <2>j
  <2>7. off + e.tot <= Len(e.ino.data)
    <3>1. Len(prev.ino.data) <= Len(b.ino.data) /\ Len(b.ino.data) \in Nat
      BY <2>2, FitsFields DEF Grown
    <3>. DEFINE l == Len(b.ino.data)
    <3>0. l \in Nat /\ Len(prev.ino.data) <= l BY <3>1
    <3>2. bn <= l BY <2>1, <3>0
    <3>3. c => bn + 1 <= l BY <2>2, <2>c
    <3>. HIDE DEF l
    <3>4. off + e.tot <= l BY <2>j, <3>0, <3>2, <3>3 DEF bn
    <3>. QED BY <2>4, <3>4 DEF l
  <2>8. e = [ok |-> e.ok, ino |-> e.ino, used |-> e.used, tot |-> e.tot] BY <2>r
  <2>. QED BY <2>4, <2>5, <2>6, <2>7, <2>8 DEF WroteUpTo
<1>. QED BY <1>1, <1>3, <1>4

LEMMA WriteRunOK ==
    ASSUME NEW x, NEW u, Fits(x, u), NEW off \in Nat, off <= Len(x.data), NEW m \in Nat,
           NEW n \in Nat, NEW w, Wrun(x, u, off, m, n, w)
    PROVE  \A k \in 0 .. n : WroteUpTo(x, u, off, k, w[k])
<1>. DEFINE Bad == {k \in 0 .. n : ~WroteUpTo(x, u, off, k, w[k])}
<1>0. \A k \in 0 .. n : w[k] = IF k = 0 THEN WriteFirst(x, u) ELSE WriteNext(off, m, k, w[k - 1])
  BY DEF Wrun
<1>1. CASE Bad = {} BY <1>1
<1>2. CASE Bad # {}
  <2>0. Bad \subseteq Nat OBVIOUS
  <2>1. PICK k \in Bad : \A j \in Bad : ~(<<j, k>> \in OpToRel(<, Nat))
    BY <1>2, <2>0, NatLessThanWellFounded, WFMin
  <2>2. k \in 0 .. n /\ ~WroteUpTo(x, u, off, k, w[k]) OBVIOUS
  <2>3. CASE k = 0
    <3>1. w[0] = WriteFirst(x, u) BY <1>0, <2>2, <2>3
    <3>2. WroteUpTo(x, u, off, 0, WriteFirst(x, u))
      <4>1. Grown(x, u, x, u) BY GrownSame
      <4>. QED BY <4>1 DEF WroteUpTo, WriteFirst
    <3>. QED BY <2>2, <2>3, <3>1, <3>2
  <2>4. CASE k # 0
    <3>1. k - 1 \in 0 .. n /\ k \in Nat /\ k - 1 \in Nat /\ k - 1 < k BY <2>2, <2>4
    <3>2. k - 1 \notin Bad
      <4>1. k - 1 \in Bad => <<k - 1, k>> \in OpToRel(<, Nat) BY <3>1 DEF OpToRel
      <4>. QED BY <2>1, <4>1
    <3>3. WroteUpTo(x, u, off, k - 1, w[k - 1]) BY <3>1, <3>2
    <3>4. w[k] = WriteNext(off, m, k, w[k - 1]) BY <1>0, <2>2, <2>4
    <3>5. WroteUpTo(x, u, off, k, w[k]) BY <2>4, <3>1, <3>3, <3>4, WriteNextOK
    <3>. QED BY <2>2, <3>5
  <2>. QED BY <2>3, <2>4
<1>. QED BY <1>1, <1>2

LEMMA WriteiOK ==
    ASSUME NEW x, NEW u, Fits(x, u), NEW off \in Nat, off <= Len(x.data),
           NEW n \in Nat, off + n <= MAXFILE, NEW m \in Nat, NEW r, r = Writei(x, u, off, n, m)
    PROVE  /\ Wider(x, u, r.ino, r.used) /\ r.tot \in 0 .. n
           /\ r.ino.nlink = x.nlink /\ r.ino.ents = x.ents
<1>. DEFINE w == CHOOSE w : Wrun(x, u, off, m, n, w)
<1>1. Wrun(x, u, off, m, n, w)
  <2>1. \E f : Wrun(x, u, off, m, n, f) BY WriteRuns
  <2>. QED BY <2>1
<1>2. r = [w[n] EXCEPT !.ino.size = IF off + w[n].tot > @ THEN off + w[n].tot ELSE @]
  BY Zenon DEF Writei, Wrun, WriteFirst, WriteNext
<1>. HIDE DEF w
<1>3. WroteUpTo(x, u, off, n, w[n]) BY <1>1, WriteRunOK
<1>. DEFINE y == w[n].ino
<1>4. /\ Grown(x, u, y, w[n].used) /\ w[n].tot \in 0 .. n /\ off + w[n].tot <= Len(y.data)
  BY <1>3 DEF WroteUpTo
<1>5. y \in InodeType /\ y.type = x.type /\ y.nlink = x.nlink /\ y.ents = x.ents
      /\ y.size <= Len(y.data)
  BY <1>4 DEF Grown, Fits
<1>. SUFFICES ASSUME NEW end, end = IF off + w[n].tot > y.size THEN off + w[n].tot ELSE y.size,
                     NEW z, z = [y EXCEPT !.size = end]
              PROVE  /\ Wider(x, u, r.ino, r.used) /\ r.tot \in 0 .. n
                     /\ r.ino.nlink = x.nlink /\ r.ino.ents = x.ents
  OBVIOUS
<1>6. r.ino = z /\ r.used = w[n].used /\ r.tot = w[n].tot
  <2>1. w[n] = [ok |-> w[n].ok, ino |-> y, used |-> w[n].used, tot |-> w[n].tot]
    BY <1>3 DEF WroteUpTo
  <2>. SUFFICES ASSUME NEW a, a = w[n], NEW b, b = [a EXCEPT !.ino = z]
                PROVE  b.ino = z /\ b.used = a.used /\ b.tot = a.tot
    BY <1>2
  <2>2. a = [ok |-> a.ok, ino |-> y, used |-> a.used, tot |-> a.tot] BY <2>1
  <2>. HIDE DEF y
  <2>. QED BY <2>2
<1>7. end \in 0 .. MAXFILE /\ end <= Len(y.data)
  <2>. DEFINE t == w[n].tot
  <2>1. t \in 0 .. n /\ off + t <= Len(y.data) BY <1>4
  <2>2. y.size \in 0 .. MAXFILE /\ y.size <= Len(y.data) BY <1>5 DEF InodeType
  <2>3. end = IF off + t > y.size THEN off + t ELSE y.size OBVIOUS
  <2>. HIDE DEF t, y
  <2>. QED BY <2>1, <2>2, <2>3, Consts
<1>8. /\ z \in InodeType /\ z.type = y.type /\ z.data = y.data /\ z.ind = y.ind
      /\ z.size = end /\ z.nlink = y.nlink /\ z.ents = y.ents
  BY <1>5, <1>7 DEF InodeType
<1>. HIDE DEF y
<1>9. Wider(x, u, z, w[n].used) BY <1>4, <1>7, <1>8, GrownWider
<1>. QED BY <1>4, <1>5, <1>6, <1>8, <1>9

----------------------------------------------------------------------------
(* The bitmap                                                              *)

LEMMA DiskFits ==
    ASSUME TypeOK, BlocksOK(disk, used), NEW i \in Inode
    PROVE  Fits(disk[i], used)
BY DEF TypeOK, BlocksOK, Fits

LEMMA BlocksWider ==
    ASSUME NEW dk \in [Inode -> InodeType], NEW u, BlocksOK(dk, u), NEW i \in Inode,
           NEW y, NEW v, Wider(dk[i], u, y, v)
    PROVE  BlocksOK([dk EXCEPT ![i] = y], v)
<1>. DEFINE d == [dk EXCEPT ![i] = y]
<1>1. d[i] = y /\ \A j \in Inode : j # i => d[j] = dk[j] OBVIOUS
<1>2. OwnBlocks(y) = OwnBlocks(dk[i]) \cup (v \ u) /\ u \subseteq v /\ Apart(y)
  BY DEF Wider, Fits
<1>. HIDE DEF d
<1>3. \A j \in Inode : OwnBlocks(dk[j]) \subseteq u BY DEF BlocksOK
<1>4. v = UNION {OwnBlocks(d[j]) : j \in Inode}
  <2>1. \A b \in v : \E j \in Inode : b \in OwnBlocks(d[j])
    <3>. SUFFICES ASSUME NEW b \in v PROVE \E j \in Inode : b \in OwnBlocks(d[j]) OBVIOUS
    <3>1. CASE b \in u
      <4>1. PICK j \in Inode : b \in OwnBlocks(dk[j]) BY <3>1 DEF BlocksOK
      <4>. QED BY <1>1, <1>2, <4>1
    <3>2. CASE b \notin u BY <1>1, <1>2, <3>2
    <3>. QED BY <3>1, <3>2
  <2>2. \A j \in Inode : OwnBlocks(d[j]) \subseteq v BY <1>1, <1>2, <1>3
  <2>. QED BY <2>1, <2>2
<1>5. ASSUME NEW j \in Inode, NEW k \in Inode, j # k
      PROVE  OwnBlocks(d[j]) \cap OwnBlocks(d[k]) = {}
  <2>1. OwnBlocks(dk[j]) \cap OwnBlocks(dk[k]) = {} BY <1>5 DEF BlocksOK
  <2>2. OwnBlocks(dk[j]) \cap (v \ u) = {} /\ OwnBlocks(dk[k]) \cap (v \ u) = {} BY <1>3
  <2>3. CASE j = i BY <1>1, <1>2, <1>5, <2>1, <2>2, <2>3
  <2>4. CASE k = i BY <1>1, <1>2, <1>5, <2>1, <2>2, <2>4
  <2>5. CASE j # i /\ k # i BY <1>1, <2>1, <2>5
  <2>. QED BY <2>3, <2>4, <2>5
<1>6. \A j \in Inode : Apart(d[j]) BY <1>1, <1>2 DEF BlocksOK
<1>. QED BY <1>4, <1>5, <1>6 DEF BlocksOK, d

\* itrunc().
LEMMA BlocksDrop ==
    ASSUME NEW dk \in [Inode -> InodeType], NEW u, BlocksOK(dk, u), NEW i \in Inode,
           NEW y, OwnBlocks(y) = {}, Apart(y)
    PROVE  BlocksOK([dk EXCEPT ![i] = y], u \ OwnBlocks(dk[i]))
<1>. DEFINE d == [dk EXCEPT ![i] = y]
            v == u \ OwnBlocks(dk[i])
<1>1. d[i] = y /\ \A j \in Inode : j # i => d[j] = dk[j] OBVIOUS
<1>. HIDE DEF d
<1>2. \A j \in Inode : j # i => OwnBlocks(dk[j]) \cap OwnBlocks(dk[i]) = {} BY DEF BlocksOK
<1>3. v = UNION {OwnBlocks(d[j]) : j \in Inode}
  <2>1. \A b \in v : \E j \in Inode : b \in OwnBlocks(d[j])
    <3>. SUFFICES ASSUME NEW b \in v PROVE \E j \in Inode : b \in OwnBlocks(d[j]) OBVIOUS
    <3>1. PICK j \in Inode : b \in OwnBlocks(dk[j]) BY DEF BlocksOK
    <3>2. j # i BY <3>1
    <3>. QED BY <1>1, <3>1, <3>2
  <2>2. \A j \in Inode : OwnBlocks(d[j]) \subseteq v BY <1>1, <1>2 DEF BlocksOK
  <2>. QED BY <2>1, <2>2
<1>4. \A j, k \in Inode : j # k => OwnBlocks(d[j]) \cap OwnBlocks(d[k]) = {}
  BY <1>1 DEF BlocksOK
<1>5. \A j \in Inode : Apart(d[j]) BY <1>1 DEF BlocksOK
<1>. QED BY <1>3, <1>4, <1>5 DEF BlocksOK, d, v

\* An inode whose blocks stay.
LEMMA BlocksEdit ==
    ASSUME NEW dk \in [Inode -> InodeType], NEW u, BlocksOK(dk, u), NEW i \in Inode,
           NEW y, y.data = dk[i].data, y.ind = dk[i].ind
    PROVE  BlocksOK([dk EXCEPT ![i] = y], u)
<1>. DEFINE d == [dk EXCEPT ![i] = y]
<1>1. \A j \in Inode : d[j].data = dk[j].data /\ d[j].ind = dk[j].ind OBVIOUS
<1>. HIDE DEF d
<1>2. \A j \in Inode : OwnBlocks(d[j]) = OwnBlocks(dk[j]) /\ (Apart(d[j]) <=> Apart(dk[j]))
  BY <1>1 DEF OwnBlocks, Apart
<1>. QED BY <1>2 DEF BlocksOK, d

\* Inodes without blocks.
LEMMA EmptyInode ==
    ASSUME NEW y, y.data = <<>>, y.ind = 0
    PROVE  OwnBlocks(y) = {} /\ Apart(y)
BY DEF OwnBlocks, Apart

----------------------------------------------------------------------------
(* Steps that store the inode they have locked                             *)

\* The store of one inode by a call that neither takes nor keeps locks.
LEMMA StoreStep ==
    ASSUME NEW p \in Proc, Inv, pr[p].puts = <<>>, pr[p].pc \notin {"init", "unlink"},
           NEW i \in Inode, lock[i] = 0, Good(p, i), ref[i] > 0,
           NEW z \in InodeType, z.type = disk[i].type, z.size <= Len(z.data), Store(i, z),
           UNCHANGED lock, used' \subseteq Blocks, lost' \in [Inode -> Nat],
           NEW r \in CallType, pr' = [pr EXCEPT ![p] = r], CallOK(r), Len(r.puts) <= 2,
           r.pc \notin {"init", "unlink"}, r.iput = "no",
           cwd' \in [Proc -> Inode], file' \in [Proc -> FileType], ref' \in [Inode -> Nat],
           \A q \in Proc \ {p} : cwd'[q] = cwd[q] /\ file'[q] = file[q],
           \A j \in Inode : ref'[j] = ref[j] - Uses(p, j) + Uses(p, j)',
           \A j \in Inode : ref'[j] >= ref[j],
           Good(p, cwd'[p]), Good(p, file'[p].ip), Good(p, r.ip), Good(p, r.held),
           Good(p, Put(p, 1)'), Good(p, Put(p, 2)'), WorkOK(p)',
           DiskInv', TreeInv', LinkInv', BlocksOK(disk', used')
    PROVE  Inv'
<1>t. TypeOK /\ CallInv BY DEF Inv
<1>1. pr'[p] = r /\ \A q \in Proc \ {p} : pr'[q] = pr[q] BY <1>t DEF TypeOK
<1>2. Move(p) BY <1>1 DEF Move
<1>3. Len(pr[p].puts) = 0 /\ pr[p].iput = "no"
  <2>1. Put(p, 1) = 0 /\ ~(0 \in Inode) BY PutValues, Consts
  <2>. QED BY <1>t, <2>1, ProcTypes
<1>4. disk'[i] = z /\ mem'[i] = z /\ \A j \in Inode \ {i} : disk'[j] = disk[j] /\ mem'[j] = mem[j]
  BY <1>t DEF Store, TypeOK
<1>5. Wrote({i})
  <2>1. ref'[i] > 0
    <3>1. ref[i] \in Nat /\ ref'[i] \in Nat /\ ref'[i] >= ref[i] BY <1>t DEF TypeOK
    <3>. QED BY <3>1
  <2>. QED BY <1>4, <2>1 DEF Wrote
<1>6. \A j \in {i} : /\ lock[j] \in {0, p} /\ Plain(p, j)
                     /\ disk[j].type # "FREE" /\ disk'[j].type = disk[j].type
  BY <1>4, Consts DEF Good
<1>7. TypeOK'
  <2>1. disk' \in [Inode -> InodeType] /\ mem' \in [Inode -> InodeType \cup {NoCopy}]
    BY <1>t DEF TypeOK, Store
  <2>2. pr' \in [Proc -> CallType] /\ \A q \in Proc : Len(pr'[q].puts) <= 2
    BY <1>t, <1>1 DEF TypeOK
  <2>3. \A j \in Inode : disk'[j].size <= Len(disk'[j].data)
    <3>. SUFFICES ASSUME NEW j \in Inode PROVE disk'[j].size <= Len(disk'[j].data) OBVIOUS
    <3>1. CASE j = i BY <1>4, <3>1
    <3>2. CASE j # i
      <4>1. disk'[j] = disk[j] BY <1>4, <3>2
      <4>. QED BY <1>t, <4>1 DEF TypeOK
    <3>. QED BY <3>1, <3>2
  <2>. QED BY <1>t, <2>1, <2>2, <2>3 DEF TypeOK
<1>8. LockInv'
  <2>1. Len(pr[p].puts) = 0 /\ LockInv BY <1>3 DEF Inv
  <2>2. pr'[p].pc \notin {"init", "unlink"} /\ pr'[p].iput = "no" BY <1>1
  <2>. QED BY <1>t, <1>2, <2>1, <2>2, LockKeep
<1>9. CallOK(pr'[p]) /\ pr'[p].pc # "init" /\ pr'[p].iput = "no"
      /\ Good(p, pr'[p].ip) /\ Good(p, pr'[p].held) /\ pr[p].pc # "init"
  BY <1>1
<1>. QED BY <1>2, <1>3, <1>5, <1>6, <1>7, <1>8, <1>9, CallStep

\* What a call works on, once it has returned.
LEMMA WorkIdle ==
    ASSUME NEW p \in Proc, NEW s, pr'[p] = Idle(s)
    PROVE  WorkOK(p)'
<1>. SUFFICES ASSUME NEW e, e = pr'[p] PROVE WorkOK(p)' OBVIOUS
<1>1. IsIdle(e, s) BY IdleFields
<1>. QED BY <1>1 DEF WorkOK, IsIdle

LEMMA OpenedKeeps ==
    ASSUME Inv, NEW p \in Proc, pr[p].puts = <<>>, pr[p].pc \notin {"init", "unlink"},
           pr[p].call # "link2", pr[p].ip \in Inode, lock[pr[p].ip] = 0,
           Opened(p, pr[p].ip, Ino(pr[p].ip), <<>>), UNCHANGED <<ref, lock, cwd, lost>>
    PROVE  Inv'
<1>t. TypeOK /\ CallInv BY DEF Inv
<1>. DEFINE i == pr[p].ip
            x == disk[i]
            f == [ip |-> i, off |-> 0, writable |-> pr[p].call # "rdonly"]
<1>1. Good(p, i) /\ ref[i] > 0 /\ i # 0 BY OwnGood, OwnCounted, Consts
<1>2. pr[p].iput = "no" BY <1>t, Unfreed
<1>3. Ino(i) = x /\ x \in InodeType BY <1>2, Current DEF Inv
<1>0. cwd \in [Proc -> Inode] /\ file \in [Proc -> FileType] /\ cwd' = cwd BY <1>t DEF TypeOK
<1>4. CASE Return(p, <<>> \o <<i>>) /\ Load(i) /\ UNCHANGED <<disk, used, file>>
  <2>1. <<>> \o <<i>> = <<i>> OBVIOUS
  <2>. QED BY <1>4, <2>1, GiveUp
<1>5. ASSUME file[p] = NoFile, file' = [file EXCEPT ![p] = f], Return(p, <<>>)
      PROVE  /\ file' \in [Proc -> FileType] /\ file'[p].ip = i
             /\ \A q \in Proc \ {p} : cwd'[q] = cwd[q] /\ file'[q] = file[q]
             /\ \A j \in Inode : One(cwd[p], j) + One(file[p].ip, j) + One(pr[p].ip, j)
                                 = One(cwd'[p], j) + One(file'[p].ip, j) + One(0, j)
             /\ file[p].ip = 0
  <2>1. f \in FileType /\ f.ip = i
    <3>1. 0 \in 0 .. MAXFILE BY Consts
    <3>. QED BY <3>1 DEF FileType
  <2>. HIDE DEF f
  <2>2. file' \in [Proc -> FileType] /\ file'[p].ip = i /\ \A q \in Proc \ {p} : file'[q] = file[q]
    BY <1>0, <1>5, <2>1
  <2>3. file[p].ip = 0 BY <1>5 DEF NoFile
  <2>4. \A j \in Inode : One(cwd[p], j) \in Int BY DEF One
  <2>5. \A j \in Inode : One(cwd[p], j) + One(file[p].ip, j) + One(pr[p].ip, j)
                         = One(cwd'[p], j) + One(file'[p].ip, j) + One(0, j)
    BY <1>0, <2>2, <2>3 DEF One
  <2>. QED BY <1>0, <2>2, <2>3, <2>5
<1>6. CASE /\ file[p] = NoFile /\ file' = [file EXCEPT ![p] = f] /\ Return(p, <<>>)
           /\ Load(i) /\ UNCHANGED <<disk, used>>
  <2>1. Reading(p) BY <1>1, <1>6 DEF Reading
  <2>. SUFFICES ASSUME NEW a, a = 0 PROVE Inv' OBVIOUS
  <2>2. a \in Inode \cup {0} /\ Return(p, IF a = 0 THEN <<>> ELSE <<a>>) BY <1>6
  <2>3. Good(p, a) /\ Good(p, cwd'[p]) /\ Good(p, file'[p].ip)
    BY <1>0, <1>1, <1>5, <1>6, OwnGood DEF Good
  <2>4. /\ file' \in [Proc -> FileType] /\ cwd' \in [Proc -> Inode]
        /\ \A q \in Proc \ {p} : cwd'[q] = cwd[q] /\ file'[q] = file[q]
        /\ \A j \in Inode : One(cwd[p], j) + One(file[p].ip, j) + One(pr[p].ip, j)
                            = One(cwd'[p], j) + One(file'[p].ip, j) + One(a, j)
    BY <1>0, <1>5, <1>6
  <2>5. UNCHANGED <<disk, lock, used, lost, ref>> BY <1>6
  <2>. HIDE DEF f, i
  <2>. QED BY <2>1, <2>2, <2>3, <2>4, <2>5, QuietReturn
<1>7. CASE /\ file[p] = NoFile /\ file' = [file EXCEPT ![p] = f] /\ Return(p, <<>>)
           /\ Store(i, Itrunc(Ino(i))) /\ used' = used \ OwnBlocks(Ino(i))
  <2>. SUFFICES ASSUME NEW z, z = Itrunc(x), NEW e, e = Idle(<<>>) PROVE Inv' OBVIOUS
  <2>1. /\ z.type = x.type /\ z.nlink = x.nlink /\ z.ents = x.ents
        /\ z.size = 0 /\ z.data = <<>> /\ z.ind = 0 /\ z \in InodeType
    <3>1. 0 \in 0 .. MAXFILE /\ 0 \in 0 .. NBLOCKS BY Consts
    <3>2. <<>> \in Seq(Blocks) OBVIOUS
    <3>. QED BY <1>3, <3>1, <3>2 DEF Itrunc, InodeType
  <2>2. z.size <= Len(z.data)
    <3>1. Len(<<>>) = 0 OBVIOUS
    <3>. QED BY <2>1, <3>1
  <2>3. Store(i, z) /\ used' = used \ OwnBlocks(x) BY <1>3, <1>7
  <2>4. BlocksOK(disk', used')
    <3>1. OwnBlocks(z) = {} /\ Apart(z) BY <2>1, EmptyInode
    <3>2. disk \in [Inode -> InodeType] /\ BlocksOK(disk, used) BY <1>t DEF TypeOK, Inv
    <3>3. disk' = [disk EXCEPT ![i] = z] BY <2>3 DEF Store
    <3>. QED BY <2>3, <3>1, <3>2, <3>3, BlocksDrop
  <2>5. pr' = [pr EXCEPT ![p] = e] /\ pr'[p] = e BY <1>t, <1>7 DEF Return, TypeOK
  <2>6. IsIdle(e, <<>>) BY IdleFields
  <2>7. e \in CallType /\ CallOK(e) BY <1>1, IdleOK
  <2>8. Len(e.puts) <= 2 BY <1>1, IdleOK
  <2>9. e.pc = "idle" /\ e.iput = "no" /\ e.call = "none" BY <2>6 DEF IsIdle
  <2>10. e.ip = 0 /\ e.held = 0 /\ e.puts = <<>> BY <2>6 DEF IsIdle
  <2>11. Put(p, 1)' = 0 /\ Put(p, 2)' = 0 BY <2>5, <2>10, PutValues
  <2>12. Put(p, 1) = 0 /\ Put(p, 2) = 0 BY <1>t, Unfreed
  <2>13. pr[p].held = 0
    <3>1. CallOK(pr[p]) BY <1>t, ProcTypes
    <3>. QED BY <3>1 DEF CallOK
  <2>14. LinkOf(p) = 0 /\ LinkOf(p)' = 0
    <3>1. e.call # "link2" BY <2>9
    <3>. QED BY <2>5, <3>1 DEF LinkOf
  <2>15. /\ file' \in [Proc -> FileType] /\ file'[p].ip = i
         /\ \A q \in Proc \ {p} : cwd'[q] = cwd[q] /\ file'[q] = file[q]
         /\ file[p].ip = 0
    BY <1>5, <1>7
  <2>16. \A j \in Inode : ref'[j] = ref[j] - Uses(p, j) + Uses(p, j)' /\ ref'[j] >= ref[j]
    <3>. SUFFICES ASSUME NEW j \in Inode
                  PROVE  ref'[j] = ref[j] - Uses(p, j) + Uses(p, j)' /\ ref'[j] >= ref[j]
      OBVIOUS
    <3>1. Uses(p, j) = One(cwd[p], j) + One(0, j) + One(i, j)
                       + One(0, j) + One(0, j) + One(0, j)
      BY <2>12, <2>13, <2>15 DEF Uses
    <3>2. Uses(p, j)' = One(cwd[p], j) + One(i, j) + One(0, j)
                        + One(0, j) + One(0, j) + One(0, j)
      BY <1>0, <2>5, <2>10, <2>11, <2>15 DEF Uses
    <3>3. One(cwd[p], j) \in Int /\ One(i, j) \in Int /\ One(0, j) = 0 BY Consts DEF One
    <3>4. ref[j] \in Nat /\ ref'[j] = ref[j] BY <1>t DEF TypeOK
    <3>. HIDE DEF i
    <3>. QED BY <3>1, <3>2, <3>3, <3>4
  <2>17. Move(p) BY <1>t, <2>5, <2>15 DEF Move, TypeOK
  <2>18. DiskInv' /\ TreeInv' /\ LinkInv'
    <3>1. \A j \in Inode : /\ disk'[j].type = disk[j].type /\ disk'[j].ents = disk[j].ents
                           /\ disk[j].type = "FREE" => disk'[j] = disk[j]
                           /\ disk'[j].nlink = disk[j].nlink - One(LinkOf(p), j)
                                               + One(LinkOf(p)', j)
      <4>. SUFFICES ASSUME NEW j \in Inode
                    PROVE  /\ disk'[j].type = disk[j].type /\ disk'[j].ents = disk[j].ents
                           /\ disk[j].type = "FREE" => disk'[j] = disk[j]
                           /\ disk'[j].nlink = disk[j].nlink - One(LinkOf(p), j)
                                               + One(LinkOf(p)', j)
        OBVIOUS
      <4>1. One(LinkOf(p), j) = 0 /\ One(LinkOf(p)', j) = 0 BY <2>14, Consts DEF One
      <4>2. disk[j].nlink \in Nat BY <1>t DEF TypeOK, InodeType
      <4>3. disk'[j] = IF j = i THEN z ELSE disk[j] BY <1>t, <2>3 DEF Store, TypeOK
      <4>4. x.type # "FREE" BY <1>1 DEF Good
      <4>. QED BY <2>1, <4>1, <4>2, <4>3, <4>4
    <3>2. TypeOK /\ DiskInv /\ TreeInv /\ LinkInv BY DEF Inv
    <3>. QED BY <2>17, <3>1, <3>2, SameNames
  <2>19. Good(p, 0) /\ Good(p, cwd'[p]) /\ Good(p, file'[p].ip)
    BY <1>0, <1>1, <2>15, OwnGood DEF Good
  <2>20. WorkOK(p)' BY <2>5, WorkIdle
  <2>21. /\ used' \subseteq Blocks /\ lost' \in [Inode -> Nat] /\ ref' \in [Inode -> Nat]
         /\ cwd' \in [Proc -> Inode] /\ e.pc \notin {"init", "unlink"} /\ z.type = disk[i].type
    BY <1>t, <1>0, <2>1, <2>3, <2>9 DEF TypeOK
  <2>. HIDE DEF f, i, x
  <2>22. Good(p, e.ip) /\ Good(p, e.held) /\ Good(p, Put(p, 1)') /\ Good(p, Put(p, 2)')
    BY <2>10, <2>11, <2>19
  <2>23. i \in Inode /\ lock[i] = 0 BY DEF i
  <2>. QED BY <1>1, <2>1, <2>2, <2>3, <2>4, <2>5, <2>7, <2>8, <2>9, <2>15, <2>16, <2>18,
              <2>19, <2>20, <2>21, <2>22, <2>23, StoreStep
<1>8. \/ Return(p, <<>> \o <<i>>) /\ Load(i) /\ UNCHANGED <<disk, used, file>>
      \/ /\ file[p] = NoFile /\ file' = [file EXCEPT ![p] = f] /\ Return(p, <<>>)
         /\ Load(i) /\ UNCHANGED <<disk, used>>
      \/ /\ file[p] = NoFile /\ file' = [file EXCEPT ![p] = f] /\ Return(p, <<>>)
         /\ Store(i, Itrunc(Ino(i))) /\ used' = used \ OwnBlocks(Ino(i))
  BY DEF Opened
<1>. HIDE DEF i, f, x
<1>. QED BY <1>4, <1>6, <1>7, <1>8

LEMMA OpenKeeps == ASSUME Inv, NEW p \in Proc, Open(p) PROVE Inv'
<1>. DEFINE i == pr[p].ip
<1>1. Arrived(p, OpenCalls) /\ UNCHANGED <<ref, lock, cwd, lost>> BY DEF Open
<1>2. /\ pr[p].puts = <<>> /\ pr[p].pc \in {"at", "walk"} /\ pr[p].call \in OpenCalls
      /\ i \in Inode /\ lock[i] = 0
  BY <1>1, ArrivedOK
<1>3. pr[p].call # "link2" /\ pr[p].pc \notin {"init", "unlink"} BY <1>2 DEF OpenCalls
<1>4. CASE Return(p, <<i>>) /\ Load(i) /\ UNCHANGED <<disk, used, file>>
  BY <1>1, <1>2, <1>3, <1>4, GiveUp
<1>5. CASE Opened(p, i, Ino(i), <<>>) BY <1>1, <1>2, <1>3, <1>5, OpenedKeeps
<1>. QED BY <1>4, <1>5 DEF Open

LEMMA CreateExistsKeeps == ASSUME Inv, NEW p \in Proc, CreateExists(p) PROVE Inv'
<1>t. TypeOK /\ CallInv BY DEF Inv
<1>. DEFINE i == pr[p].ip
<1>1. /\ pr[p].pc = "exists" /\ pr[p].puts = <<>> /\ lock[i] = 0
      /\ UNCHANGED <<ref, lock, cwd, lost>>
  BY DEF CreateExists
<1>2. CallOK(pr[p]) /\ pr[p].ip \in Inode \cup {0} BY <1>t, ProcTypes
<1>3. i \in Inode /\ pr[p].call # "link2" /\ pr[p].pc \notin {"init", "unlink"}
  BY <1>1, <1>2 DEF CallOK, CreateCalls
<1>4. CASE Return(p, <<i>>) /\ Load(i) /\ UNCHANGED <<disk, used, file>>
  BY <1>1, <1>3, <1>4, GiveUp
<1>5. CASE Opened(p, i, Ino(i), <<>>) BY <1>1, <1>3, <1>5, OpenedKeeps
<1>. QED BY <1>4, <1>5 DEF CreateExists

LEMMA WriteKeeps ==
    ASSUME Inv, NEW p \in Proc, NEW n \in 1 .. MaxWrite, NEW m \in 0 .. n, Write(p, n, m)
    PROVE  Inv'
<1>t. TypeOK /\ CallInv BY DEF Inv
<1>. DEFINE i == file[p].ip
            o == file[p].off
<1>0. cwd \in [Proc -> Inode] /\ file \in [Proc -> FileType] /\ n \in Nat /\ m \in Nat
  BY <1>t, InodesAssumption DEF TypeOK
<1>1. /\ pr[p].pc = "idle" /\ pr[p].puts = <<>> /\ file[p].writable /\ lock[i] = 0
      /\ o <= Ino(i).size /\ o + n <= MAXFILE
      /\ UNCHANGED <<ref, lock, cwd, pr, lost>>
  BY DEF Write, AtRest
<1>2. file[p] \in [ip : Inode, off : 0 .. MAXFILE, writable : BOOLEAN]
  <2>1. file[p] # NoFile BY <1>1 DEF NoFile
  <2>. QED BY <1>0, <2>1 DEF FileType
<1>3. i \in Inode /\ i # 0 /\ o \in Nat BY <1>2, Consts
<1>4. Good(p, i) /\ ref[i] > 0 BY <1>3, OwnGood, OwnCounted
<1>5. pr[p].iput = "no" /\ Put(p, 1) = 0 /\ Put(p, 2) = 0 BY <1>t, <1>1, Unfreed
<1>. DEFINE x == disk[i]
<1>6. Ino(i) = x /\ x \in InodeType BY <1>1, <1>3, <1>5, Current DEF Inv
<1>7. Fits(x, used) BY <1>t, <1>3, DiskFits DEF Inv
<1>. SUFFICES ASSUME NEW r, r = Writei(x, used, o, n, m) PROVE Inv' OBVIOUS
<1>8. Store(i, r.ino) /\ used' = r.used /\ file' = [file EXCEPT ![p].off = o + r.tot]
  BY <1>6 DEF Write
<1>9. o <= Len(x.data)
  <2>1. x.size <= Len(x.data) /\ x.size \in Nat /\ Len(x.data) \in Nat
    BY <1>7, FitsFields DEF Fits
  <2>2. o <= x.size BY <1>1, <1>6
  <2>. HIDE DEF x
  <2>. QED BY <1>3, <2>1, <2>2
<1>10. Wider(x, used, r.ino, r.used) /\ r.tot \in 0 .. n
       /\ r.ino.nlink = x.nlink /\ r.ino.ents = x.ents
  <2>. HIDE DEF x, o
  <2>. QED BY <1>0, <1>1, <1>3, <1>7, <1>9, WriteiOK DEF o
<1>. SUFFICES ASSUME NEW z, z = r.ino PROVE Inv' OBVIOUS
<1>11. z \in InodeType /\ z.size <= Len(z.data) /\ z.type = x.type /\ used' \subseteq Blocks
  BY <1>8, <1>10 DEF Wider, Fits
<1>12. z.nlink = x.nlink /\ z.ents = x.ents BY <1>10
<1>13. BlocksOK(disk', used')
  <2>1. disk \in [Inode -> InodeType] /\ BlocksOK(disk, used) BY <1>t DEF TypeOK, Inv
  <2>2. disk' = [disk EXCEPT ![i] = z] BY <1>8 DEF Store
  <2>. HIDE DEF i
  <2>. QED BY <1>3, <1>8, <1>10, <2>1, <2>2, BlocksWider
<1>14. /\ file' \in [Proc -> FileType] /\ file'[p].ip = i
       /\ \A q \in Proc \ {p} : cwd'[q] = cwd[q] /\ file'[q] = file[q]
  <2>1. o + r.tot \in 0 .. MAXFILE
    <3>. DEFINE a == r.tot
    <3>1. a \in 0 .. n BY <1>10
    <3>. HIDE DEF a, o
    <3>2. o + a \in 0 .. MAXFILE BY <1>0, <1>1, <1>3, <3>1, Consts
    <3>. QED BY <3>2 DEF a
  <2>. SUFFICES ASSUME NEW b \in 0 .. MAXFILE, b = o + r.tot
                PROVE  /\ file' \in [Proc -> FileType] /\ file'[p].ip = i
                       /\ \A q \in Proc \ {p} : cwd'[q] = cwd[q] /\ file'[q] = file[q]
    BY <2>1
  <2>2. file' = [file EXCEPT ![p] = [file[p] EXCEPT !.off = b]] BY <1>8
  <2>3. [file[p] EXCEPT !.off = b] \in FileType /\ [file[p] EXCEPT !.off = b].ip = i
    BY <1>2 DEF FileType
  <2>. QED BY <1>0, <1>1, <2>2, <2>3
<1>. SUFFICES ASSUME NEW e, e = pr[p] PROVE Inv' OBVIOUS
<1>15. /\ e \in CallType /\ CallOK(e) /\ e.pc \notin {"init", "unlink"} /\ e.iput = "no"
       /\ pr' = [pr EXCEPT ![p] = e] /\ Len(e.puts) <= 2
  BY <1>t, <1>1, <1>5, ProcTypes DEF TypeOK
<1>16. Good(p, cwd'[p]) /\ Good(p, file'[p].ip) /\ Good(p, e.ip) /\ Good(p, e.held)
  BY <1>1, <1>14, OwnGood
<1>17. pr' = pr BY <1>1
<1>18. Put(p, 1)' = 0 /\ Put(p, 2)' = 0 /\ Good(p, 0) BY <1>1, <1>17, PutValues DEF Good
<1>19. \A j \in Inode : ref'[j] = ref[j] - Uses(p, j) + Uses(p, j)' /\ ref'[j] >= ref[j]
  <2>. SUFFICES ASSUME NEW j \in Inode
                PROVE  ref'[j] = ref[j] - Uses(p, j) + Uses(p, j)' /\ ref'[j] >= ref[j]
    OBVIOUS
  <2>1. Uses(p, j)' = Uses(p, j) BY <1>1, <1>5, <1>14, <1>18 DEF Uses
  <2>2. Uses(p, j) \in Int BY DEF Uses, One
  <2>3. ref[j] \in Nat /\ ref'[j] = ref[j] BY <1>t, <1>1 DEF TypeOK
  <2>. QED BY <2>1, <2>2, <2>3
<1>20. LinkOf(p)' = LinkOf(p) BY <1>1 DEF LinkOf
<1>21. Move(p) BY <1>1, <1>14 DEF Move
<1>22. DiskInv' /\ TreeInv' /\ LinkInv'
  <2>1. \A j \in Inode : /\ disk'[j].type = disk[j].type /\ disk'[j].ents = disk[j].ents
                         /\ disk[j].type = "FREE" => disk'[j] = disk[j]
                         /\ disk'[j].nlink = disk[j].nlink - One(LinkOf(p), j)
                                             + One(LinkOf(p)', j)
    <3>. SUFFICES ASSUME NEW j \in Inode
                  PROVE  /\ disk'[j].type = disk[j].type /\ disk'[j].ents = disk[j].ents
                         /\ disk[j].type = "FREE" => disk'[j] = disk[j]
                         /\ disk'[j].nlink = disk[j].nlink - One(LinkOf(p), j)
                                             + One(LinkOf(p)', j)
      OBVIOUS
    <3>1. One(LinkOf(p), j) \in Int /\ One(LinkOf(p)', j) = One(LinkOf(p), j) BY <1>20 DEF One
    <3>2. disk[j].nlink \in Nat BY <1>t DEF TypeOK, InodeType
    <3>3. disk'[j] = IF j = i THEN z ELSE disk[j] BY <1>t, <1>8 DEF Store, TypeOK
    <3>4. x.type # "FREE" BY <1>3, <1>4 DEF Good
    <3>. QED BY <1>11, <1>12, <3>1, <3>2, <3>3, <3>4
  <2>2. TypeOK /\ DiskInv /\ TreeInv /\ LinkInv /\ UNCHANGED lost BY <1>1 DEF Inv
  <2>. QED BY <1>21, <2>1, <2>2, SameNames
<1>23. WorkOK(p)'
  <2>1. e.call = "none"
    <3>1. CallOK(pr[p]) BY <1>t, ProcTypes
    <3>. QED BY <1>1, <3>1 DEF CallOK
  <2>. QED BY <1>1, <1>17, <2>1 DEF WorkOK
<1>24. /\ lost' \in [Inode -> Nat] /\ ref' \in [Inode -> Nat] /\ cwd' \in [Proc -> Inode]
       /\ z.type = disk[i].type /\ Store(i, z)
  BY <1>t, <1>0, <1>1, <1>8, <1>11 DEF TypeOK
<1>25. Good(p, Put(p, 1)') /\ Good(p, Put(p, 2)') BY <1>18
<1>26. pr[p].pc \notin {"init", "unlink"} BY <1>1
<1>. HIDE DEF i, x
<1>. QED BY <1>1, <1>3, <1>4, <1>11, <1>13, <1>14, <1>15, <1>16, <1>19, <1>22, <1>23, <1>24,
            <1>25, <1>26, StoreStep

----------------------------------------------------------------------------
(* create(), unlink() and link(): the steps that store nothing             *)

LEMMA CreateFoundKeeps == ASSUME Inv, NEW p \in Proc, CreateFound(p) PROVE Inv'
<1>t. TypeOK /\ CallInv /\ WorkInv BY DEF Inv
<1>. DEFINE d == pr[p].ip
            i == Ino(d).ents[Elem(pr[p])]
<1>1. /\ pr[p].puts = <<>> /\ pr[p].pc \in {"at", "walk"} /\ pr[p].call \in CreateCalls
      /\ d \in Inode /\ Good(p, d) /\ lock[d] = 0
      /\ Ino(d) = disk[d] /\ ref[d] > 0 /\ pr[p].iput = "no"
      /\ pr[p].rest \in Seq(Names)
      /\ Parent(pr[p].call) => pr[p].rest # <<>>
  BY ArrivedOK DEF CreateFound
<1>2. pr[p].rest # <<>> BY <1>1 DEF Parent, CreateCalls
<1>3. i # 0 /\ Load(d) /\ ref' = Iget(ref, i) /\ UNCHANGED <<disk, lock, used, Files, lost>>
  BY DEF CreateFound
<1>4. i \in Inode /\ Good(p, i)
  <2>. SUFFICES ASSUME NEW rest, rest = pr[p].rest PROVE i \in Inode /\ Good(p, i) OBVIOUS
  <2>1. LET next == disk[d].ents[Head(rest)]
        IN next \in Inode \cup {0} /\ (next # 0 => Good(p, next))
    BY <1>1, <1>2, Lookup
  <2>2. i = disk[d].ents[Head(rest)] BY <1>1 DEF Elem
  <2>. QED BY <1>3, <2>1, <2>2
<1>. SUFFICES ASSUME NEW a \in Inode, a = i, NEW c \in Inode, c = d,
                     NEW e, e = [pr[p] EXCEPT !.pc = "exists", !.ip = a, !.puts = <<c>>],
                     ref[c] > 0
              PROVE  Inv'
  BY <1>1, <1>4
<1>5. pr' = [pr EXCEPT ![p] = e] /\ pr'[p] = e
  <2>1. pr' = [pr EXCEPT ![p].pc = "exists", ![p].ip = a, ![p].puts = <<c>>]
    BY DEF CreateFound
  <2>. QED BY <1>t, <2>1 DEF TypeOK, CallType
<1>6. /\ e.pc = "exists" /\ e.ip = a /\ e.puts = <<c>> /\ e.call = pr[p].call
      /\ e.held = pr[p].held /\ e.rest = pr[p].rest /\ e.new = pr[p].new /\ e.iput = "no"
  BY <1>t, <1>1 DEF TypeOK, CallType
<1>7. e.puts \in Seq(Inode) /\ Len(e.puts) = 1 BY <1>6
<1>8. CallOK(pr[p]) /\ pr[p] \in CallType BY <1>t, ProcTypes
<1>9. CallOK(e)
  <2>1. a # 0 BY Consts
  <2>2. Len(e.puts) <= 1 BY <1>7
  <2>3. e.rest \in Seq(Names) /\ e.new \in Seq(Names) BY <1>6, <1>8 DEF CallOK
  <2>4. e.ip # 0 /\ e.call \in CreateCalls /\ e.held = 0
    BY <1>1, <1>6, <1>8, <2>1 DEF CallOK, CreateCalls
  <2>. QED BY <1>6, <2>2, <2>3, <2>4 DEF CallOK, CreateCalls
<1>10. e \in CallType BY <1>6, <1>7, <1>8, Consts DEF CallType
<1>11. Len(e.puts) <= 2 BY <1>7
<1>12. Put(p, 1)' = c /\ Put(p, 2)' = 0 BY <1>5, <1>6, PutValues
<1>13. Put(p, 1) = 0 /\ Put(p, 2) = 0 BY <1>t, <1>1, Unfreed
<1>14. pr[p].held = 0 /\ e.held = 0
  BY <1>1, <1>6, <1>8 DEF CallOK, CreateCalls
<1>15. cwd' = cwd /\ file' = file BY <1>3 DEF Files
<1>16. \A j \in Inode : ref'[j] = ref[j] - Uses(p, j) + Uses(p, j)' /\ ref'[j] >= ref[j]
  <2>. SUFFICES ASSUME NEW j \in Inode
                PROVE  ref'[j] = ref[j] - Uses(p, j) + Uses(p, j)' /\ ref'[j] >= ref[j]
    OBVIOUS
  <2>1. Uses(p, j) = One(cwd[p], j) + One(file[p].ip, j) + One(c, j)
                     + One(0, j) + One(0, j) + One(0, j)
    BY <1>13, <1>14 DEF Uses
  <2>2. Uses(p, j)' = One(cwd[p], j) + One(file[p].ip, j) + One(a, j)
                      + One(0, j) + One(c, j) + One(0, j)
    BY <1>5, <1>6, <1>12, <1>14, <1>15 DEF Uses
  <2>3. /\ One(cwd[p], j) \in Int /\ One(file[p].ip, j) \in Int /\ One(c, j) \in Int
        /\ One(a, j) \in Int /\ One(a, j) >= 0 /\ One(0, j) = 0
    BY Consts DEF One
  <2>4. ref[j] \in Nat /\ ref'[j] = ref[j] + One(a, j) BY <1>t, <1>3 DEF TypeOK, Iget, One
  <2>. QED BY <2>1, <2>2, <2>3, <2>4
<1>17. Reading(p)
  <2>1. ref \in [Inode -> Nat] /\ ref' = [ref EXCEPT ![a] = @ + 1] /\ c \in Inode
    BY <1>t, <1>3 DEF Iget, TypeOK
  <2>2. ref[c] \in Nat /\ ref'[c] >= ref[c] BY ONLY <2>1, a \in Inode
  <2>3. ref'[c] > 0 BY ONLY <2>1, <2>2, ref[c] > 0, a \in Inode
  <2>. QED BY <1>1, <1>3, <2>3 DEF Reading
<1>18. LinkOf(p)' = LinkOf(p) BY <1>1, <1>5, <1>6 DEF LinkOf, CreateCalls
<1>19. WorkOK(p)'
  <2>1. e.pc \notin {"init", "unlink"} /\ e.pc # "at" /\ e.call # "link2"
    BY <1>1, <1>6 DEF CreateCalls
  <2>. QED BY <1>t, <1>3, <1>5, <2>1, WorkQuiet
<1>20. Good(p, 0) /\ Good(p, a) /\ Good(p, c) /\ Good(p, cwd'[p]) /\ Good(p, file'[p].ip)
  BY <1>1, <1>4, <1>15, OwnGood DEF Good
<1>21. /\ cwd' \in [Proc -> Inode] /\ file' \in [Proc -> FileType] /\ ref' \in [Inode -> Nat]
       /\ \A q \in Proc \ {p} : cwd'[q] = cwd[q] /\ file'[q] = file[q]
  BY <1>t, <1>3, <1>4, <1>15 DEF TypeOK, Iget
<1>22. e.pc \notin {"init", "unlink"} /\ e.iput = "no" /\ pr[p].pc \notin {"init", "unlink"}
       /\ UNCHANGED <<disk, lock, used, lost>>
  BY <1>1, <1>3, <1>6
<1>23. Good(p, e.ip) /\ Good(p, e.held) /\ Good(p, Put(p, 1)') /\ Good(p, Put(p, 2)')
  BY <1>6, <1>12, <1>14, <1>20
<1>. HIDE DEF d, i
<1>. QED BY <1>1, <1>5, <1>9, <1>10, <1>11, <1>16, <1>17, <1>18, <1>19, <1>20, <1>21, <1>22,
            <1>23, QuietStep

\* The inode that a call has come to, read in and kept locked.
LEMMA LockTaken ==
    ASSUME Inv, NEW p \in Proc, pr[p].puts = <<>>, pr[p].pc \notin {"init", "unlink"}, Move(p),
           NEW d \in Inode, lock[d] = 0, lock' = [lock EXCEPT ![d] = p],
           pr'[p].pc \in {"init", "unlink"}, pr'[p].ip = d, pr'[p].iput = "no"
    PROVE  LockInv'
<1>t. TypeOK /\ CallInv /\ LockInv BY DEF Inv
<1>1. Len(pr[p].puts) = 0
  <2>1. Put(p, 1) = 0 BY PutValues
  <2>. QED BY <1>t, <2>1, ProcTypes
<1>2. \A i \in Inode : lock[i] # p BY <1>t, <1>1, NotLocked
<1>3. lock'[d] = p /\ \A i \in Inode : i # d => lock'[i] = lock[i] BY <1>t DEF TypeOK
<1>4. \A i \in Inode : /\ lock'[i] = p => Locks(p, i)'
                       /\ lock'[i] \notin {0, p} => lock'[i] = lock[i]
                       /\ lock[i] \notin {0, p} => lock'[i] = lock[i]
  <2>. SUFFICES ASSUME NEW i \in Inode
                PROVE  /\ lock'[i] = p => Locks(p, i)'
                       /\ lock'[i] \notin {0, p} => lock'[i] = lock[i]
                       /\ lock[i] \notin {0, p} => lock'[i] = lock[i]
    OBVIOUS
  <2>1. CASE i = d BY <1>3, <2>1 DEF Locks
  <2>2. CASE i # d BY <1>2, <1>3, <2>2
  <2>. QED BY <2>1, <2>2
<1>5. pr'[p].pc \in {"init", "unlink"} => lock'[pr'[p].ip] = p BY <1>3
<1>6. pr'[p].iput = "freeing" => lock'[Put(p, 1)'] = p OBVIOUS
<1>. QED BY <1>t, <1>4, <1>5, <1>6, LockStep

LEMMA UnlinkLookupKeeps == ASSUME Inv, NEW p \in Proc, UnlinkLookup(p) PROVE Inv'
<1>t. TypeOK /\ CallInv /\ WorkInv BY DEF Inv
<1>. DEFINE d == pr[p].ip
            name == Elem(pr[p])
            i == Ino(d).ents[name]
<1>1. /\ pr[p].puts = <<>> /\ pr[p].pc \in {"at", "walk"} /\ pr[p].call = "unlink"
      /\ d \in Inode /\ Good(p, d) /\ lock[d] = 0
      /\ Ino(d) = disk[d] /\ disk[d] \in InodeType /\ ref[d] > 0 /\ pr[p].iput = "no"
      /\ pr[p].rest \in Seq(Names)
      /\ Parent(pr[p].call) => /\ pr[p].pc = "at" /\ Len(pr[p].rest) = 1 /\ pr[p].rest # <<>>
                               /\ disk[pr[p].ip].type = "DIR"
  BY ArrivedOK DEF UnlinkLookup
<1>2. /\ pr[p].rest # <<>> /\ Len(pr[p].rest) = 1 /\ disk[d].type = "DIR"
      /\ pr[p].pc \notin {"init", "unlink"} /\ pr[p].call # "link2"
  BY <1>1 DEF Parent
<1>3. Load(d) /\ UNCHANGED <<disk, used, Files, lost>> BY DEF UnlinkLookup
<1>f. cwd' = cwd /\ file' = file BY <1>3 DEF Files
<1>4. CASE Return(p, <<d>>) /\ UNCHANGED <<ref, lock>> BY <1>1, <1>2, <1>3, <1>f, <1>4, GiveUp
<1>5. CASE /\ i # 0 /\ ref' = Iget(ref, i) /\ lock' = [lock EXCEPT ![d] = p]
           /\ pr' = [pr EXCEPT ![p].pc = "unlink", ![p].held = i]
  <2>1. i \in Inode /\ Good(p, i)
    <3>. SUFFICES ASSUME NEW rest, rest = pr[p].rest PROVE i \in Inode /\ Good(p, i) OBVIOUS
    <3>1. LET next == disk[d].ents[Head(rest)]
          IN next \in Inode \cup {0} /\ (next # 0 => Good(p, next))
      BY <1>1, <1>2, Lookup
    <3>2. i = disk[d].ents[Head(rest)] BY <1>1 DEF Elem
    <3>. QED BY <1>5, <3>1, <3>2
  <2>. SUFFICES ASSUME NEW a \in Inode, a = i, NEW c \in Inode, c = d,
                       NEW e, e = [pr[p] EXCEPT !.pc = "unlink", !.held = a]
                PROVE  Inv'
    BY <1>1, <2>1
  <2>2. pr' = [pr EXCEPT ![p] = e] /\ pr'[p] = e BY <1>t, <1>5 DEF TypeOK, CallType
  <2>3. /\ e.pc = "unlink" /\ e.ip = c /\ e.puts = <<>> /\ e.call = "unlink"
        /\ e.held = a /\ e.rest = pr[p].rest /\ e.new = pr[p].new /\ e.iput = "no"
    BY <1>t, <1>1 DEF TypeOK, CallType
  <2>4. CallOK(pr[p]) /\ pr[p] \in CallType BY <1>t, ProcTypes
  <2>5. a # 0 /\ c # 0 /\ Len(<<>>) = 0 BY Consts
  <2>6. CallOK(e)
    <3>1. e.rest \in Seq(Names) /\ e.new \in Seq(Names) BY <2>3, <2>4 DEF CallOK
    <3>2. Len(e.puts) = 0 /\ Len(e.rest) = 1 BY <1>2, <2>3, <2>5
    <3>. QED BY <2>3, <2>5, <3>1, <3>2 DEF CallOK
  <2>7. e \in CallType BY <2>3, <2>4, Consts DEF CallType
  <2>8. Put(p, 1)' = 0 /\ Put(p, 2)' = 0 BY <2>2, <2>3, PutValues
  <2>9. Put(p, 1) = 0 /\ Put(p, 2) = 0 BY <1>t, <1>1, Unfreed
  <2>10. pr[p].held = 0 BY <1>1, <1>2, <2>4 DEF CallOK
  <2>11. \A j \in Inode : ref'[j] = ref[j] - Uses(p, j) + Uses(p, j)' /\ ref'[j] >= ref[j]
    <3>. SUFFICES ASSUME NEW j \in Inode
                  PROVE  ref'[j] = ref[j] - Uses(p, j) + Uses(p, j)' /\ ref'[j] >= ref[j]
      OBVIOUS
    <3>1. Uses(p, j) = One(cwd[p], j) + One(file[p].ip, j) + One(c, j)
                       + One(0, j) + One(0, j) + One(0, j)
      BY <2>9, <2>10 DEF Uses
    <3>2. Uses(p, j)' = One(cwd[p], j) + One(file[p].ip, j) + One(c, j)
                        + One(a, j) + One(0, j) + One(0, j)
      BY <1>f, <2>2, <2>3, <2>8 DEF Uses
    <3>3. /\ One(cwd[p], j) \in Int /\ One(file[p].ip, j) \in Int /\ One(c, j) \in Int
          /\ One(a, j) \in Int /\ One(a, j) >= 0 /\ One(0, j) = 0
      BY Consts DEF One
    <3>4. ref[j] \in Nat /\ ref'[j] = ref[j] + One(a, j) BY <1>t, <1>5 DEF TypeOK, Iget, One
    <3>. QED BY <3>1, <3>2, <3>3, <3>4
  <2>12. Move(p) BY <1>t, <1>f, <2>2 DEF Move, TypeOK
  <2>13. Wrote({c})
    <3>1. ref[c] \in Nat /\ ref'[c] >= ref[c] /\ ref'[c] \in Nat
      BY <1>5, <2>1, <1>t DEF Iget, TypeOK
    <3>2. ref'[c] > 0 BY <1>1, <3>1
    <3>. QED BY <1>1, <1>3, <3>2, LoadWrites
  <2>14. \A j \in {c} : /\ lock[j] \in {0, p} /\ Plain(p, j)
                        /\ disk[j].type # "FREE" /\ disk'[j].type = disk[j].type
    BY <1>1, <1>3, <2>5 DEF Good
  <2>15. TypeOK'
    <3>1. mem' \in [Inode -> InodeType \cup {NoCopy}] BY <1>t, <1>1, <1>3 DEF Load, TypeOK
    <3>2. ref' \in [Inode -> Nat] /\ lock' \in [Inode -> Proc \cup {0}]
      BY <1>t, <1>5, <2>1 DEF Iget, TypeOK
    <3>3. pr' \in [Proc -> CallType] /\ \A q \in Proc : Len(pr'[q].puts) <= 2
      <4>1. Len(e.puts) = 0 BY <2>3, <2>5
      <4>. QED BY <1>t, <2>2, <2>7, <4>1 DEF TypeOK
    <3>. QED BY <1>t, <1>3, <1>f, <3>1, <3>2, <3>3 DEF TypeOK
  <2>16. LinkOf(p)' = LinkOf(p) BY <1>1, <2>2, <2>3 DEF LinkOf
  <2>17. DiskInv' /\ TreeInv' /\ LinkInv' /\ BlocksOK(disk', used')
    BY <1>3, <2>12, <2>16, Reads
  <2>18. LockInv'
    <3>1. pr'[p].pc \in {"init", "unlink"} /\ pr'[p].ip = c /\ pr'[p].iput = "no"
      BY <2>2, <2>3
    <3>. QED BY <1>1, <1>2, <1>5, <2>12, <3>1, LockTaken
  <2>19. WorkOK(p)'
    <3>1. Elem(pr'[p]) = name BY <2>2, <2>3 DEF Elem
    <3>2. disk' = disk /\ disk[c].ents[name] = a BY <1>1, <1>3
    <3>3. pr'[p].pc = "unlink" /\ pr'[p].call = "unlink" /\ pr'[p].held = a /\ pr'[p].ip = c
      BY <2>2, <2>3
    <3>. QED BY <1>2, <3>1, <3>2, <3>3 DEF WorkOK
  <2>20. Good(p, 0) /\ Good(p, cwd'[p]) /\ Good(p, file'[p].ip) /\ Good(p, pr'[p].ip)
         /\ Good(p, pr'[p].held)
    <3>1. Good(p, 0) BY DEF Good
    <3>2. Good(p, cwd'[p]) /\ Good(p, file'[p].ip) BY <1>f, OwnGood
    <3>3. Good(p, c) /\ Good(p, a) BY <1>1, <2>1
    <3>. QED BY <2>2, <2>3, <3>1, <3>2, <3>3
  <2>21. Good(p, Put(p, 1)') /\ Good(p, Put(p, 2)') BY <2>8, <2>20
  <2>22. CallOK(pr'[p]) /\ pr'[p].pc # "init" /\ pr'[p].iput = "no" /\ pr[p].pc # "init"
    BY <1>2, <2>2, <2>3, <2>6
  <2>. QED BY <1>1, <2>11, <2>12, <2>13, <2>14, <2>15, <2>17, <2>18, <2>19, <2>20, <2>21,
              <2>22, CallStep
<1>. QED BY <1>4, <1>5 DEF UnlinkLookup

----------------------------------------------------------------------------
(* Steps that change the tree                                              *)

\* A step that changes one name at most, and the place of one directory.
LEMMA LinksMove ==
    ASSUME NEW p \in Proc, Move(p), TypeOK, LinkInv, UNCHANGED lost,
           NEW x \in Name, NEW c \in Inode,
           \A y \in Name : y # x => NameIn(y)' = NameIn(y),
           \A d \in Inode : d # c => (ParentOf')[d] = ParentOf[d],
           \A i \in Inode :
               disk'[i].nlink = disk[i].nlink - One(NameIn(x), i) + One(NameIn(x)', i)
                                - One(ParentOf[c], i) + One((ParentOf')[c], i)
                                - One(LinkOf(p), i) + One(LinkOf(p)', i)
    PROVE  LinkInv'
<1>. SUFFICES ASSUME NEW i \in Inode
              PROVE  disk'[i].nlink = Tally(Name, NameTo', i) + Tally(Inode, ParentOf', i)
                                      + Tally(Proc, LinkTo', i) + lost'[i]
  BY DEF LinkInv
<1>1. Tally(Name, NameTo', i) = Tally(Name, NameTo, i) - One(NameIn(x), i) + One(NameIn(x)', i)
  <2>1. \A y \in Name : NameTo[y] = NameIn(y) /\ (NameTo')[y] = NameIn(y)' BY DEF NameTo
  <2>. DEFINE f == NameTo
              g == NameTo'
  <2>2. Change(Name, f, g, x) BY <2>1 DEF Change
  <2>3. f[x] = NameIn(x) /\ g[x] = NameIn(x)' BY <2>1
  <2>. HIDE DEF f, g
  <2>4. Tally(Name, g, i) = Tally(Name, f, i) - One(f[x], i) + One(g[x], i)
    BY <2>2, FinitelyMany, TallySet
  <2>. QED BY <2>3, <2>4 DEF f, g
<1>2. Tally(Inode, ParentOf', i) = Tally(Inode, ParentOf, i) - One(ParentOf[c], i)
                                   + One((ParentOf')[c], i)
  <2>. DEFINE f == ParentOf
              g == ParentOf'
  <2>2. Change(Inode, f, g, c) BY DEF Change
  <2>. HIDE DEF f, g
  <2>4. Tally(Inode, g, i) = Tally(Inode, f, i) - One(f[c], i) + One(g[c], i)
    BY <2>2, TallySet, FinitelyMany
  <2>. QED BY <2>4 DEF f, g
<1>3. Tally(Proc, LinkTo', i) = Tally(Proc, LinkTo, i) - One(LinkOf(p), i) + One(LinkOf(p)', i)
  <2>1. \A q \in Proc : LinkTo[q] = LinkOf(q) /\ (LinkTo')[q] = LinkOf(q)' BY DEF LinkTo
  <2>. DEFINE f == LinkTo
              g == LinkTo'
  <2>2. Change(Proc, f, g, p) BY <2>1 DEF Change, Move, LinkOf
  <2>3. f[p] = LinkOf(p) /\ g[p] = LinkOf(p)' BY <2>1
  <2>. HIDE DEF f, g
  <2>4. Tally(Proc, g, i) = Tally(Proc, f, i) - One(f[p], i) + One(g[p], i)
    BY <2>2, TallySet, FinitelyMany
  <2>. QED BY <2>3, <2>4 DEF f, g
<1>4. disk[i].nlink = Tally(Name, NameTo, i) + Tally(Inode, ParentOf, i)
                      + Tally(Proc, LinkTo, i) + lost[i]
  BY DEF LinkInv
<1>5. lost[i] \in Nat /\ lost'[i] = lost[i] BY DEF TypeOK
<1>6. /\ One(NameIn(x), i) \in Int /\ One(NameIn(x)', i) \in Int
      /\ One(ParentOf[c], i) \in Int /\ One((ParentOf')[c], i) \in Int
      /\ One(LinkOf(p), i) \in Int /\ One(LinkOf(p)', i) \in Int
  BY DEF One
<1>7. disk'[i].nlink = disk[i].nlink - One(NameIn(x), i) + One(NameIn(x)', i)
                       - One(ParentOf[c], i) + One((ParentOf')[c], i)
                       - One(LinkOf(p), i) + One(LinkOf(p)', i)
  OBVIOUS
<1>. QED BY <1>1, <1>2, <1>3, <1>4, <1>5, <1>6, <1>7, LinkCountsNat

\* An inode without links has no name, is no directory's parent, and no link() is at it.
LEMMA Unlinked ==
    ASSUME TypeOK, DiskInv, LinkInv, NEW i \in Inode, disk[i].nlink = 0
    PROVE  /\ \A x \in Name : NameIn(x) # i
           /\ \A d \in Inode : ParentOf[d] # i
           /\ \A q \in Proc : LinkOf(q) # i
           /\ ~InTree(i) /\ i # ROOTINO /\ lost[i] = 0
<1>1. disk[i].nlink = Tally(Name, NameTo, i) + Tally(Inode, ParentOf, i)
                      + Tally(Proc, LinkTo, i) + lost[i]
  BY DEF LinkInv
<1>2. lost[i] \in Nat BY DEF TypeOK
<1>3. Tally(Name, NameTo, i) = 0 /\ Tally(Inode, ParentOf, i) = 0 /\ Tally(Proc, LinkTo, i) = 0
      /\ lost[i] = 0
  BY <1>1, <1>2, LinkCountsNat
<1>4. \A x \in Name : NameIn(x) # i
  <2>1. \A x \in Name : NameTo[x] # i BY <1>3, FinitelyMany, TallyFew
  <2>. QED BY <2>1 DEF NameTo
<1>5. \A d \in Inode : ParentOf[d] # i BY <1>3, FinitelyMany, TallyFew
<1>6. \A q \in Proc : LinkOf(q) # i
  <2>1. \A q \in Proc : LinkTo[q] # i BY <1>3, FinitelyMany, TallyFew
  <2>. QED BY <2>1 DEF LinkTo
<1>7. i # ROOTINO
  <2>1. disk[ROOTINO].nlink > 0 BY RootLinked
  <2>2. ~(0 > 0) OBVIOUS
  <2>. QED BY <2>1, <2>2
<1>. QED BY <1>3, <1>4, <1>5, <1>6, <1>7 DEF InTree

----------------------------------------------------------------------------
(* create()                                                                *)

\* An inode that is free on the disk has no reference but that of an iput() that frees it.
LEMMA FreeRefs ==
    ASSUME Inv, NEW i \in Inode, disk[i].type = "FREE"
    PROVE  /\ \A x \in Slot : Ref(x) = i => Kind(x) \in {"freed", "dropped"}
           /\ mem[i] = NoCopy \/ Freeing(i)
           /\ disk[i] = NoInode
<1>1. \A x \in Slot : Kind(x) \in {"new", "freed", "dropped", "plain"} BY DEF Kind
<1>2. \A x \in Slot : Ref(x) = i => Kind(x) \in {"freed", "dropped"}
  BY <1>1, Consts DEF Inv, AllocInv
<1>3. mem[i] = NoCopy \/ Freeing(i) BY DEF Inv, MemInv
<1>4. disk[i] = NoInode BY DEF Inv, DiskInv
<1>. QED BY <1>2, <1>3, <1>4

\* ialloc() marks a free inode allocated.
LEMMA AllocatesTree ==
    ASSUME Inv, NEW p \in Proc, Move(p), UNCHANGED <<used, lost>>, LinkOf(p)' = LinkOf(p),
           NEW i \in Inode, disk[i].type = "FREE",
           NEW t \in {"DIR", "FILE", "DEVICE"}, disk' = [disk EXCEPT ![i] = Allocated(t)]
    PROVE  DiskInv' /\ TreeInv' /\ LinkInv' /\ BlocksOK(disk', used')
<1>t. TypeOK /\ DiskInv /\ LinkInv /\ TreeInv /\ BlocksOK(disk, used) BY DEF Inv
<1>. SUFFICES ASSUME NEW z, z = Allocated(t)
              PROVE  DiskInv' /\ TreeInv' /\ LinkInv' /\ BlocksOK(disk', used')
  OBVIOUS
<1>1. /\ z.type = t /\ z.nlink = 0 /\ z.ents = NoEnts /\ z.data = <<>> /\ z.ind = 0
  BY DEF Allocated, NoInode
<1>2. disk'[i] = z /\ \A j \in Inode : j # i => disk'[j] = disk[j] BY <1>t DEF TypeOK
<1>3. disk[i] = NoInode BY FreeRefs
<1>4. disk[i].nlink = 0 /\ disk[i].data = <<>> /\ disk[i].ind = 0 BY <1>3 DEF NoInode
<1>5. /\ \A x \in Name : NameIn(x) # i
      /\ ~InTree(i) /\ i # ROOTINO
  BY <1>t, <1>4, Unlinked
<1>6. \A x \in Name : NameIn(x)' = NameIn(x)
  <2>. SUFFICES ASSUME NEW x \in Name PROVE NameIn(x)' = NameIn(x) OBVIOUS
  <2>1. x[1] \in Inode /\ x[2] \in Entries BY Consts DEF Name
  <2>2. CASE x[1] = i
    <3>1. NameIn(x) = 0 BY <2>2 DEF NameIn
    <3>2. NameIn(x)' = 0
      <4>1. NoEnts[x[2]] = 0 BY <2>1 DEF NoEnts
      <4>. QED BY <1>1, <1>2, <2>2, <4>1 DEF NameIn
    <3>. QED BY <3>1, <3>2
  <2>3. CASE x[1] # i BY <1>2, <2>1, <2>3 DEF NameIn
  <2>. QED BY <2>2, <2>3
<1>7. \A d \in Inode : InTree(d)' <=> InTree(d)
  <2>. SUFFICES ASSUME NEW d \in Inode PROVE InTree(d)' <=> InTree(d) OBVIOUS
  <2>1. CASE d = i BY <1>5, <1>6, <2>1 DEF InTree
  <2>2. CASE d # i BY <1>2, <1>6, <2>2 DEF InTree
  <2>. QED BY <2>1, <2>2
<1>8. \A d \in Inode : (ParentOf')[d] = ParentOf[d] BY <1>2, <1>5, <1>7 DEF ParentOf
<1>9. DiskInv' BY <1>t, <1>1, <1>2, <1>5, Consts DEF DiskInv
<1>10. TreeInv'
  <2>1. \A x \in Name : NameIn(x) # 0 => NameIn(x) \in Inode BY <1>t, NamedInode
  <2>. QED BY <1>t, <1>2, <1>5, <1>6, <2>1 DEF TreeInv
<1>11. LinkInv'
  <2>. SUFFICES ASSUME NEW j \in Inode
                PROVE  disk'[j].nlink = Tally(Name, NameTo', j) + Tally(Inode, ParentOf', j)
                                        + Tally(Proc, LinkTo', j) + lost'[j]
    BY DEF LinkInv
  <2>1. Tally(Name, NameTo', j) = Tally(Name, NameTo, j)
    <3>1. \A x \in Name : (NameTo')[x] = NameTo[x] BY <1>6 DEF NameTo
    <3>. QED BY <3>1, TallySame
  <2>2. Tally(Inode, ParentOf', j) = Tally(Inode, ParentOf, j) BY <1>8, TallySame
  <2>3. Tally(Proc, LinkTo', j) = Tally(Proc, LinkTo, j)
    <3>1. \A q \in Proc : LinkOf(q)' = LinkOf(q) BY DEF Move, LinkOf
    <3>2. \A q \in Proc : (LinkTo')[q] = LinkTo[q] BY <3>1 DEF LinkTo
    <3>. QED BY <3>2, TallySame
  <2>4. disk'[j].nlink = disk[j].nlink BY <1>1, <1>2, <1>4
  <2>. QED BY <1>t, <2>1, <2>2, <2>3, <2>4 DEF LinkInv
<1>12. BlocksOK(disk', used')
  <2>1. disk \in [Inode -> InodeType] BY <1>t DEF TypeOK
  <2>. QED BY <1>t, <1>1, <1>4, <2>1, BlocksEdit
<1>. QED BY <1>9, <1>10, <1>11, <1>12

LEMMA IallocKeeps == ASSUME Inv, NEW p \in Proc, Ialloc(p) PROVE Inv'
<1>t. TypeOK /\ CallInv /\ WorkInv /\ SoleInv /\ AllocInv /\ SpecialInv /\ LockInv
      /\ MemInv /\ OrphanInv
  BY DEF Inv
<1>. DEFINE d == pr[p].ip
            i == Lowest(FreeInodes)
            t == TypeOf(pr[p].call)
<1>1. /\ pr[p].puts = <<>> /\ pr[p].pc \in {"at", "walk"} /\ pr[p].call \in CreateCalls
      /\ d \in Inode /\ Good(p, d) /\ lock[d] = 0
      /\ Ino(d) = disk[d] /\ disk[d] \in InodeType /\ ref[d] > 0 /\ pr[p].iput = "no"
      /\ pr[p].rest \in Seq(Names)
      /\ Parent(pr[p].call) => /\ pr[p].pc = "at" /\ Len(pr[p].rest) = 1 /\ pr[p].rest # <<>>
                               /\ disk[pr[p].ip].type = "DIR"
  BY ArrivedOK DEF Ialloc
<1>2. /\ pr[p].rest # <<>> /\ Len(pr[p].rest) = 1 /\ disk[d].type = "DIR"
      /\ pr[p].pc \notin {"init", "unlink"} /\ pr[p].call # "link2"
  BY <1>1 DEF Parent, CreateCalls
<1>3. Load(d) /\ Ino(d).ents[Elem(pr[p])] = 0 /\ UNCHANGED <<used, Files, lost>> BY DEF Ialloc
<1>f. cwd' = cwd /\ file' = file BY <1>3 DEF Files
<1>4. CASE Return(p, <<d>>) /\ UNCHANGED <<disk, ref, lock>>
  BY <1>1, <1>2, <1>3, <1>f, <1>4, GiveUp
<1>5. CASE /\ FreeInodes # {}
           /\ disk' = [disk EXCEPT ![i] = Allocated(t)]
           /\ ref' = Iget(ref, i)
           /\ lock' = [lock EXCEPT ![d] = p]
           /\ pr' = [pr EXCEPT ![p].pc = "init", ![p].held = i]
  <2>1. i \in Inode /\ disk[i].type = "FREE"
    <3>1. FreeInodes \subseteq Nat BY Consts DEF FreeInodes
    <3>2. i \in FreeInodes BY <1>5, <3>1, LowestIn
    <3>. QED BY <3>2 DEF FreeInodes
  <2>2. t \in {"DIR", "FILE", "DEVICE"} BY <1>1 DEF TypeOf, CreateCalls
  <2>. SUFFICES ASSUME NEW a \in Inode, a = i, NEW c \in Inode, c = d,
                       NEW e, e = [pr[p] EXCEPT !.pc = "init", !.held = a]
                PROVE  Inv'
    BY <1>1, <2>1
  <2>3. pr' = [pr EXCEPT ![p] = e] /\ pr'[p] = e BY <1>t, <1>5 DEF TypeOK, CallType
  <2>4. /\ e.pc = "init" /\ e.ip = c /\ e.puts = <<>> /\ e.call = pr[p].call
        /\ e.held = a /\ e.rest = pr[p].rest /\ e.new = pr[p].new /\ e.iput = "no"
    BY <1>t, <1>1 DEF TypeOK, CallType
  <2>5. CallOK(pr[p]) /\ pr[p] \in CallType BY <1>t, ProcTypes
  <2>6. a # 0 /\ c # 0 /\ Len(<<>>) = 0 /\ a # c BY <1>2, <2>1, Consts
  <2>7. CallOK(e)
    <3>1. e.rest \in Seq(Names) /\ e.new \in Seq(Names) BY <2>4, <2>5 DEF CallOK
    <3>2. Len(e.puts) = 0 /\ Len(e.rest) = 1 BY <1>2, <2>4, <2>6
    <3>3. e.call \in CreateCalls BY <1>1, <2>4
    <3>. QED BY <2>4, <2>6, <3>1, <3>2, <3>3 DEF CallOK
  <2>8. e \in CallType BY <2>4, <2>5, Consts DEF CallType
  <2>9. Put(p, 1)' = 0 /\ Put(p, 2)' = 0 BY <2>3, <2>4, PutValues
  <2>10. Put(p, 1) = 0 /\ Put(p, 2) = 0 BY <1>t, <1>1, Unfreed
  <2>11. pr[p].held = 0 BY <1>1, <1>2, <2>5 DEF CallOK
  <2>12. \A j \in Inode : /\ ref'[j] = ref[j] - Uses(p, j) + Uses(p, j)' /\ ref'[j] >= ref[j]
                          /\ ref[j] \in Nat /\ ref'[j] \in Nat
    <3>. SUFFICES ASSUME NEW j \in Inode
                  PROVE  /\ ref'[j] = ref[j] - Uses(p, j) + Uses(p, j)' /\ ref'[j] >= ref[j]
                         /\ ref[j] \in Nat /\ ref'[j] \in Nat
      OBVIOUS
    <3>1. Uses(p, j) = One(cwd[p], j) + One(file[p].ip, j) + One(c, j)
                       + One(0, j) + One(0, j) + One(0, j)
      BY <2>10, <2>11 DEF Uses
    <3>2. Uses(p, j)' = One(cwd[p], j) + One(file[p].ip, j) + One(c, j)
                        + One(a, j) + One(0, j) + One(0, j)
      BY <1>f, <2>3, <2>4, <2>9 DEF Uses
    <3>3. /\ One(cwd[p], j) \in Int /\ One(file[p].ip, j) \in Int /\ One(c, j) \in Int
          /\ One(a, j) \in Nat /\ One(0, j) = 0
      BY Consts DEF One
    <3>4. ref[j] \in Nat /\ ref'[j] = ref[j] + One(a, j) BY <1>t, <1>5 DEF TypeOK, Iget, One
    <3>. QED BY <3>1, <3>2, <3>3, <3>4
  <2>13. Move(p) BY <1>t, <1>f, <2>3 DEF Move, TypeOK
  <2>14. /\ \A x \in Slot : Ref(x) = a => Kind(x) \in {"freed", "dropped"}
         /\ mem[a] = NoCopy \/ Freeing(a)
    BY <2>1, FreeRefs
  <2>15. /\ disk'[a] = Allocated(t) /\ \A j \in Inode : j # a => disk'[j] = disk[j]
         /\ Allocated(t).type # "FREE" /\ Allocated(t).nlink = 0
    BY <1>t, <1>5, <2>2 DEF TypeOK, Allocated, NoInode
  <2>16. /\ mem'[c] = disk[c] /\ disk'[c] = disk[c]
         /\ \A j \in Inode : j # c => mem'[j] = mem[j]
    BY <1>t, <1>1, <1>3, <2>6, <2>15 DEF Load, TypeOK
  <2>17. TypeOK'
    <3>1. mem' \in [Inode -> InodeType \cup {NoCopy}] BY <1>t, <1>1, <1>3 DEF Load, TypeOK
    <3>2. ref' \in [Inode -> Nat] /\ lock' \in [Inode -> Proc \cup {0}]
      BY <1>t, <1>5, <2>1 DEF Iget, TypeOK
    <3>3. pr' \in [Proc -> CallType] /\ \A q \in Proc : Len(pr'[q].puts) <= 2
      <4>1. Len(e.puts) = 0 BY <2>4, <2>6
      <4>. QED BY <1>t, <2>3, <2>8, <4>1 DEF TypeOK
    <3>4. disk' \in [Inode -> InodeType] /\ \A j \in Inode : disk'[j].size <= Len(disk'[j].data)
      <4>. SUFFICES ASSUME NEW z, z = Allocated(t)
                    PROVE  /\ disk' \in [Inode -> InodeType]
                           /\ \A j \in Inode : disk'[j].size <= Len(disk'[j].data)
        OBVIOUS
      <4>1. /\ z = [NoInode EXCEPT !.type = t] /\ t \in Types
        BY <2>2 DEF Allocated, Types
      <4>2. 0 \in Nat /\ 0 \in 0 .. MAXFILE /\ 0 \in 0 .. NBLOCKS /\ 0 \in 0 .. NINODES
            /\ <<>> \in Seq(Blocks)
        BY Consts
      <4>3. NoEnts \in [Entries -> 0 .. NINODES] BY <4>2 DEF NoEnts
      <4>4. z \in InodeType BY <4>1, <4>2, <4>3 DEF NoInode, InodeType
      <4>5. z.size = 0 /\ z.data = <<>> BY <4>1 DEF NoInode
      <4>6. z.size <= Len(z.data) BY <2>6, <4>5
      <4>. QED BY <1>t, <1>5, <2>15, <4>4, <4>6 DEF TypeOK
    <3>. QED BY <1>t, <1>3, <1>f, <3>1, <3>2, <3>3, <3>4 DEF TypeOK
  <2>18. LinkOf(p)' = LinkOf(p) BY <1>1, <2>3, <2>4 DEF LinkOf, CreateCalls
  <2>19. DiskInv' /\ TreeInv' /\ LinkInv' /\ BlocksOK(disk', used')
    BY <1>3, <1>5, <2>1, <2>2, <2>13, <2>18, AllocatesTree
  <2>20. LockInv'
    <3>1. pr'[p].pc \in {"init", "unlink"} /\ pr'[p].ip = c /\ pr'[p].iput = "no"
      BY <2>3, <2>4
    <3>. QED BY <1>1, <1>2, <1>5, <2>13, <3>1, LockTaken
  <2>21. CallInv' BY <1>t, <2>3, <2>7, <2>13 DEF CallInv, Move
  <2>22. RefInv' BY <2>12, <2>13, RefStep DEF Inv
  <2>. DEFINE h == <<p, "held">>
  <2>23. h \in Slot /\ Ref(h)' = a /\ Kind(h)' = "new" /\ Ref(h) = 0
    BY <2>3, <2>4, <2>11, OwnSlots, OwnSlotsNext
  <2>24. \A x \in Slot : x # h => Ref(x)' = Ref(x) /\ Kind(x)' = Kind(x)
    <3>. SUFFICES ASSUME NEW x \in Slot, x # h PROVE Ref(x)' = Ref(x) /\ Kind(x)' = Kind(x)
      OBVIOUS
    <3>1. CASE x[1] # p BY <2>13, <3>1, MoveSlots
    <3>2. CASE x[1] = p
      <4>1. /\ cwd'[p] = cwd[p] /\ file'[p].ip = file[p].ip /\ pr'[p].ip = pr[p].ip
            /\ Put(p, 1)' = Put(p, 1) /\ Put(p, 2)' = Put(p, 2) /\ pr'[p].iput = pr[p].iput
        BY <1>1, <1>f, <2>3, <2>4, <2>9, <2>10
      <4>2. \/ x = <<p, "cwd">> \/ x = <<p, "file">> \/ x = <<p, "ip">>
            \/ x = <<p, "put1">> \/ x = <<p, "put2">>
        BY <3>2, SixSlots
      <4>3. CASE x = <<p, "cwd">> BY <4>1, <4>3, OwnSlots, OwnSlotsNext
      <4>4. CASE x = <<p, "file">> BY <4>1, <4>4, OwnSlots, OwnSlotsNext
      <4>5. CASE x = <<p, "ip">> BY <4>1, <4>5, OwnSlots, OwnSlotsNext
      <4>6. CASE x = <<p, "put1">> BY <4>1, <4>6, OwnSlots, OwnSlotsNext
      <4>7. CASE x = <<p, "put2">> BY <4>1, <4>7, OwnSlots, OwnSlotsNext
      <4>. QED BY <4>2, <4>3, <4>4, <4>5, <4>6, <4>7
    <3>. QED BY <3>1, <3>2
  <2>25. \A x \in Slot : Ref(x) \in Inode \cup {0} BY <1>t, RefTypes
  <2>. HIDE DEF h
  <2>26. SoleInv'
    <3>. SUFFICES ASSUME NEW x \in Slot, NEW y \in Slot, x # y, Ref(x)' = Ref(y)', Ref(x)' # 0
                  PROVE  /\ Kind(x)' = "new" => Kind(y)' \in {"freed", "dropped"}
                         /\ Kind(x)' = "freed" => Kind(y)' = "new"
      BY DEF SoleInv
    <3>1. CASE x = h
      <4>1. Ref(y) = a /\ Kind(y)' = Kind(y) BY <2>23, <2>24, <3>1
      <4>. QED BY <2>14, <2>23, <3>1, <4>1
    <3>2. CASE y = h
      <4>1. Ref(x) = a /\ Kind(x)' = Kind(x) BY <2>23, <2>24, <3>2
      <4>2. Kind(x) \in {"freed", "dropped"} BY <2>14, <4>1
      <4>. QED BY <2>23, <3>2, <4>1, <4>2
    <3>3. CASE x # h /\ y # h BY <1>t, <2>24, <3>3 DEF SoleInv
    <3>. QED BY <3>1, <3>2, <3>3
  <2>27. AllocInv'
    <3>. SUFFICES ASSUME NEW x \in Slot, Ref(x)' # 0, Kind(x)' \in {"new", "plain"}
                  PROVE  disk'[Ref(x)'].type # "FREE"
      BY DEF AllocInv
    <3>1. CASE x = h BY <2>15, <2>23, <3>1
    <3>2. CASE x # h
      <4>1. Ref(x)' = Ref(x) /\ Kind(x)' = Kind(x) BY <2>24, <3>2
      <4>2. Ref(x) \in Inode /\ disk[Ref(x)].type # "FREE" BY <1>t, <2>25, <4>1 DEF AllocInv
      <4>3. disk'[Ref(x)] = disk[Ref(x)] BY <2>1, <2>15, <4>2
      <4>. QED BY <4>1, <4>2, <4>3
    <3>. QED BY <3>1, <3>2
  <2>28. SpecialInv'
    <3>. SUFFICES ASSUME NEW x \in Slot, Ref(x)' # 0, Kind(x)' \in Special
                  PROVE  disk'[Ref(x)'].nlink = 0
      BY DEF SpecialInv
    <3>1. CASE x = h BY <2>15, <2>23, <3>1
    <3>2. CASE x # h
      <4>1. Ref(x)' = Ref(x) /\ Kind(x)' = Kind(x) BY <2>24, <3>2
      <4>2. Ref(x) \in Inode /\ disk[Ref(x)].nlink = 0 BY <1>t, <2>25, <4>1 DEF SpecialInv
      <4>3. disk'[Ref(x)].nlink = 0 BY <2>15, <4>2
      <4>. QED BY <4>1, <4>3
    <3>. QED BY <3>1, <3>2
  <2>29. \A j \in Inode : Freeing(j)' <=> Freeing(j)
    <3>1. \A q \in Proc : pr'[q].iput = pr[q].iput /\ (Put(q, 1))' = Put(q, 1)
      <4>. SUFFICES ASSUME NEW q \in Proc
                    PROVE  pr'[q].iput = pr[q].iput /\ (Put(q, 1))' = Put(q, 1)
        OBVIOUS
      <4>1. CASE q = p
        <5>. QED BY <1>1, <2>3, <2>4, <2>9, <2>10, <4>1
      <4>2. CASE q # p BY <2>13, <4>2 DEF Move, Put
      <4>. QED BY <4>1, <4>2
    <3>. QED BY <3>1 DEF Freeing
  <2>30. Creating(a)' /\ \A j \in Inode : Creating(j) => Creating(j)'
    <3>1. Creating(a)' BY <2>3, <2>4 DEF Creating
    <3>2. \A q \in Proc : pr[q].pc = "init" => pr'[q] = pr[q] BY <1>2, <2>13 DEF Move
    <3>. QED BY <3>1, <3>2 DEF Creating
  <2>31. MemInv'
    <3>. SUFFICES ASSUME NEW j \in Inode
                  PROVE  /\ mem'[j] # NoCopy => ref'[j] > 0
                         /\ mem'[j] \in {NoCopy, disk'[j]} \/ Freeing(j)'
                         /\ disk'[j].type = "FREE" => mem'[j] = NoCopy \/ Freeing(j)'
      BY DEF MemInv
    <3>0. ref[j] \in Nat /\ ref'[j] \in Nat /\ ref'[j] >= ref[j] BY <2>12
    <3>1. CASE j = c
      <4>1. ref[c] > 0 /\ disk[c].type # "FREE" BY <1>1, <1>2
      <4>. QED BY <2>16, <3>0, <3>1, <4>1
    <3>2. CASE j = a
      <4>1. mem[a] # NoCopy => ref[a] > 0 BY <1>t DEF MemInv
      <4>2. mem'[a] = mem[a] BY <2>6, <2>16
      <4>. QED BY <2>14, <2>15, <2>29, <3>0, <3>2, <4>1, <4>2
    <3>3. CASE j # c /\ j # a
      <4>1. mem'[j] = mem[j] /\ disk'[j] = disk[j] BY <2>15, <2>16, <3>3
      <4>2. /\ mem[j] # NoCopy => ref[j] > 0
            /\ mem[j] \in {NoCopy, disk[j]} \/ Freeing(j)
            /\ disk[j].type = "FREE" => mem[j] = NoCopy \/ Freeing(j)
        BY <1>t DEF MemInv
      <4>. QED BY <2>29, <3>0, <4>1, <4>2
    <3>. QED BY <3>1, <3>2, <3>3
  <2>32. OrphanInv'
    <3>. SUFFICES ASSUME NEW j \in Inode, disk'[j].type # "FREE", disk'[j].nlink = 0, ref'[j] > 0
                  PROVE  (mem'[j] # NoCopy /\ ~Freeing(j)') \/ Creating(j)'
      BY DEF OrphanInv
    <3>1. CASE j = a BY <2>30, <3>1
    <3>2. CASE j # a
      <4>1. disk'[j] = disk[j] BY <2>15, <3>2
      <4>2. ref[j] > 0
        <5>1. ref'[j] = ref[j] BY <1>t, <1>5, <3>2 DEF Iget, TypeOK
        <5>. QED BY <5>1
      <4>3. (mem[j] # NoCopy /\ ~Freeing(j)) \/ Creating(j)
        BY <1>t, <4>1, <4>2 DEF OrphanInv
      <4>4. mem[j] # NoCopy => mem'[j] # NoCopy
        <5>1. disk[c] # NoCopy BY <1>1, ValidCopy
        <5>. QED BY <2>16, <5>1
      <4>. QED BY <2>29, <2>30, <4>3, <4>4
    <3>. QED BY <3>1, <3>2
  <2>33. WorkInv'
    <3>. SUFFICES ASSUME NEW q \in Proc PROVE WorkOK(q)' BY DEF WorkInv
    <3>1. CASE q = p
      <4>1. Elem(pr'[p]) = Elem(pr[p]) BY <2>3, <2>4 DEF Elem
      <4>2. disk'[c].type = "DIR" /\ disk'[c].ents[Elem(pr[p])] = 0 BY <1>1, <1>2, <1>3, <2>16
      <4>3. pr'[p].pc = "init" /\ pr'[p].call = pr[p].call /\ pr'[p].held = a /\ pr'[p].ip = c
        BY <2>3, <2>4
      <4>4. pr'[p].call # "link2" BY <1>2, <4>3
      <4>. QED BY <2>15, <3>1, <4>1, <4>2, <4>3, <4>4 DEF WorkOK
    <3>2. CASE q # p
      <4>1. pr'[q] = pr[q] BY <2>13, <3>2 DEF Move
      <4>2. WorkOK(q) BY <1>t DEF WorkInv
      <4>3. pr[q].ip \in Inode \cup {0} /\ pr[q].held \in Inode \cup {0} /\ CallOK(pr[q])
        BY <1>t, ProcTypes
      <4>4. pr[q].ip # 0 => disk'[pr[q].ip] = disk[pr[q].ip]
        <5>1. pr[q].ip # 0 => disk[pr[q].ip].type # "FREE" BY <1>t, OwnRefs
        <5>. QED BY <2>1, <2>15, <4>3, <5>1
      <4>5. pr[q].held # 0 => disk'[pr[q].held] = disk[pr[q].held]
        <5>1. pr[q].held # 0 => disk[pr[q].held].type # "FREE" BY <1>t, OwnRefs
        <5>. QED BY <2>1, <2>15, <4>3, <5>1
      <4>6. /\ pr[q].pc \in {"at", "init", "unlink"} => pr[q].ip # 0
            /\ pr[q].call = "link2" \/ pr[q].pc \in {"init", "unlink"} => pr[q].held # 0
        BY <4>3 DEF CallOK
      <4>. QED BY <4>1, <4>2, <4>4, <4>5, <4>6 DEF WorkOK
    <3>. QED BY <3>1, <3>2
  <2>. QED BY <2>17, <2>19, <2>20, <2>21, <2>22, <2>26, <2>27, <2>28, <2>31, <2>32, <2>33 DEF Inv
<1>. QED BY <1>4, <1>5 DEF Ialloc

\* A call that holds the lock of its directory.
LEMMA HoldsOK ==
    ASSUME Inv, NEW p \in Proc, pr[p].pc \in {"init", "unlink"}, lock[pr[p].held] = 0
    PROVE  /\ pr[p].ip \in Inode /\ pr[p].held \in Inode /\ pr[p].ip # pr[p].held
           /\ lock[pr[p].ip] = p /\ Good(p, pr[p].ip) /\ Good(p, pr[p].held)
           /\ Ino(pr[p].ip) = disk[pr[p].ip] /\ Ino(pr[p].held) = disk[pr[p].held]
           /\ disk[pr[p].ip] \in InodeType /\ disk[pr[p].held] \in InodeType
           /\ disk[pr[p].ip].type = "DIR" /\ ref[pr[p].ip] > 0 /\ ref[pr[p].held] > 0
           /\ Elem(pr[p]) \in Names /\ <<pr[p].ip, Elem(pr[p])>> \in Name
           /\ Len(pr[p].puts) = 0 /\ pr[p].iput = "no" /\ Put(p, 1) = 0 /\ Put(p, 2) = 0
           /\ LinkOf(p) = 0
<1>t. TypeOK /\ CallInv /\ LockInv /\ MemInv /\ SoleInv /\ AllocInv BY DEF Inv
<1>. SUFFICES ASSUME NEW d, d = pr[p].ip, NEW i, i = pr[p].held
              PROVE  /\ d \in Inode /\ i \in Inode /\ d # i
                     /\ lock[d] = p /\ Good(p, d) /\ Good(p, i)
                     /\ Ino(d) = disk[d] /\ Ino(i) = disk[i]
                     /\ disk[d] \in InodeType /\ disk[i] \in InodeType
                     /\ disk[d].type = "DIR" /\ ref[d] > 0 /\ ref[i] > 0
                     /\ Elem(pr[p]) \in Names /\ <<d, Elem(pr[p])>> \in Name
                     /\ Len(pr[p].puts) = 0 /\ pr[p].iput = "no"
                     /\ Put(p, 1) = 0 /\ Put(p, 2) = 0
                     /\ LinkOf(p) = 0
  OBVIOUS
<1>1. CallOK(pr[p]) /\ d \in Inode /\ i \in Inode BY <1>t, ProcTypes
<1>2. lock[d] = p /\ lock[i] = 0 BY <1>t DEF LockInv
<1>3. d # i BY <1>2, Consts
<1>4. Len(pr[p].puts) = 0 /\ Len(pr[p].rest) = 1 /\ pr[p].rest \in Seq(Names)
  BY <1>1 DEF CallOK
<1>5. Put(p, 1) = 0 /\ Put(p, 2) = 0
  <2>1. Len(pr[p].puts) <= 1 BY <1>4
  <2>. QED BY <1>t, <1>4, <2>1, ProcTypes
<1>6. pr[p].iput = "no"
  <2>1. pr[p].iput # "no" => Put(p, 1) \in Inode BY <1>t, ProcTypes
  <2>. QED BY <1>5, <2>1, Consts
<1>7. Good(p, d) BY OwnGood
<1>8. Good(p, i)
  <2>1. disk[i].type # "FREE" BY <1>t, <1>1, OwnRefs, Consts
  <2>2. CASE pr[p].pc # "init" BY <2>2, OwnGood
  <2>3. CASE pr[p].pc = "init"
    <3>. DEFINE h == <<p, "held">>
    <3>1. h \in Slot /\ Ref(h) = i /\ Kind(h) = "new" BY <2>3, OwnSlots
    <3>2. ASSUME NEW y \in Slot, y[1] # p, Ref(y) = i, Kind(y) \in Special PROVE FALSE
      <4>1. y # h BY <3>2
      <4>2. i # 0 BY <1>1, Consts
      <4>. HIDE DEF h
      <4>3. Kind(y) = "freed" BY <1>t, <3>1, <3>2, <4>1, <4>2 DEF SoleInv, Special
      <4>4. y[1] \in Proc /\ y[2] = "put1" /\ pr[y[1]].iput = "freeing" BY <4>3 DEF Kind, Slot
      <4>5. Put(y[1], 1) = i BY <3>2, <4>4 DEF Ref, RefIn
      <4>6. lock[i] = y[1] BY <1>t, <4>4, <4>5 DEF LockInv
      <4>. QED BY <1>2, <4>4, <4>6, Consts
    <3>3. ref[i] > 0 BY <1>1, OwnCounted, Consts
    <3>. QED BY <1>1, <2>1, <3>2, <3>3 DEF Good, Plain
  <2>. QED BY <2>2, <2>3
<1>9. Ino(d) = disk[d] /\ disk[d] \in InodeType BY <1>t, <1>1, <1>2, <1>6, Current
<1>10. Ino(i) = disk[i] /\ disk[i] \in InodeType BY <1>t, <1>1, <1>2, <1>6, Current
<1>11. disk[d].type = "DIR" BY DEF Inv, WorkInv, WorkOK
<1>12. ref[d] > 0 /\ ref[i] > 0 BY <1>1, OwnCounted, Consts
<1>13. Elem(pr[p]) \in Names
  <2>1. pr[p].rest # <<>>
    <3>1. Len(<<>>) # 1 OBVIOUS
    <3>. QED BY <1>4, <3>1
  <2>. QED BY <1>4, <2>1 DEF Elem
<1>14. <<d, Elem(pr[p])>> \in Name BY <1>1, <1>13 DEF Name
<1>15. LinkOf(p) = 0
  <2>1. pr[p].call # "link2" BY <1>1 DEF CallOK, CreateCalls
  <2>. QED BY <2>1 DEF LinkOf
<1>. QED BY <1>1, <1>2, <1>3, <1>4, <1>5, <1>6, <1>7, <1>8, <1>9, <1>10, <1>11, <1>12, <1>13,
            <1>14, <1>15

\* The end of such a call, which may have opened the inode it has created.
LEMMA HoldsEnd ==
    ASSUME Inv, NEW p \in Proc, pr[p].pc \in {"init", "unlink"}, lock[pr[p].held] = 0,
           NEW d \in Inode, d = pr[p].ip, NEW i \in Inode, i = pr[p].held,
           NEW S, Wrote(S), S \subseteq {i, d}, pr[p].pc = "init" => i \in S,
           disk' \in [Inode -> InodeType], mem' \in [Inode -> InodeType \cup {NoCopy}],
           \A j \in Inode : disk'[j].size <= Len(disk'[j].data) /\ disk'[j].type = disk[j].type,
           UNCHANGED <<ref, lock, cwd>>, used' \subseteq Blocks, lost' \in [Inode -> Nat],
           file' \in [Proc -> FileType], \A q \in Proc \ {p} : file'[q] = file[q],
           NEW s, Return(p, s),
           \/ s \in {<<d, i>>, <<i, d>>} /\ file'[p] = file[p]
           \/ s = <<d>> /\ file[p].ip = 0 /\ file'[p].ip = i,
           DiskInv', TreeInv', LinkInv', BlocksOK(disk', used')
    PROVE  Inv'
<1>t. TypeOK /\ CallInv /\ LockInv BY DEF Inv
<1>1. /\ lock[d] = p /\ lock[i] = 0 /\ Good(p, d) /\ Good(p, i) /\ d # 0 /\ i # 0
      /\ Len(pr[p].puts) = 0 /\ pr[p].iput = "no" /\ Put(p, 1) = 0 /\ Put(p, 2) = 0
  BY HoldsOK, Consts
<1>. SUFFICES ASSUME NEW e, e = Idle(s) PROVE Inv' OBVIOUS
<1>2. pr' = [pr EXCEPT ![p] = e] /\ pr'[p] = e BY <1>t DEF Return, TypeOK
<1>3. IsIdle(e, s) BY IdleFields
<1>4. e.pc = "idle" /\ e.call = "none" /\ e.iput = "no" BY <1>3 DEF IsIdle
<1>5. e.ip = 0 /\ e.held = 0 /\ e.puts = s BY <1>3 DEF IsIdle
<1>6. CASE s = <<d, i>> \/ s = <<i, d>> \/ s = <<d>>
  <2>1. e \in CallType /\ CallOK(e)
    <3>1. CASE s = <<d, i>> BY <3>1, IdleOK
    <3>2. CASE s = <<i, d>> BY <3>2, IdleOK
    <3>3. CASE s = <<d>> BY <3>3, IdleOK
    <3>. QED BY <1>6, <3>1, <3>2, <3>3
  <2>2. Len(e.puts) <= 2
    <3>1. CASE s = <<d, i>> BY <3>1, IdleOK
    <3>2. CASE s = <<i, d>> BY <3>2, IdleOK
    <3>3. CASE s = <<d>> BY <3>3, IdleOK
    <3>. QED BY <1>6, <3>1, <3>2, <3>3
  <2>3. pr'[p].puts = s BY <1>2, <1>5
  <2>4. \/ Put(p, 1)' = d /\ Put(p, 2)' = i
        \/ Put(p, 1)' = i /\ Put(p, 2)' = d
        \/ Put(p, 1)' = d /\ Put(p, 2)' = 0 /\ s = <<d>>
    <3>1. CASE s = <<d, i>> BY <2>3, <3>1, PutValues
    <3>2. CASE s = <<i, d>> BY <2>3, <3>2, PutValues
    <3>3. CASE s = <<d>> BY <2>3, <3>3, PutValues
    <3>. QED BY <1>6, <3>1, <3>2, <3>3
  <2>5. cwd' = cwd /\ \A q \in Proc \ {p} : cwd'[q] = cwd[q] OBVIOUS
  <2>6. Move(p)
    <3>1. \A q \in Proc \ {p} : pr'[q] = pr[q] BY <1>t, <1>2 DEF TypeOK
    <3>. QED BY <2>5, <3>1 DEF Move
  <2>7. \A j \in Inode : ref'[j] = ref[j] - Uses(p, j) + Uses(p, j)' /\ ref'[j] >= ref[j]
    <3>. SUFFICES ASSUME NEW j \in Inode
                  PROVE  ref'[j] = ref[j] - Uses(p, j) + Uses(p, j)' /\ ref'[j] >= ref[j]
      OBVIOUS
    <3>1. Uses(p, j) = One(cwd[p], j) + One(file[p].ip, j) + One(d, j)
                       + One(i, j) + One(0, j) + One(0, j)
      BY <1>1 DEF Uses
    <3>2. Uses(p, j)' = One(cwd[p], j) + One(file'[p].ip, j) + One(0, j)
                        + One(0, j) + One(Put(p, 1)', j) + One(Put(p, 2)', j)
      BY <1>2, <1>5, <2>5 DEF Uses
    <3>3. /\ One(cwd[p], j) \in Int /\ One(file[p].ip, j) \in Int /\ One(d, j) \in Int
          /\ One(i, j) \in Int /\ One(0, j) = 0
      BY Consts DEF One
    <3>4. ref[j] \in Nat /\ ref'[j] = ref[j] BY <1>t DEF TypeOK
    <3>5. One(file'[p].ip, j) + One(Put(p, 1)', j) + One(Put(p, 2)', j)
          = One(file[p].ip, j) + One(d, j) + One(i, j)
      <4>1. CASE s = <<d>> /\ file[p].ip = 0 /\ file'[p].ip = i
        <5>1. Put(p, 1)' = d /\ Put(p, 2)' = 0 BY <2>3, <4>1, PutValues
        <5>. QED BY <3>3, <4>1, <5>1
      <4>2. CASE s # <<d>> /\ file'[p] = file[p] BY <2>4, <3>3, <4>2
      <4>3. s = <<d>> => s \notin {<<d, i>>, <<i, d>>}
        <5>1. Len(<<d>>) = 1 /\ Len(<<d, i>>) = 2 /\ Len(<<i, d>>) = 2 OBVIOUS
        <5>. QED BY <5>1
      <4>. QED BY <4>1, <4>2, <4>3
    <3>6. /\ One(file'[p].ip, j) \in Int /\ One(Put(p, 1)', j) \in Int
          /\ One(Put(p, 2)', j) \in Int
      BY DEF One
    <3>7. Uses(p, j) = One(cwd[p], j) + (One(file[p].ip, j) + One(d, j) + One(i, j))
      BY <3>1, <3>3
    <3>8. Uses(p, j)' = One(cwd[p], j)
                        + (One(file'[p].ip, j) + One(Put(p, 1)', j) + One(Put(p, 2)', j))
      BY <3>2, <3>3, <3>6
    <3>9. Uses(p, j)' = Uses(p, j) BY <3>5, <3>7, <3>8
    <3>10. Uses(p, j) \in Int BY <3>3, <3>7
    <3>. QED BY <3>4, <3>9, <3>10
  <2>8. \A j \in S : /\ lock[j] \in {0, p} /\ Plain(p, j)
                     /\ disk[j].type # "FREE" /\ disk'[j].type = disk[j].type
    BY <1>1 DEF Good
  <2>9. TypeOK'
    <3>1. pr' \in [Proc -> CallType] /\ \A q \in Proc : Len(pr'[q].puts) <= 2
      BY <1>t, <1>2, <2>1, <2>2 DEF TypeOK
    <3>. QED BY <1>t, <3>1 DEF TypeOK
  <2>10. LockInv'
    <3>1. pr[p].ip \in {Put(p, 1)', Put(p, 2)'} BY <2>4
    <3>2. pr'[p].pc \notin {"init", "unlink"} /\ pr'[p].iput = "no" BY <1>2, <1>4
    <3>. QED BY <1>t, <1>1, <2>6, <3>1, <3>2, LockEnd
  <2>11. WorkOK(p)' BY <1>2, WorkIdle
  <2>12. Good(p, 0) /\ Good(p, cwd'[p]) /\ Good(p, file'[p].ip)
    BY <1>1, <2>5, OwnGood DEF Good
  <2>13. Good(p, pr'[p].ip) /\ Good(p, pr'[p].held) BY <1>2, <1>5, <2>12
  <2>14. Good(p, Put(p, 1)') /\ Good(p, Put(p, 2)') BY <1>1, <2>4, <2>12
  <2>15. CallOK(pr'[p]) /\ pr'[p].pc # "init" /\ pr'[p].iput = "no" BY <1>2, <1>4, <2>1
  <2>. QED BY <1>1, <2>6, <2>7, <2>8, <2>9, <2>10, <2>11, <2>12, <2>13, <2>14, <2>15, CallStep
<1>. QED BY <1>6

----------------------------------------------------------------------------
(* unlink()                                                                *)

\* What unlink() knows of the inode that it has found.
Found(d, i, n, isDir) ==
    /\ d \in Inode /\ i \in Inode /\ d # i /\ i # 0 /\ d # 0 /\ i # ROOTINO
    /\ disk[d] \in InodeType /\ disk[i] \in InodeType /\ disk[d].type = "DIR"
    /\ n \in Names /\ n \in Entries /\ n # Dots /\ <<d, n>> \in Name
    /\ NameIn(<<d, n>>) = i /\ isDir = (disk[i].type = "DIR")
    /\ disk[i].nlink \in Nat /\ disk[i].nlink > 0 /\ disk[i].type # "FREE"
    /\ disk[d].nlink \in Nat /\ (isDir => disk[d].nlink > 0)
    /\ ParentOf[i] = (IF isDir THEN d ELSE 0)
    /\ isDir => \A w \in Name : NameIn(w) = i => w = <<d, n>>

LEMMA UnlinkFacts ==
    ASSUME Inv, NEW p \in Proc, pr[p].pc = "unlink", lock[pr[p].held] = 0
    PROVE  /\ Found(pr[p].ip, pr[p].held, Elem(pr[p]), disk[pr[p].held].type = "DIR")
           /\ LinkOf(p) = 0
<1>. SUFFICES ASSUME NEW d, d = pr[p].ip, NEW i, i = pr[p].held, NEW n, n = Elem(pr[p]),
                     NEW isDir, isDir = (disk[i].type = "DIR")
              PROVE  Found(d, i, n, isDir) /\ LinkOf(p) = 0
  OBVIOUS
<1>t. TypeOK /\ DiskInv /\ TreeInv /\ LinkInv /\ BlocksOK(disk, used) BY DEF Inv
<1>1. /\ d \in Inode /\ i \in Inode /\ d # i
      /\ disk[d] \in InodeType /\ disk[i] \in InodeType /\ disk[d].type = "DIR"
      /\ n \in Names /\ <<d, n>> \in Name /\ LinkOf(p) = 0
  BY HoldsOK
<1>2. disk[d].ents[n] = i BY DEF Inv, WorkInv, WorkOK
<1>. DEFINE x == <<d, n>>
<1>3. NameIn(x) = i BY <1>1, <1>2 DEF NameIn
<1>4. i # 0 /\ d # 0 /\ n \in Entries /\ n # Dots BY <1>1, Consts
<1>5. disk[i].nlink \in Nat /\ disk[i].nlink > 0 /\ disk[i].type # "FREE"
  <2>1. NameIn(x) # 0 /\ x \in Name BY <1>1, <1>3, <1>4
  <2>2. disk[NameIn(x)].nlink > 0 /\ disk[NameIn(x)].type # "FREE" BY <1>t, <2>1, NamedInode
  <2>3. disk[i].nlink \in Nat BY <1>1 DEF InodeType
  <2>. HIDE DEF x
  <2>. QED BY <1>3, <2>2, <2>3
<1>6. i # ROOTINO /\ (isDir => /\ disk[i].ents[Dots] = d
                               /\ \A w \in Name : NameIn(w) = i => w = x)
  <2>. DEFINE u == x
  <2>1. u \in Name /\ NameIn(u) = i /\ u[1] = d BY <1>1, <1>3
  <2>. HIDE DEF u
  <2>2. NameIn(u) # ROOTINO BY <1>t, <2>1 DEF TreeInv
  <2>3. NameIn(u) # 0 /\ disk[NameIn(u)].type = "DIR" =>
            /\ u[1] = disk[NameIn(u)].ents[Dots]
            /\ \A w \in Name : NameIn(w) = NameIn(u) => u = w
    BY <1>t, <2>1 DEF TreeInv
  <2>. QED BY <1>4, <2>1, <2>2, <2>3 DEF u
<1>7. ParentOf[i] = IF isDir THEN d ELSE 0
  <2>1. isDir => InTree(i) BY <1>1, <1>3 DEF InTree
  <2>2. ~isDir => ~InTree(i) BY DEF InTree
  <2>. QED BY <1>1, <1>6, <2>1, <2>2 DEF ParentOf
<1>8. disk[d].nlink \in Nat /\ (isDir => disk[d].nlink > 0)
  <2>1. disk[d].nlink \in Nat BY <1>1 DEF InodeType
  <2>2. ASSUME isDir PROVE disk[d].nlink # 0
    <3>1. ParentOf[i] = d BY <1>7, <2>2
    <3>. QED BY <1>t, <1>1, <3>1, Unlinked
  <2>. QED BY <2>1, <2>2
<1>. QED BY <1>1, <1>3, <1>4, <1>5, <1>6, <1>7, <1>8 DEF Found

\* The two inodes that unlink() writes.
FewerLinks(v, y) ==
    /\ y \in InodeType /\ y.type = v.type /\ y.nlink = v.nlink - 1 /\ y.ents = v.ents
    /\ y.size = v.size /\ y.data = v.data /\ y.ind = v.ind

EntryTaken(w, n, isDir, z) ==
    /\ z \in InodeType /\ z.type = w.type /\ z.ents = [w.ents EXCEPT ![n] = 0]
    /\ z.nlink = (IF isDir THEN w.nlink - 1 ELSE w.nlink)
    /\ z.size = w.size /\ z.data = w.data /\ z.ind = w.ind

LEMMA FewerLinksOK ==
    ASSUME NEW v \in InodeType, v.nlink > 0
    PROVE  FewerLinks(v, [v EXCEPT !.nlink = @ - 1])
<1>0. v.nlink \in Nat BY DEF InodeType
<1>. SUFFICES ASSUME NEW k \in Nat, NEW y, y = [v EXCEPT !.nlink = k]
              PROVE  /\ y \in InodeType /\ y.type = v.type /\ y.nlink = k /\ y.ents = v.ents
                     /\ y.size = v.size /\ y.data = v.data /\ y.ind = v.ind
  BY <1>0 DEF FewerLinks
<1>. QED BY DEF InodeType

LEMMA EntryTakenOK ==
    ASSUME NEW w \in InodeType, NEW n \in Entries, NEW isDir \in BOOLEAN, isDir => w.nlink > 0
    PROVE  EntryTaken(w, n, isDir, [w EXCEPT !.ents[n] = 0, !.nlink = IF isDir THEN @ - 1 ELSE @])
<1>. DEFINE k == IF isDir THEN w.nlink - 1 ELSE w.nlink
            f == [w.ents EXCEPT ![n] = 0]
            z == [w EXCEPT !.ents = f, !.nlink = k]
<1>1. w.nlink \in Nat /\ w.ents \in [Entries -> 0 .. NINODES] BY DEF InodeType
<1>2. k \in Nat /\ f \in [Entries -> 0 .. NINODES] BY <1>1, Consts
<1>3. [w EXCEPT !.ents[n] = 0, !.nlink = IF isDir THEN @ - 1 ELSE @] = z BY DEF InodeType
<1>5. /\ z \in InodeType /\ z.type = w.type /\ z.ents = f /\ z.nlink = k
      /\ z.size = w.size /\ z.data = w.data /\ z.ind = w.ind
  <2>. HIDE DEF k, f
  <2>. QED BY <1>2 DEF InodeType
<1>. HIDE DEF z
<1>6. EntryTaken(w, n, isDir, z) BY <1>5 DEF EntryTaken
<1>. QED BY <1>3, <1>6

\* The name that unlink() takes away is the only one that changes.
LEMMA UnlinkTree ==
    ASSUME Inv, NEW p \in Proc, Move(p), LinkOf(p) = 0, LinkOf(p)' = 0, UNCHANGED lost,
           NEW d, NEW i, NEW n, NEW isDir, Found(d, i, n, isDir),
           NEW y, FewerLinks(disk[i], y), NEW z, EntryTaken(disk[d], n, isDir, z),
           disk'[i] = y, disk'[d] = z, \A j \in Inode : j # i /\ j # d => disk'[j] = disk[j]
    PROVE  DiskInv' /\ TreeInv' /\ LinkInv'
<1>t. TypeOK /\ DiskInv /\ TreeInv /\ LinkInv BY DEF Inv
<1>y. y.type = disk[i].type /\ y.nlink = disk[i].nlink - 1 /\ y.ents = disk[i].ents
  BY DEF FewerLinks
<1>z. /\ z.type = disk[d].type /\ z.ents = [disk[d].ents EXCEPT ![n] = 0]
      /\ z.nlink = (IF isDir THEN disk[d].nlink - 1 ELSE disk[d].nlink)
  BY DEF EntryTaken
<1>. DEFINE x == <<d, n>>
<1>1. /\ d \in Inode /\ i \in Inode /\ d # i
      /\ disk[d] \in InodeType /\ disk[i] \in InodeType /\ disk[d].type = "DIR"
      /\ n \in Names /\ x \in Name
  BY DEF Found
<1>3. NameIn(x) = i BY DEF Found
<1>4. i # 0 /\ d # 0 /\ n \in Entries /\ n # Dots BY DEF Found
<1>5. disk[i].nlink \in Nat /\ disk[i].nlink > 0 /\ disk[i].type # "FREE" BY DEF Found
<1>6. i # ROOTINO /\ (isDir => \A w \in Name : NameIn(w) = i => w = x) BY DEF Found
<1>7. ParentOf[i] = (IF isDir THEN d ELSE 0) BY DEF Found
<1>8. disk[d].nlink \in Nat /\ (isDir => disk[d].nlink > 0) BY DEF Found
<1>9. isDir <=> disk[i].type = "DIR" BY DEF Found
<1>11. /\ disk'[i] = y /\ disk'[d] = z /\ \A j \in Inode : j # i /\ j # d => disk'[j] = disk[j]
  OBVIOUS
<1>12. /\ \A j \in Inode : /\ disk'[j].type = disk[j].type
                           /\ disk'[j].ents[Dots] = disk[j].ents[Dots]
                           /\ j # d => disk'[j].ents = disk[j].ents
  <2>. SUFFICES ASSUME NEW j \in Inode
                PROVE  /\ disk'[j].type = disk[j].type
                       /\ disk'[j].ents[Dots] = disk[j].ents[Dots]
                       /\ j # d => disk'[j].ents = disk[j].ents
    OBVIOUS
  <2>1. CASE j = i BY <1>1, <1>y, <1>11, <2>1
  <2>2. CASE j = d
    <3>1. disk[d].ents \in [Entries -> 0 .. NINODES] BY <1>1 DEF InodeType
    <3>. QED BY <1>4, <1>z, <1>11, <2>2, <3>1, Consts
  <2>3. CASE j # i /\ j # d BY <1>11, <2>3
  <2>. QED BY <2>1, <2>2, <2>3
<1>13. NameIn(x)' = 0
  <2>1. disk[d].ents \in [Entries -> 0 .. NINODES] BY <1>1 DEF InodeType
  <2>. QED BY <1>1, <1>4, <1>z, <1>11, <2>1 DEF NameIn
<1>14. \A w \in Name : w # x => NameIn(w)' = NameIn(w)
  <2>. SUFFICES ASSUME NEW w \in Name, w # x PROVE NameIn(w)' = NameIn(w) OBVIOUS
  <2>1. w[1] \in Inode /\ w[2] \in Entries /\ w = <<w[1], w[2]>> BY Consts DEF Name
  <2>2. CASE w[1] = d
    <3>1. w[2] # n BY <2>1, <2>2
    <3>2. disk[d].ents \in [Entries -> 0 .. NINODES] BY <1>1 DEF InodeType
    <3>. QED BY <1>z, <1>11, <2>1, <2>2, <3>1, <3>2 DEF NameIn
  <2>3. CASE w[1] # d BY <1>12, <2>1, <2>3 DEF NameIn
  <2>. QED BY <2>2, <2>3
<1>. HIDE DEF x
<1>x. x \in Name BY <1>1 DEF x
<1>15. \A c \in Inode : c # i => (InTree(c)' <=> InTree(c))
  <2>. SUFFICES ASSUME NEW c \in Inode, c # i PROVE InTree(c)' <=> InTree(c) OBVIOUS
  <2>0. c # 0 BY Consts
  <2>1. \A w \in Name : NameIn(w)' = c <=> NameIn(w) = c BY <1>3, <1>13, <1>14, <2>0
  <2>. QED BY <1>12, <2>1 DEF InTree
<1>16. (ParentOf')[i] = 0
  <2>1. CASE isDir
    <3>1. \A w \in Name : NameIn(w)' # i BY <1>4, <1>6, <1>13, <1>14, <2>1
    <3>2. ~InTree(i)' BY <1>6, <3>1 DEF InTree
    <3>. QED BY <1>1, <3>2 DEF ParentOf
  <2>2. CASE ~isDir
    <3>1. ~InTree(i)' BY <1>1, <1>9, <1>12, <2>2 DEF InTree
    <3>. QED BY <1>1, <3>1 DEF ParentOf
  <2>. QED BY <2>1, <2>2
<1>17. \A c \in Inode : c # i => (ParentOf')[c] = ParentOf[c] BY <1>12, <1>15 DEF ParentOf
<1>18. DiskInv'
  <2>1. \A j \in Inode : disk'[j].type = "FREE" => disk'[j] = NoInode
    BY <1>t, <1>1, <1>5, <1>11, <1>12 DEF DiskInv
  <2>2. \A j \in Inode : disk'[j].type # "DIR" => disk'[j].ents = NoEnts
    BY <1>t, <1>1, <1>12 DEF DiskInv
  <2>3. disk'[ROOTINO].type = "DIR" /\ disk'[ROOTINO].ents[Dots] = ROOTINO
    BY <1>t, <1>12, Consts DEF DiskInv
  <2>. QED BY <2>1, <2>2, <2>3 DEF DiskInv
<1>19. TreeInv'
  <2>. SUFFICES ASSUME NEW w \in Name
                PROVE  /\ NameIn(w)' # ROOTINO
                       /\ NameIn(w)' # 0 /\ disk'[NameIn(w)'].type = "DIR" =>
                            /\ w[1] = disk'[NameIn(w)'].ents[Dots]
                            /\ \A v \in Name : NameIn(v)' = NameIn(w)' => w = v
    BY DEF TreeInv
  <2>1. CASE w = x BY <1>13, <2>1, Consts
  <2>2. CASE w # x
    <3>1. NameIn(w)' = NameIn(w) BY <1>14, <2>2
    <3>2. NameIn(w) # ROOTINO /\ (NameIn(w) # 0 => NameIn(w) \in Inode)
      BY <1>t, NamedInode DEF TreeInv
    <3>3. NameIn(w) # 0 /\ disk[NameIn(w)].type = "DIR" =>
             /\ w[1] = disk[NameIn(w)].ents[Dots]
             /\ \A v \in Name : NameIn(v) = NameIn(w) => w = v
      BY <1>t DEF TreeInv
    <3>4. \A v \in Name : NameIn(v)' = NameIn(w) /\ NameIn(w) # 0 => NameIn(v) = NameIn(w)
      BY <1>13, <1>14
    <3>. QED BY <1>12, <3>1, <3>2, <3>3, <3>4
  <2>. QED BY <2>1, <2>2
<1>20. LinkInv'
  <2>1. \A j \in Inode :
           disk'[j].nlink = disk[j].nlink - One(NameIn(x), j) + One(NameIn(x)', j)
                            - One(ParentOf[i], j) + One((ParentOf')[i], j)
                            - One(LinkOf(p), j) + One(LinkOf(p)', j)
    <3>. SUFFICES ASSUME NEW j \in Inode
                  PROVE  disk'[j].nlink = disk[j].nlink - One(i, j) + One(0, j)
                            - One(IF isDir THEN d ELSE 0, j) + One(0, j)
                            - One(0, j) + One(0, j)
      BY <1>1, <1>3, <1>7, <1>13, <1>16
    <3>1. One(0, j) = 0 BY Consts DEF One
    <3>2. disk[j].nlink \in Nat BY <1>t DEF TypeOK, InodeType
    <3>3. CASE j = i
      <4>1. One(i, j) = 1 /\ One(IF isDir THEN d ELSE 0, j) = 0 BY <1>1, <1>4, <3>3 DEF One
      <4>. QED BY <1>y, <1>11, <3>1, <3>2, <3>3, <4>1
    <3>4. CASE j = d
      <4>1. One(i, j) = 0 /\ One(IF isDir THEN d ELSE 0, j) = IF isDir THEN 1 ELSE 0
        BY <1>1, <1>4, <3>4 DEF One
      <4>. QED BY <1>z, <1>11, <3>1, <3>2, <3>4, <4>1
    <3>5. CASE j # i /\ j # d
      <4>1. One(i, j) = 0 /\ One(IF isDir THEN d ELSE 0, j) = 0 BY <3>1, <3>5 DEF One
      <4>. QED BY <1>11, <3>1, <3>2, <3>5, <4>1
    <3>. QED BY <3>3, <3>4, <3>5
  <2>. QED BY <1>t, <1>x, <1>1, <1>14, <1>17, <2>1, LinksMove
<1>. QED BY <1>18, <1>19, <1>20

LEMMA UnlinkKeeps == ASSUME Inv, NEW p \in Proc, Unlink(p) PROVE Inv'
<1>t. TypeOK BY DEF Inv
<1>. SUFFICES ASSUME NEW d, d = pr[p].ip, NEW i, i = pr[p].held PROVE Inv' OBVIOUS
<1>1. pr[p].pc = "unlink" /\ lock[i] = 0 /\ UNCHANGED <<ref, lock, used, Files, lost>>
  BY DEF Unlink
<1>2. /\ d \in Inode /\ i \in Inode /\ d # i
      /\ lock[d] = p /\ Ino(d) = disk[d] /\ Ino(i) = disk[i]
      /\ disk[d] \in InodeType /\ disk[i] \in InodeType
      /\ ref[d] > 0 /\ ref[i] > 0 /\ pr[p].iput = "no" /\ LinkOf(p) = 0
  BY <1>1, HoldsOK
<1>3. cwd' = cwd /\ file' = file BY <1>1 DEF Files
<1>4. /\ file' \in [Proc -> FileType] /\ \A q \in Proc \ {p} : file'[q] = file[q]
      /\ used' \subseteq Blocks /\ lost' \in [Inode -> Nat] /\ file'[p] = file[p]
  BY <1>t, <1>1, <1>3 DEF TypeOK
<1>5. ASSUME NEW s, Return(p, s)
      PROVE  Move(p) /\ LinkOf(p)' = 0
  <2>. SUFFICES ASSUME NEW e, e = Idle(s) PROVE Move(p) /\ LinkOf(p)' = 0 OBVIOUS
  <2>1. pr'[p] = e /\ \A q \in Proc \ {p} : pr'[q] = pr[q] BY <1>t, <1>5 DEF Return, TypeOK
  <2>2. e.call = "none" BY IdleFields DEF IsIdle
  <2>. QED BY <1>3, <2>1, <2>2 DEF Move, LinkOf
<1>6. CASE Load(i) /\ Return(p, <<i, d>>) /\ UNCHANGED disk
  <2>1. Wrote({i}) BY <1>1, <1>2, <1>6, LoadWrites
  <2>2. Move(p) /\ LinkOf(p)' = LinkOf(p) BY <1>2, <1>5, <1>6
  <2>3. DiskInv' /\ TreeInv' /\ LinkInv' /\ BlocksOK(disk', used') BY <1>1, <1>6, <2>2, Reads
  <2>4. mem' \in [Inode -> InodeType \cup {NoCopy}] BY <1>t, <1>2, <1>6 DEF Load, TypeOK
  <2>5. /\ disk' \in [Inode -> InodeType]
        /\ \A j \in Inode : disk'[j].size <= Len(disk'[j].data) /\ disk'[j].type = disk[j].type
    BY <1>t, <1>6 DEF TypeOK
  <2>. SUFFICES ASSUME NEW s, s = <<i, d>> PROVE Inv' OBVIOUS
  <2>6. Return(p, s) /\ s \in {<<d, i>>, <<i, d>>} BY <1>6
  <2>. QED BY <1>1, <1>2, <1>3, <1>4, <2>1, <2>3, <2>4, <2>5, <2>6, HoldsEnd
<1>7. CASE /\ StoreBoth(i, [Ino(i) EXCEPT !.nlink = @ - 1],
                        d, [Ino(d) EXCEPT !.ents[Elem(pr[p])] = 0,
                                          !.nlink = IF Ino(i).type = "DIR" THEN @ - 1 ELSE @])
           /\ Return(p, <<d, i>>)
  <2>. DEFINE n == Elem(pr[p])
              isDir == disk[i].type = "DIR"
              y == [disk[i] EXCEPT !.nlink = @ - 1]
              z == [disk[d] EXCEPT !.ents[n] = 0, !.nlink = IF isDir THEN @ - 1 ELSE @]
  <2>1. /\ disk' = [disk EXCEPT ![i] = y, ![d] = z]
        /\ mem' = [mem EXCEPT ![i] = y, ![d] = z]
    BY <1>2, <1>7 DEF StoreBoth
  <2>f. Found(d, i, n, isDir) BY <1>1, UnlinkFacts
  <2>y. FewerLinks(disk[i], y)
    <3>1. disk[i].nlink > 0 BY <2>f DEF Found
    <3>. QED BY <1>2, <3>1, FewerLinksOK
  <2>z. EntryTaken(disk[d], n, isDir, z)
    <3>1. n \in Entries /\ isDir \in BOOLEAN /\ (isDir => disk[d].nlink > 0) BY <2>f DEF Found
    <3>. QED BY <1>2, <3>1, EntryTakenOK
  <2>. HIDE DEF n, isDir, y, z
  <2>2. Move(p) /\ LinkOf(p)' = 0 BY <1>5, <1>7
  <2>3. /\ DiskInv' /\ TreeInv' /\ LinkInv' /\ BlocksOK(disk', used')
        /\ y \in InodeType /\ z \in InodeType
        /\ y.size = disk[i].size /\ y.data = disk[i].data /\ y.type = disk[i].type
        /\ z.size = disk[d].size /\ z.data = disk[d].data /\ z.type = disk[d].type
    <3>1. /\ y.size = disk[i].size /\ y.data = disk[i].data /\ y.ind = disk[i].ind
          /\ y.type = disk[i].type /\ y \in InodeType
          /\ z.size = disk[d].size /\ z.data = disk[d].data /\ z.ind = disk[d].ind
          /\ z.type = disk[d].type /\ z \in InodeType
      BY <2>y, <2>z DEF FewerLinks, EntryTaken
    <3>2. DiskInv' /\ TreeInv' /\ LinkInv'
      <4>. DEFINE D == disk'
      <4>1. D[i] = y /\ D[d] = z /\ \A j \in Inode : j # i /\ j # d => D[j] = disk[j]
        BY <1>t, <1>2, <2>1 DEF TypeOK
      <4>2. UNCHANGED lost BY <1>1
      <4>. QED BY <1>2, <2>f, <2>y, <2>z, <2>2, <4>1, <4>2, UnlinkTree
    <3>3. BlocksOK(disk', used')
      <4>1. disk \in [Inode -> InodeType] /\ BlocksOK(disk, used) BY <1>t DEF TypeOK, Inv
      <4>. DEFINE dk == [disk EXCEPT ![i] = y]
      <4>2. BlocksOK(dk, used)
        <5>1. y.data = disk[i].data /\ y.ind = disk[i].ind BY <3>1
        <5>. QED BY <1>2, <4>1, <5>1, BlocksEdit
      <4>3. dk \in [Inode -> InodeType] /\ dk[d] = disk[d] BY <1>2, <3>1, <4>1
      <4>4. disk' = [dk EXCEPT ![d] = z] BY <2>1
      <4>5. z.data = dk[d].data /\ z.ind = dk[d].ind BY <3>1, <4>3
      <4>. HIDE DEF dk
      <4>6. BlocksOK([dk EXCEPT ![d] = z], used) BY <1>2, <4>2, <4>3, <4>5, BlocksEdit
      <4>. QED BY <1>1, <4>4, <4>6
    <3>. QED BY <3>1, <3>2, <3>3
  <2>4. /\ disk'[i] = y /\ disk'[d] = z /\ mem'[i] = y /\ mem'[d] = z
        /\ \A j \in Inode : j \notin {i, d} => disk'[j] = disk[j] /\ mem'[j] = mem[j]
    BY <1>t, <1>2, <2>1 DEF TypeOK
  <2>5. Wrote({i, d}) BY <1>1, <1>2, <2>4 DEF Wrote
  <2>6. mem' \in [Inode -> InodeType \cup {NoCopy}] /\ disk' \in [Inode -> InodeType]
    BY <1>t, <2>1, <2>3 DEF TypeOK
  <2>7. \A j \in Inode : disk'[j].size <= Len(disk'[j].data) /\ disk'[j].type = disk[j].type
    <3>. SUFFICES ASSUME NEW j \in Inode
                  PROVE  disk'[j].size <= Len(disk'[j].data) /\ disk'[j].type = disk[j].type
      OBVIOUS
    <3>1. disk[j].size <= Len(disk[j].data) BY <1>t DEF TypeOK
    <3>2. disk'[j].size = disk[j].size /\ disk'[j].data = disk[j].data
          /\ disk'[j].type = disk[j].type
      BY <2>3, <2>4
    <3>. QED BY <3>1, <3>2
  <2>. SUFFICES ASSUME NEW s, s = <<d, i>> PROVE Inv' OBVIOUS
  <2>8. Return(p, s) /\ s \in {<<d, i>>, <<i, d>>} BY <1>7
  <2>. QED BY <1>1, <1>2, <1>3, <1>4, <2>3, <2>5, <2>6, <2>7, <2>8, HoldsEnd
<1>. QED BY <1>6, <1>7 DEF Unlink

----------------------------------------------------------------------------
(* create(): the new inode and its entry                                   *)

LEMMA WiderNlink ==
    ASSUME NEW x, NEW u, NEW y, NEW v, Wider(x, u, y, v), NEW k \in Nat
    PROVE  LET z == [y EXCEPT !.nlink = k] IN
           /\ Wider(x, u, z, v) /\ z.nlink = k /\ z.ents = y.ents /\ z.type = y.type
<1>. DEFINE z == [y EXCEPT !.nlink = k]
<1>1. y \in InodeType BY DEF Wider, Fits
<1>2. /\ z \in InodeType /\ z.nlink = k /\ z.ents = y.ents /\ z.type = y.type
      /\ z.data = y.data /\ z.ind = y.ind /\ z.size = y.size
  BY <1>1 DEF InodeType
<1>. HIDE DEF z
<1>3. OwnBlocks(z) = OwnBlocks(y) /\ (Apart(z) <=> Apart(y)) BY <1>2 DEF OwnBlocks, Apart
<1>4. Wider(x, u, z, v) BY <1>2, <1>3 DEF Wider, Fits
<1>. QED BY <1>2, <1>4 DEF z

\* The new inode of create(), with its "." and "..".
NewInode(x, u, y, v, isDir, d, k) ==
    /\ Wider(x, u, y, v) /\ y.nlink = k
    /\ y.ents = (IF isDir THEN [x.ents EXCEPT ![Dots] = d] ELSE x.ents)

LEMMA NewInodeOK ==
    ASSUME NEW x, NEW u, Fits(x, u), NEW isDir \in BOOLEAN, NEW d \in Inode
    PROVE  LET ip == [x EXCEPT !.nlink = 1]
               dots == IF isDir THEN Bmap(ip, u, 0) ELSE [ok |-> TRUE, ino |-> ip, used |-> u]
               ip1 == IF isDir THEN [dots.ino EXCEPT !.ents[Dots] = d, !.size = 1] ELSE ip
           IN  dots.ok => /\ NewInode(x, u, ip1, dots.used, isDir, d, 1)
                          /\ NewInode(x, u, [ip1 EXCEPT !.nlink = 0], dots.used, isDir, d, 0)
<1>. DEFINE ip == [x EXCEPT !.nlink = 1]
            dots == IF isDir THEN Bmap(ip, u, 0) ELSE [ok |-> TRUE, ino |-> ip, used |-> u]
            ip1 == IF isDir THEN [dots.ino EXCEPT !.ents[Dots] = d, !.size = 1] ELSE ip
<1>1. x \in InodeType /\ Wider(x, u, x, u) BY DEF Fits, Wider
<1>2. Wider(x, u, ip, u) /\ ip.nlink = 1 /\ ip.ents = x.ents /\ ip.type = x.type
  BY <1>1, WiderNlink
<1>3. OwnBlocks(ip) = OwnBlocks(x) BY <1>1 DEF InodeType, OwnBlocks
<1>. HIDE DEF ip
<1>4. Fits(ip, u) BY <1>2 DEF Wider
<1>5. ASSUME dots.ok PROVE NewInode(x, u, ip1, dots.used, isDir, d, 1)
  <2>1. CASE ~isDir BY <1>2, <2>1 DEF NewInode
  <2>2. CASE isDir
    <3>. SUFFICES ASSUME NEW y, y = Bmap(ip, u, 0).ino, NEW v, v = Bmap(ip, u, 0).used,
                         NEW z, z = [y EXCEPT !.ents[Dots] = d, !.size = 1]
                  PROVE  NewInode(x, u, z, v, isDir, d, 1)
      BY <2>2
    <3>1. Grown(ip, u, y, v) /\ 1 <= Len(y.data)
      <4>1. Bmap(ip, u, 0).ok BY <1>5, <2>2
      <4>2. Len(ip.data) \in Nat BY <1>4, FitsFields
      <4>3. 0 <= Len(ip.data) /\ 0 \in Nat BY <4>2
      <4>4. /\ Grown(ip, u, Bmap(ip, u, 0).ino, Bmap(ip, u, 0).used)
            /\ Bmap(ip, u, 0).ok => 0 + 1 <= Len(Bmap(ip, u, 0).ino.data)
        BY <1>4, <4>3, BmapOK
      <4>5. 0 + 1 = 1 OBVIOUS
      <4>. QED BY <4>1, <4>4, <4>5
    <3>2. y \in InodeType /\ y.ents = x.ents /\ y.nlink = 1 /\ y.type = x.type
      BY <1>2, <3>1 DEF Grown, Fits
    <3>3. 1 \in 0 .. MAXFILE BY Consts
    <3>4. /\ z \in InodeType /\ z.ents = [x.ents EXCEPT ![Dots] = d] /\ z.nlink = 1
          /\ z.type = y.type /\ z.data = y.data /\ z.ind = y.ind /\ z.size = 1
      <4>1. y.ents \in [Entries -> 0 .. NINODES] BY <3>2 DEF InodeType
      <4>2. [y.ents EXCEPT ![Dots] = d] \in [Entries -> 0 .. NINODES] BY <4>1, Consts
      <4>3. z = [y EXCEPT !.ents = [y.ents EXCEPT ![Dots] = d], !.size = 1]
        BY <3>2 DEF InodeType
      <4>. DEFINE f == [y.ents EXCEPT ![Dots] = d]
      <4>4. f \in [Entries -> 0 .. NINODES] /\ z = [y EXCEPT !.ents = f, !.size = 1]
        BY <4>2, <4>3
      <4>. HIDE DEF f
      <4>5. /\ z \in InodeType /\ z.ents = f /\ z.nlink = y.nlink
            /\ z.type = y.type /\ z.data = y.data /\ z.ind = y.ind /\ z.size = 1
        BY <3>2, <3>3, <4>4 DEF InodeType
      <4>. QED BY <3>2, <4>5 DEF f
    <3>5. Wider(ip, u, z, v)
      <4>1. z.size <= Len(y.data) BY <3>1, <3>4
      <4>. QED BY ONLY <3>1, <3>4, <4>1, GrownWider
    <3>6. Wider(x, u, z, v) BY <1>2, <1>3, <3>5 DEF Wider
    <3>. QED BY <2>2, <3>4, <3>6 DEF NewInode
  <2>. QED BY <2>1, <2>2
<1>6. ASSUME dots.ok PROVE NewInode(x, u, [ip1 EXCEPT !.nlink = 0], dots.used, isDir, d, 0)
  <2>1. NewInode(x, u, ip1, dots.used, isDir, d, 1) BY <1>5, <1>6
  <2>. HIDE DEF ip1, dots
  <2>2. LET z == [ip1 EXCEPT !.nlink = 0] IN
        Wider(x, u, z, dots.used) /\ z.nlink = 0 /\ z.ents = ip1.ents
    BY <2>1, WiderNlink DEF NewInode
  <2>. QED BY <2>1, <2>2 DEF NewInode
<1>. QED BY <1>5, <1>6 DEF ip

\* The two inodes as create() writes them, with the entry or, if there is no room, without.
Created(x, w, isDir, ok, d, i, n, y, z) ==
    /\ y.type = x.type /\ y.nlink = (IF ok THEN 1 ELSE 0)
    /\ y.ents = (IF isDir THEN [x.ents EXCEPT ![Dots] = d] ELSE x.ents)
    /\ z.type = w.type /\ z.ents = (IF ok THEN [w.ents EXCEPT ![n] = i] ELSE w.ents)
    /\ z.nlink = (IF ok /\ isDir THEN w.nlink + 1 ELSE w.nlink)

\* What create() knows of the inode that it has allocated.
Creates(d, i, n, isDir) ==
    /\ d \in Inode /\ i \in Inode /\ d # i /\ disk[d].type = "DIR" /\ isDir \in BOOLEAN
    /\ n \in Names /\ <<d, n>> \in Name /\ NameIn(<<d, n>>) = 0
    /\ isDir <=> disk[i].type = "DIR"
    /\ disk[i].type # "FREE" /\ disk[i].nlink = 0 /\ disk[i].ents = NoEnts

\* The name of the new inode is the only one that changes.
LEMMA CreateTree ==
    ASSUME Inv, NEW p \in Proc, Move(p), LinkOf(p) = 0, LinkOf(p)' = 0, UNCHANGED lost,
           NEW d, NEW i, NEW n, NEW isDir, Creates(d, i, n, isDir), NEW ok \in BOOLEAN,
           NEW y, NEW z, Created(disk[i], disk[d], isDir, ok, d, i, n, y, z),
           disk'[i] = y, disk'[d] = z, \A j \in Inode : j # i /\ j # d => disk'[j] = disk[j]
    PROVE  DiskInv' /\ TreeInv' /\ LinkInv'
<1>t. TypeOK /\ DiskInv /\ TreeInv /\ LinkInv BY DEF Inv
<1>. DEFINE x == <<d, n>>
<1>1. /\ d \in Inode /\ i \in Inode /\ d # i /\ disk[d].type = "DIR"
      /\ n \in Names /\ x \in Name /\ NameIn(x) = 0
      /\ disk[i].type # "FREE" /\ disk[i].nlink = 0 /\ disk[i].ents = NoEnts
  BY DEF Creates
<1>2. isDir <=> disk[i].type = "DIR" BY DEF Creates
<1>3. n \in Entries /\ n # Dots /\ d # 0 /\ i # 0 BY <1>1, Consts
<1>y. /\ y.type = disk[i].type /\ y.nlink = (IF ok THEN 1 ELSE 0)
      /\ y.ents = (IF isDir THEN [NoEnts EXCEPT ![Dots] = d] ELSE NoEnts)
  BY <1>1 DEF Created
<1>z. /\ z.type = disk[d].type
      /\ z.ents = (IF ok THEN [disk[d].ents EXCEPT ![n] = i] ELSE disk[d].ents)
      /\ z.nlink = (IF ok /\ isDir THEN disk[d].nlink + 1 ELSE disk[d].nlink)
  BY DEF Created
<1>4. /\ \A w \in Name : NameIn(w) # i
      /\ \A c \in Inode : ParentOf[c] # i
      /\ ~InTree(i) /\ i # ROOTINO
  BY <1>t, <1>1, Unlinked
<1>5. disk'[i] = y /\ disk'[d] = z /\ \A j \in Inode : j # i /\ j # d => disk'[j] = disk[j]
  OBVIOUS
<1>6. disk[d].ents \in [Entries -> 0 .. NINODES] /\ disk[d].nlink \in Nat
  BY <1>t, <1>1 DEF TypeOK, InodeType
<1>7. \A j \in Inode : disk'[j].type = disk[j].type
  <2>. SUFFICES ASSUME NEW j \in Inode PROVE disk'[j].type = disk[j].type OBVIOUS
  <2>1. CASE j = i BY <1>y, <1>5, <2>1
  <2>2. CASE j = d BY <1>z, <1>5, <2>2
  <2>3. CASE j # i /\ j # d BY <1>5, <2>3
  <2>. QED BY <2>1, <2>2, <2>3
<1>8. \A j \in Inode : j # i => disk'[j].ents[Dots] = disk[j].ents[Dots]
  <2>. SUFFICES ASSUME NEW j \in Inode, j # i PROVE disk'[j].ents[Dots] = disk[j].ents[Dots]
    OBVIOUS
  <2>1. CASE j = d BY <1>z, <1>3, <1>5, <1>6, <2>1, Consts
  <2>2. CASE j # d BY <1>5, <2>2
  <2>. QED BY <2>1, <2>2
<1>9. y.ents[Dots] = (IF isDir THEN d ELSE 0) /\ \A m \in Names : y.ents[m] = 0
  BY <1>y, Consts DEF NoEnts
<1>10. NameIn(x)' = (IF ok THEN i ELSE 0)
  <2>1. ok => z.ents[n] = i BY <1>z, <1>3, <1>6
  <2>2. ~ok => z.ents[n] = 0
    <3>1. disk[d].ents[n] = 0 BY <1>1 DEF NameIn
    <3>. QED BY <1>z, <3>1
  <2>. QED BY <1>1, <1>z, <1>5, <2>1, <2>2 DEF NameIn
<1>11. \A w \in Name : w # x => NameIn(w)' = NameIn(w)
  <2>. SUFFICES ASSUME NEW w \in Name, w # x PROVE NameIn(w)' = NameIn(w) OBVIOUS
  <2>1. w[1] \in Inode /\ w[2] \in Names /\ w[2] \in Entries /\ w = <<w[1], w[2]>>
    BY Consts DEF Name
  <2>2. CASE w[1] = d
    <3>1. w[2] # n BY <2>1, <2>2
    <3>2. z.ents[w[2]] = disk[d].ents[w[2]] BY <1>z, <1>6, <2>1, <3>1
    <3>. QED BY <1>z, <1>5, <2>2, <3>2 DEF NameIn
  <2>3. CASE w[1] = i
    <3>1. disk[i].ents[w[2]] = 0 BY <1>1, <2>1 DEF NoEnts
    <3>. QED BY <1>5, <1>9, <2>1, <2>3, <3>1 DEF NameIn
  <2>4. CASE w[1] # d /\ w[1] # i BY <1>5, <2>1, <2>4 DEF NameIn
  <2>. QED BY <2>2, <2>3, <2>4
<1>. HIDE DEF x
<1>x. x \in Name /\ x[1] = d BY <1>1 DEF x
<1>12. \A c \in Inode : c # i => (InTree(c)' <=> InTree(c))
  <2>. SUFFICES ASSUME NEW c \in Inode, c # i PROVE InTree(c)' <=> InTree(c) OBVIOUS
  <2>0. c # 0 BY Consts
  <2>1. \A w \in Name : NameIn(w)' = c <=> NameIn(w) = c BY <1>1, <1>10, <1>11, <2>0
  <2>. QED BY <1>7, <2>1 DEF InTree
<1>13. (ParentOf')[i] = (IF ok /\ isDir THEN d ELSE 0)
  <2>1. InTree(i)' <=> ok /\ isDir
    <3>1. \A w \in Name : w # x => NameIn(w)' # i BY <1>4, <1>11
    <3>2. NameIn(x)' = i <=> ok BY <1>3, <1>10
    <3>. QED BY <1>x, <1>1, <1>2, <1>4, <1>7, <3>1, <3>2 DEF InTree
  <2>2. isDir => disk'[i].ents[Dots] = d BY <1>5, <1>9
  <2>. QED BY <1>1, <2>1, <2>2 DEF ParentOf
<1>14. \A c \in Inode : c # i => (ParentOf')[c] = ParentOf[c] BY <1>8, <1>12 DEF ParentOf
<1>15. ParentOf[i] = 0 BY <1>1, <1>4 DEF ParentOf
<1>16. DiskInv'
  <2>1. \A j \in Inode : disk'[j].type = "FREE" => disk'[j] = NoInode
    <3>. SUFFICES ASSUME NEW j \in Inode, disk'[j].type = "FREE" PROVE disk'[j] = NoInode
      OBVIOUS
    <3>1. j # i /\ j # d BY <1>1, <1>7
    <3>. QED BY <1>t, <1>5, <3>1 DEF DiskInv
  <2>2. \A j \in Inode : disk'[j].type # "DIR" => disk'[j].ents = NoEnts
    <3>. SUFFICES ASSUME NEW j \in Inode, disk'[j].type # "DIR" PROVE disk'[j].ents = NoEnts
      OBVIOUS
    <3>1. CASE j = i BY <1>2, <1>y, <1>5, <3>1
    <3>2. CASE j # i
      <4>1. j # d BY <1>1, <1>7
      <4>. QED BY <1>t, <1>5, <3>2, <4>1 DEF DiskInv
    <3>. QED BY <3>1, <3>2
  <2>3. disk'[ROOTINO].type = "DIR" /\ disk'[ROOTINO].ents[Dots] = ROOTINO
    BY <1>t, <1>4, <1>7, <1>8, Consts DEF DiskInv
  <2>. QED BY <2>1, <2>2, <2>3 DEF DiskInv
<1>17. TreeInv'
  <2>. SUFFICES ASSUME NEW w \in Name
                PROVE  /\ NameIn(w)' # ROOTINO
                       /\ NameIn(w)' # 0 /\ disk'[NameIn(w)'].type = "DIR" =>
                            /\ w[1] = disk'[NameIn(w)'].ents[Dots]
                            /\ \A v \in Name : NameIn(v)' = NameIn(w)' => w = v
    BY DEF TreeInv
  <2>1. CASE w = x
    <3>1. CASE ~ok BY <1>10, <2>1, <3>1, Consts
    <3>2. CASE ok
      <4>1. NameIn(w)' = i BY <1>10, <2>1, <3>2
      <4>2. disk'[i].type = "DIR" => disk'[i].ents[Dots] = d BY <1>1, <1>2, <1>5, <1>7, <1>9
      <4>3. \A v \in Name : NameIn(v)' = i => w = v BY <1>4, <1>11, <2>1
      <4>. QED BY <1>x, <1>4, <2>1, <4>1, <4>2, <4>3
    <3>. QED BY <3>1, <3>2
  <2>2. CASE w # x
    <3>1. NameIn(w)' = NameIn(w) /\ NameIn(w) # i BY <1>4, <1>11, <2>2
    <3>2. NameIn(w) # ROOTINO /\ (NameIn(w) # 0 => NameIn(w) \in Inode)
      BY <1>t, NamedInode DEF TreeInv
    <3>3. NameIn(w) # 0 /\ disk[NameIn(w)].type = "DIR" =>
             /\ w[1] = disk[NameIn(w)].ents[Dots]
             /\ \A v \in Name : NameIn(v) = NameIn(w) => w = v
      BY <1>t DEF TreeInv
    <3>4. \A v \in Name : NameIn(v)' = NameIn(w) /\ NameIn(w) # 0 => NameIn(v) = NameIn(w)
      BY <1>10, <1>11, <3>1
    <3>. QED BY <1>7, <1>8, <3>1, <3>2, <3>3, <3>4
  <2>. QED BY <2>1, <2>2
<1>18. LinkInv'
  <2>1. \A j \in Inode :
           disk'[j].nlink = disk[j].nlink - One(NameIn(x), j) + One(NameIn(x)', j)
                            - One(ParentOf[i], j) + One((ParentOf')[i], j)
                            - One(LinkOf(p), j) + One(LinkOf(p)', j)
    <3>. SUFFICES ASSUME NEW j \in Inode
                  PROVE  disk'[j].nlink = disk[j].nlink - One(0, j) + One(IF ok THEN i ELSE 0, j)
                            - One(0, j) + One(IF ok /\ isDir THEN d ELSE 0, j)
                            - One(0, j) + One(0, j)
      BY <1>1, <1>10, <1>13, <1>15
    <3>1. One(0, j) = 0 BY Consts DEF One
    <3>2. disk[j].nlink \in Nat BY <1>t DEF TypeOK, InodeType
    <3>3. CASE j = i
      <4>1. One(IF ok THEN i ELSE 0, j) = (IF ok THEN 1 ELSE 0)
            /\ One(IF ok /\ isDir THEN d ELSE 0, j) = 0
        BY <1>1, <1>3, <3>3 DEF One
      <4>. QED BY <1>y, <1>1, <1>5, <3>1, <3>2, <3>3, <4>1
    <3>4. CASE j = d
      <4>1. One(IF ok THEN i ELSE 0, j) = 0
            /\ One(IF ok /\ isDir THEN d ELSE 0, j) = (IF ok /\ isDir THEN 1 ELSE 0)
        BY <1>1, <1>3, <3>4 DEF One
      <4>. QED BY <1>z, <1>5, <3>1, <3>2, <3>4, <4>1
    <3>5. CASE j # i /\ j # d
      <4>1. One(IF ok THEN i ELSE 0, j) = 0 /\ One(IF ok /\ isDir THEN d ELSE 0, j) = 0
        BY <3>1, <3>5 DEF One
      <4>. QED BY <1>5, <3>1, <3>2, <3>5, <4>1
    <3>. QED BY <3>3, <3>4, <3>5
  <2>. QED BY <1>t, <1>x, <1>1, <1>11, <1>14, <2>1, LinksMove
<1>. QED BY <1>16, <1>17, <1>18

LEMMA CreateInitFacts ==
    ASSUME Inv, NEW p \in Proc, pr[p].pc = "init", lock[pr[p].held] = 0
    PROVE  /\ Creates(pr[p].ip, pr[p].held, Elem(pr[p]), pr[p].call = "mkdir")
           /\ LinkOf(p) = 0
<1>. SUFFICES ASSUME NEW d, d = pr[p].ip, NEW i, i = pr[p].held, NEW n, n = Elem(pr[p]),
                     NEW isDir, isDir = (pr[p].call = "mkdir")
              PROVE  Creates(d, i, n, isDir) /\ LinkOf(p) = 0
  OBVIOUS
<1>1. /\ d \in Inode /\ i \in Inode /\ d # i /\ disk[d].type = "DIR"
      /\ n \in Names /\ <<d, n>> \in Name /\ LinkOf(p) = 0
  BY HoldsOK
<1>2. disk[i] = Allocated(TypeOf(pr[p].call)) /\ disk[d].ents[n] = 0
  BY DEF Inv, WorkInv, WorkOK
<1>3. NameIn(<<d, n>>) = 0 BY <1>2 DEF NameIn
<1>4. pr[p].call \in CreateCalls BY DEF Inv, CallInv, CallOK
<1>5. /\ TypeOf(pr[p].call) # "FREE"
      /\ isDir <=> TypeOf(pr[p].call) = "DIR"
  BY <1>4 DEF CreateCalls, TypeOf
<1>6. disk[i].type = TypeOf(pr[p].call) /\ disk[i].nlink = 0 /\ disk[i].ents = NoEnts
  BY <1>2 DEF Allocated, NoInode
<1>. QED BY <1>1, <1>3, <1>5, <1>6 DEF Creates

\* The end of create(), whatever becomes of the blocks.
LEMMA CreateEnd ==
    ASSUME Inv, NEW p \in Proc, pr[p].pc = "init", lock[pr[p].held] = 0,
           NEW d, d = pr[p].ip, NEW i, i = pr[p].held, NEW n, n = Elem(pr[p]),
           NEW isDir, isDir = (pr[p].call = "mkdir"), NEW ok \in BOOLEAN,
           NEW y, NEW v, Wider(disk[i], used, y, v), NEW z, Wider(disk[d], v, z, used'),
           Created(disk[i], disk[d], isDir, ok, d, i, n, y, z),
           StoreBoth(i, y, d, z), UNCHANGED <<ref, lock, cwd, lost>>,
           file' \in [Proc -> FileType], \A q \in Proc \ {p} : file'[q] = file[q],
           NEW s, Return(p, s),
           \/ s \in {<<d, i>>, <<i, d>>} /\ file'[p] = file[p]
           \/ s = <<d>> /\ file[p].ip = 0 /\ file'[p].ip = i
    PROVE  Inv'
<1>t. TypeOK /\ BlocksOK(disk, used) BY DEF Inv
<1>1. /\ d \in Inode /\ i \in Inode /\ d # i /\ LinkOf(p) = 0 /\ ref[d] > 0 /\ ref[i] > 0
  BY HoldsOK
<1>2. Creates(d, i, n, isDir) BY CreateInitFacts
<1>3. disk \in [Inode -> InodeType] /\ mem \in [Inode -> InodeType \cup {NoCopy}]
  BY <1>t DEF TypeOK
<1>4. /\ disk' = [disk EXCEPT ![i] = y, ![d] = z] /\ mem' = [mem EXCEPT ![i] = y, ![d] = z]
  BY DEF StoreBoth
<1>5. /\ disk'[i] = y /\ disk'[d] = z /\ mem'[i] = y /\ mem'[d] = z
      /\ \A j \in Inode : j \notin {i, d} => disk'[j] = disk[j] /\ mem'[j] = mem[j]
  BY <1>1, <1>3, <1>4
<1>6. /\ y \in InodeType /\ z \in InodeType /\ y.type = disk[i].type /\ z.type = disk[d].type
      /\ y.size <= Len(y.data) /\ z.size <= Len(z.data) /\ used' \subseteq Blocks
  BY DEF Wider, Fits
<1>7. Move(p) /\ LinkOf(p)' = 0
  <2>. SUFFICES ASSUME NEW e, e = Idle(s) PROVE Move(p) /\ LinkOf(p)' = 0 OBVIOUS
  <2>1. pr'[p] = e /\ \A q \in Proc \ {p} : pr'[q] = pr[q] BY <1>t DEF Return, TypeOK
  <2>2. e.call = "none" BY IdleFields DEF IsIdle
  <2>. QED BY <2>1, <2>2 DEF Move, LinkOf
<1>8. DiskInv' /\ TreeInv' /\ LinkInv'
  <2>1. \A j \in Inode : j # i /\ j # d => disk'[j] = disk[j] BY <1>5
  <2>2. disk'[i] = y /\ disk'[d] = z /\ UNCHANGED lost BY <1>5
  <2>. QED BY <1>1, <1>2, <1>7, <2>1, <2>2, CreateTree
<1>9. BlocksOK(disk', used')
  <2>. DEFINE dk == [disk EXCEPT ![i] = y]
  <2>1. BlocksOK(dk, v) BY <1>t, <1>1, <1>3, BlocksWider
  <2>2. dk \in [Inode -> InodeType] /\ dk[d] = disk[d] BY <1>1, <1>3, <1>6
  <2>3. disk' = [dk EXCEPT ![d] = z] BY <1>4
  <2>. HIDE DEF dk
  <2>4. Wider(dk[d], v, z, used') BY <2>2
  <2>5. BlocksOK([dk EXCEPT ![d] = z], used') BY <1>1, <2>1, <2>2, <2>4, BlocksWider
  <2>. QED BY <2>3, <2>5
<1>10. Wrote({i, d}) BY <1>1, <1>5 DEF Wrote
<1>11. disk' \in [Inode -> InodeType] /\ mem' \in [Inode -> InodeType \cup {NoCopy}]
  BY <1>3, <1>4, <1>6
<1>12. \A j \in Inode : disk'[j].size <= Len(disk'[j].data) /\ disk'[j].type = disk[j].type
  <2>. SUFFICES ASSUME NEW j \in Inode
                PROVE  disk'[j].size <= Len(disk'[j].data) /\ disk'[j].type = disk[j].type
    OBVIOUS
  <2>1. CASE j = i BY <1>5, <1>6, <2>1
  <2>2. CASE j = d BY <1>5, <1>6, <2>2
  <2>3. CASE j \notin {i, d}
    <3>1. disk'[j] = disk[j] BY <1>5, <2>3
    <3>. QED BY <1>t, <3>1 DEF TypeOK
  <2>. QED BY <2>1, <2>2, <2>3
<1>13. lost' \in [Inode -> Nat] /\ UNCHANGED <<ref, lock, cwd>> BY <1>t DEF TypeOK
<1>14. {i, d} \subseteq {i, d} /\ i \in {i, d} /\ pr[p].pc \in {"init", "unlink"} OBVIOUS
<1>. QED BY <1>1, <1>6, <1>8, <1>9, <1>10, <1>11, <1>12, <1>13, <1>14, HoldsEnd

LEMMA CreateInitKeeps == ASSUME Inv, NEW p \in Proc, CreateInit(p) PROVE Inv'
<1>t. TypeOK /\ BlocksOK(disk, used) BY DEF Inv
<1>. DEFINE d == pr[p].ip
            i == pr[p].held
            n == Elem(pr[p])
            isDir == pr[p].call = "mkdir"
            ip == [disk[i] EXCEPT !.nlink = 1]
            dots == IF isDir THEN Bmap(ip, used, 0) ELSE [ok |-> TRUE, ino |-> ip, used |-> used]
            ip1 == IF isDir THEN [dots.ino EXCEPT !.ents[Dots] = d, !.size = 1] ELSE ip
            ent == Dirlink(disk[d], dots.used, n, i)
            z1 == [ent.ino EXCEPT !.nlink = IF isDir THEN @ + 1 ELSE @]
            y0 == [ip1 EXCEPT !.nlink = 0]
<1>1. pr[p].pc = "init" /\ lock[i] = 0 /\ UNCHANGED <<ref, lock, cwd, lost>>
  BY DEF CreateInit
<1>2. /\ d \in Inode /\ i \in Inode /\ d # i /\ lock[d] = p /\ Ino(d) = disk[d] /\ Ino(i) = disk[i]
      /\ disk[d] \in InodeType /\ disk[i] \in InodeType
      /\ ref[d] > 0 /\ ref[i] > 0 /\ pr[p].iput = "no" /\ LinkOf(p) = 0 /\ n \in Names
  BY <1>1, HoldsOK
<1>3. \/ /\ dots.ok /\ ent.ok /\ used' = ent.used /\ StoreBoth(i, ip1, d, z1)
         /\ \/ /\ pr[p].call = "create" /\ file[p] = NoFile
               /\ file' = [file EXCEPT ![p] = [ip |-> i, off |-> 0, writable |-> TRUE]]
               /\ Return(p, <<d>>)
            \/ Return(p, <<d, i>>) /\ UNCHANGED file
      \/ /\ ~dots.ok /\ UNCHANGED <<used, file>>
         /\ Store(i, [ip EXCEPT !.nlink = 0]) /\ Return(p, <<i, d>>)
      \/ /\ dots.ok /\ ~ent.ok /\ used' = ent.used /\ StoreBoth(i, y0, d, ent.ino)
         /\ Return(p, <<i, d>>) /\ UNCHANGED file
  BY <1>2 DEF CreateInit
<1>4. Creates(d, i, n, isDir) BY <1>1, CreateInitFacts
<1>5. file \in [Proc -> FileType] /\ UNCHANGED cwd BY <1>t, <1>1 DEF TypeOK
<1>6. dots.ok => /\ NewInode(disk[i], used, ip1, dots.used, isDir, d, 1)
                 /\ NewInode(disk[i], used, y0, dots.used, isDir, d, 0)
  <2>1. Fits(disk[i], used) BY <1>t, <1>2, DiskFits
  <2>2. isDir \in BOOLEAN OBVIOUS
  <2>. QED BY <1>2, <2>1, <2>2, NewInodeOK
<1>7. dots.ok => /\ Wider(disk[d], dots.used, ent.ino, ent.used)
                 /\ LinkedIn(disk[d], ent.ino, ent.ok, n, i)
  <2>. HIDE DEF d, i, n, isDir, dots, ip1, y0
  <2>. SUFFICES ASSUME dots.ok PROVE /\ Wider(disk[d], dots.used, ent.ino, ent.used)
                                     /\ LinkedIn(disk[d], ent.ino, ent.ok, n, i)
    OBVIOUS
  <2>1. Fits(disk[d], used) BY <1>t, <1>2, DiskFits
  <2>2. used \subseteq dots.used /\ dots.used \subseteq Blocks
    BY <1>6 DEF NewInode, Wider, Fits
  <2>3. Fits(disk[d], dots.used) BY <2>1, <2>2 DEF Fits
  <2>4. n \in Entries BY <1>2, Consts
  <2>. QED BY <1>2, <2>3, <2>4, DirlinkOK
<1>8. dots.ok => /\ Wider(disk[d], dots.used, z1, ent.used) /\ z1.ents = ent.ino.ents
                 /\ z1.type = ent.ino.type
                 /\ z1.nlink = (IF isDir THEN ent.ino.nlink + 1 ELSE ent.ino.nlink)
  <2>. HIDE DEF d, i, n, isDir, dots, ip1, y0, ent
  <2>. SUFFICES ASSUME dots.ok
                PROVE  /\ Wider(disk[d], dots.used, z1, ent.used) /\ z1.ents = ent.ino.ents
                       /\ z1.type = ent.ino.type
                       /\ z1.nlink = (IF isDir THEN ent.ino.nlink + 1 ELSE ent.ino.nlink)
    OBVIOUS
  <2>. DEFINE k == IF isDir THEN ent.ino.nlink + 1 ELSE ent.ino.nlink
  <2>1. ent.ino \in InodeType BY <1>7 DEF Wider, Fits
  <2>2. ent.ino.nlink \in Nat BY <2>1 DEF InodeType
  <2>3. k \in Nat BY <2>2
  <2>4. z1 = [ent.ino EXCEPT !.nlink = k] BY <2>1 DEF InodeType
  <2>. HIDE DEF k, z1
  <2>5. LET z == [ent.ino EXCEPT !.nlink = k] IN
        /\ Wider(disk[d], dots.used, z, ent.used) /\ z.nlink = k /\ z.ents = ent.ino.ents
        /\ z.type = ent.ino.type
    BY <1>7, <2>3, WiderNlink
  <2>. QED BY <2>4, <2>5 DEF k
<1>. HIDE DEF ip1, dots, ent, z1, y0
<1>9. CASE /\ dots.ok /\ ent.ok /\ used' = ent.used /\ StoreBoth(i, ip1, d, z1)
           /\ \/ /\ pr[p].call = "create" /\ file[p] = NoFile
                 /\ file' = [file EXCEPT ![p] = [ip |-> i, off |-> 0, writable |-> TRUE]]
                 /\ Return(p, <<d>>)
              \/ Return(p, <<d, i>>) /\ UNCHANGED file
  <2>1. Created(disk[i], disk[d], isDir, TRUE, d, i, n, ip1, z1)
    <3>1. /\ ip1.nlink = 1 /\ ip1.type = disk[i].type
          /\ ip1.ents = (IF isDir THEN [disk[i].ents EXCEPT ![Dots] = d] ELSE disk[i].ents)
      BY <1>6, <1>9 DEF NewInode, Wider
    <3>2. /\ z1.type = disk[d].type /\ z1.ents = [disk[d].ents EXCEPT ![n] = i]
          /\ z1.nlink = (IF isDir THEN disk[d].nlink + 1 ELSE disk[d].nlink)
      BY <1>7, <1>8, <1>9 DEF LinkedIn
    <3>. QED BY <3>1, <3>2 DEF Created
  <2>2. Wider(disk[i], used, ip1, dots.used) /\ Wider(disk[d], dots.used, z1, used')
    BY <1>6, <1>8, <1>9 DEF NewInode
  <2>3. CASE /\ file[p] = NoFile /\ Return(p, <<d>>)
             /\ file' = [file EXCEPT ![p] = [ip |-> i, off |-> 0, writable |-> TRUE]]
    <3>. DEFINE f == [ip |-> i, off |-> 0, writable |-> TRUE]
    <3>1. 0 \in 0 .. MAXFILE BY Consts
    <3>2. f \in FileType /\ f.ip = i BY <1>2, <3>1 DEF FileType
    <3>3. file' = [file EXCEPT ![p] = f] BY <2>3
    <3>. HIDE DEF f, i, d, n, isDir
    <3>4. file' \in [Proc -> FileType] /\ file'[p] = f /\ \A q \in Proc \ {p} : file'[q] = file[q]
      BY <1>5, <3>2, <3>3
    <3>5. file[p].ip = 0 /\ file'[p].ip = i BY <2>3, <3>2, <3>4 DEF NoFile
    <3>6. TRUE \in BOOLEAN OBVIOUS
    <3>. SUFFICES ASSUME NEW s, s = <<d>> PROVE Inv' OBVIOUS
    <3>. QED BY <1>1, <1>9, <2>1, <2>2, <2>3, <3>4, <3>5, <3>6, CreateEnd DEF d, i, n, isDir
  <2>4. CASE Return(p, <<d, i>>) /\ UNCHANGED file
    <3>1. /\ file' \in [Proc -> FileType] /\ \A q \in Proc \ {p} : file'[q] = file[q]
          /\ file'[p] = file[p] /\ TRUE \in BOOLEAN
      BY <1>5, <2>4
    <3>. SUFFICES ASSUME NEW s, s = <<d, i>> PROVE Inv' OBVIOUS
    <3>2. s \in {<<d, i>>, <<i, d>>} /\ Return(p, s) BY <2>4
    <3>. QED BY <1>1, <1>9, <2>1, <2>2, <3>1, <3>2, CreateEnd
  <2>. QED BY <1>9, <2>3, <2>4
<1>10. CASE /\ dots.ok /\ ~ent.ok /\ used' = ent.used /\ StoreBoth(i, y0, d, ent.ino)
            /\ Return(p, <<i, d>>) /\ UNCHANGED file
  <2>1. Created(disk[i], disk[d], isDir, FALSE, d, i, n, y0, ent.ino)
    <3>1. /\ y0.nlink = 0 /\ y0.type = disk[i].type
          /\ y0.ents = (IF isDir THEN [disk[i].ents EXCEPT ![Dots] = d] ELSE disk[i].ents)
      BY <1>6, <1>10 DEF NewInode, Wider
    <3>2. /\ ent.ino.type = disk[d].type /\ ent.ino.ents = disk[d].ents
          /\ ent.ino.nlink = disk[d].nlink
      BY <1>7, <1>10 DEF LinkedIn
    <3>. QED BY <3>1, <3>2 DEF Created
  <2>2. Wider(disk[i], used, y0, dots.used) /\ Wider(disk[d], dots.used, ent.ino, used')
    BY <1>6, <1>7, <1>10 DEF NewInode
  <2>3. /\ file' \in [Proc -> FileType] /\ \A q \in Proc \ {p} : file'[q] = file[q]
        /\ file'[p] = file[p] /\ FALSE \in BOOLEAN
    BY <1>5, <1>10
  <2>. SUFFICES ASSUME NEW s, s = <<i, d>> PROVE Inv' OBVIOUS
  <2>4. s \in {<<d, i>>, <<i, d>>} /\ Return(p, s) BY <1>10
  <2>. QED BY <1>1, <1>10, <2>1, <2>2, <2>3, <2>4, CreateEnd
<1>11. CASE /\ ~dots.ok /\ UNCHANGED <<used, file>>
            /\ Store(i, [ip EXCEPT !.nlink = 0]) /\ Return(p, <<i, d>>)
  <2>. SUFFICES ASSUME NEW s, s = <<i, d>> PROVE Inv' OBVIOUS
  <2>0. s \in {<<d, i>>, <<i, d>>} /\ Return(p, s) BY <1>11
  <2>1. [ip EXCEPT !.nlink = 0] = disk[i]
    <3>1. disk[i].nlink = 0 /\ disk[i] \in InodeType BY <1>2, <1>4 DEF Creates
    <3>. HIDE DEF i
    <3>. QED BY <3>1 DEF InodeType
  <2>. HIDE DEF ip
  <2>2. disk' = disk /\ mem' = [mem EXCEPT ![i] = disk[i]]
    BY <1>t, <1>2, <1>11, <2>1 DEF Store, TypeOK
  <2>3. Wrote({i})
    <3>1. mem'[i] = disk[i] /\ \A j \in Inode \ {i} : mem'[j] = mem[j]
      BY <1>t, <1>2, <2>2 DEF TypeOK
    <3>. QED BY <1>1, <1>2, <2>2, <3>1 DEF Wrote
  <2>4. Move(p) /\ LinkOf(p)' = LinkOf(p)
    <3>. SUFFICES ASSUME NEW e, e = Idle(s) PROVE Move(p) /\ LinkOf(p)' = 0 BY <1>2
    <3>1. pr'[p] = e /\ \A q \in Proc \ {p} : pr'[q] = pr[q] BY <1>t, <2>0 DEF Return, TypeOK
    <3>2. e.call = "none" BY IdleFields DEF IsIdle
    <3>. QED BY <1>1, <1>11, <3>1, <3>2 DEF Move, LinkOf
  <2>5. DiskInv' /\ TreeInv' /\ LinkInv' /\ BlocksOK(disk', used')
    BY <1>1, <1>11, <2>2, <2>4, Reads
  <2>6. /\ disk' \in [Inode -> InodeType] /\ mem' \in [Inode -> InodeType \cup {NoCopy}]
        /\ \A j \in Inode : disk'[j].size <= Len(disk'[j].data) /\ disk'[j].type = disk[j].type
        /\ used' \subseteq Blocks /\ lost' \in [Inode -> Nat]
        /\ file' \in [Proc -> FileType] /\ \A q \in Proc \ {p} : file'[q] = file[q]
        /\ file'[p] = file[p]
    BY <1>t, <1>1, <1>2, <1>11, <2>2 DEF TypeOK
  <2>7. UNCHANGED <<ref, lock, cwd>> /\ {i} \subseteq {i, d} /\ i \in {i} BY <1>1
  <2>. HIDE DEF i, d, n, isDir
  <2>. QED BY <1>1, <1>2, <2>0, <2>3, <2>5, <2>6, <2>7, HoldsEnd DEF i, d
<1>. QED BY <1>3, <1>9, <1>10, <1>11

----------------------------------------------------------------------------
(* link()                                                                  *)

\* link() in the directory of its new name: what it has, and how it can leave.
LEMMA LinkFacts ==
    ASSUME Inv, NEW p \in Proc, Arrived(p, {"link2"})
    PROVE  /\ pr[p].held \in Inode /\ Good(p, pr[p].held) /\ pr[p].ip # pr[p].held
           /\ disk[pr[p].held].type # "DIR" /\ disk[pr[p].held].type # "FREE"
           /\ disk[pr[p].ip].type = "DIR" /\ Elem(pr[p]) \in Names
           /\ <<pr[p].ip, Elem(pr[p])>> \in Name
           /\ Put(p, 1) = 0 /\ Put(p, 2) = 0 /\ pr[p].pc \notin {"init", "unlink"}
           /\ LinkOf(p) = pr[p].held /\ pr[p].call = "link2" /\ CallOK(pr[p])
           /\ pr[p] \in CallType
<1>t. TypeOK /\ CallInv BY DEF Inv
<1>1. /\ pr[p].puts = <<>> /\ pr[p].pc \in {"at", "walk"} /\ pr[p].call = "link2"
      /\ pr[p].ip \in Inode /\ pr[p].rest \in Seq(Names)
      /\ Parent(pr[p].call) => pr[p].rest # <<>> /\ disk[pr[p].ip].type = "DIR"
  BY ArrivedOK
<1>2. pr[p].rest # <<>> /\ disk[pr[p].ip].type = "DIR" BY <1>1 DEF Parent
<1>3. CallOK(pr[p]) /\ pr[p] \in CallType /\ pr[p].held \in Inode \cup {0} BY <1>t, ProcTypes
<1>4. pr[p].held # 0 BY <1>1, <1>3 DEF CallOK
<1>5. Good(p, pr[p].held) BY <1>1, OwnGood
<1>6. disk[pr[p].held].type # "DIR" BY <1>1 DEF Inv, WorkInv, WorkOK
<1>7. Elem(pr[p]) \in Names BY <1>1, <1>2 DEF Elem
<1>8. <<pr[p].ip, Elem(pr[p])>> \in Name BY <1>1, <1>7 DEF Name
<1>9. Put(p, 1) = 0 /\ Put(p, 2) = 0 BY <1>t, <1>1, Unfreed
<1>10. LinkOf(p) = pr[p].held BY <1>1 DEF LinkOf
<1>11. disk[pr[p].held].type # "FREE" BY <1>4, <1>5 DEF Good
<1>. QED BY <1>1, <1>2, <1>3, <1>4, <1>5, <1>6, <1>7, <1>8, <1>9, <1>10, <1>11

LEMMA LinkLeaves ==
    ASSUME Inv, NEW p \in Proc, Arrived(p, {"link2"}), UNCHANGED <<ref, cwd, file>>,
           NEW e, pr' = [pr EXCEPT ![p] = e],
           e = Fail(pr[p], <<pr[p].ip>>) \/ e = Idle(<<pr[p].ip, pr[p].held>>)
    PROVE  /\ e \in CallType /\ CallOK(e) /\ Len(e.puts) <= 2 /\ e.iput = "no"
           /\ e.pc \notin {"init", "unlink", "at"} /\ pr'[p] = e /\ Move(p)
           /\ LinkOf(p)' = (IF e = Fail(pr[p], <<pr[p].ip>>) THEN pr[p].held ELSE 0)
           /\ e.call = "link2" => e.held = pr[p].held
           /\ Good(p, e.ip) /\ Good(p, e.held) /\ Good(p, Put(p, 1)') /\ Good(p, Put(p, 2)')
           /\ \A j \in Inode : ref'[j] = ref[j] - Uses(p, j) + Uses(p, j)' /\ ref'[j] >= ref[j]
<1>t. TypeOK /\ CallInv BY DEF Inv
<1>. SUFFICES ASSUME NEW d, d = pr[p].ip, NEW i, i = pr[p].held
              PROVE  /\ e \in CallType /\ CallOK(e) /\ Len(e.puts) <= 2 /\ e.iput = "no"
                     /\ e.pc \notin {"init", "unlink", "at"} /\ pr'[p] = e /\ Move(p)
                     /\ LinkOf(p)' = (IF e = Fail(pr[p], <<d>>) THEN i ELSE 0)
                     /\ e.call = "link2" => e.held = i
                     /\ Good(p, e.ip) /\ Good(p, e.held)
                     /\ Good(p, Put(p, 1)') /\ Good(p, Put(p, 2)')
                     /\ \A j \in Inode : /\ ref'[j] = ref[j] - Uses(p, j) + Uses(p, j)'
                                         /\ ref'[j] >= ref[j]
  OBVIOUS
<1>1. d \in Inode /\ Good(p, d) /\ pr[p].iput = "no" BY ArrivedOK
<1>2. /\ i \in Inode /\ Good(p, i) /\ d # i /\ Put(p, 1) = 0 /\ Put(p, 2) = 0
      /\ pr[p].call = "link2" /\ CallOK(pr[p]) /\ pr[p] \in CallType
  BY LinkFacts
<1>3. pr'[p] = e /\ \A q \in Proc \ {p} : pr'[q] = pr[q] BY <1>t DEF TypeOK
<1>4. Move(p) BY <1>3 DEF Move
<1>5. CASE e = Fail(pr[p], <<d>>)
  <2>1. pr[p].iput = "no" BY <1>1, <1>2 DEF CallType
  <2>2. IsBad(e, pr[p], <<d>>) BY <1>1, <1>2, <1>5, <2>1, FailOK
  <2>3. /\ e \in CallType /\ CallOK(e) /\ e.pc = "bad" /\ e.call = "link2" /\ e.ip = 0
        /\ e.held = i /\ e.puts = <<d>> /\ e.iput = "no"
    BY <2>2 DEF IsBad
  <2>4. Len(<<d>>) = 1 /\ 1 <= 2 OBVIOUS
  <2>5. Put(p, 1)' = d /\ Put(p, 2)' = 0 BY <1>3, <2>3, PutValues
  <2>6. LinkOf(p)' = i BY <1>3, <2>3 DEF LinkOf
  <2>7. Good(p, 0) BY DEF Good
  <2>8. \A j \in Inode : ref'[j] = ref[j] - Uses(p, j) + Uses(p, j)' /\ ref'[j] >= ref[j]
    <3>. SUFFICES ASSUME NEW j \in Inode
                  PROVE  ref'[j] = ref[j] - Uses(p, j) + Uses(p, j)' /\ ref'[j] >= ref[j]
      OBVIOUS
    <3>1. Uses(p, j) = One(cwd[p], j) + One(file[p].ip, j) + One(d, j)
                       + One(i, j) + One(0, j) + One(0, j)
      BY <1>2 DEF Uses
    <3>2. Uses(p, j)' = One(cwd[p], j) + One(file[p].ip, j) + One(0, j)
                        + One(i, j) + One(d, j) + One(0, j)
      BY <1>3, <2>3, <2>5 DEF Uses
    <3>3. /\ One(cwd[p], j) \in Int /\ One(file[p].ip, j) \in Int /\ One(d, j) \in Int
          /\ One(i, j) \in Int /\ One(0, j) = 0
      BY Consts DEF One
    <3>4. ref[j] \in Nat /\ ref'[j] = ref[j] BY <1>t DEF TypeOK
    <3>. QED BY <3>1, <3>2, <3>3, <3>4
  <2>. QED BY <1>1, <1>2, <1>3, <1>4, <1>5, <2>3, <2>4, <2>5, <2>6, <2>7, <2>8
<1>6. CASE e = Idle(<<d, i>>)
  <2>. SUFFICES ASSUME NEW s, s = <<d, i>>
                PROVE  /\ e \in CallType /\ CallOK(e) /\ Len(e.puts) <= 2 /\ e.iput = "no"
                       /\ e.pc \notin {"init", "unlink", "at"} /\ pr'[p] = e /\ Move(p)
                       /\ LinkOf(p)' = (IF e = Fail(pr[p], <<d>>) THEN i ELSE 0)
                       /\ e.call = "link2" => e.held = i
                       /\ Good(p, e.ip) /\ Good(p, e.held)
                       /\ Good(p, Put(p, 1)') /\ Good(p, Put(p, 2)')
                       /\ \A j \in Inode : /\ ref'[j] = ref[j] - Uses(p, j) + Uses(p, j)'
                                           /\ ref'[j] >= ref[j]
    OBVIOUS
  <2>1. IsIdle(e, s) BY <1>6, IdleFields
  <2>2. /\ e.pc = "idle" /\ e.call = "none" /\ e.ip = 0 /\ e.held = 0
        /\ e.puts = s /\ e.iput = "no"
    BY <2>1 DEF IsIdle
  <2>3. e \in CallType /\ CallOK(e) /\ Len(e.puts) <= 2
    <3>1. /\ Idle(<<d, i>>) \in CallType /\ CallOK(Idle(<<d, i>>))
          /\ Len(Idle(<<d, i>>).puts) <= 2
      BY ONLY <1>1, <1>2, IdleOK
    <3>. QED BY <1>6, <3>1, Zenon
  <2>4. pr'[p].puts = <<d, i>> BY <1>3, <2>2
  <2>5. Put(p, 1)' = d /\ Put(p, 2)' = i BY ONLY <2>4, PutValues
  <2>6. LinkOf(p)' = 0 BY <1>3, <2>2 DEF LinkOf
  <2>7. Good(p, 0) BY DEF Good
  <2>8. \A j \in Inode : ref'[j] = ref[j] - Uses(p, j) + Uses(p, j)' /\ ref'[j] >= ref[j]
    <3>. SUFFICES ASSUME NEW j \in Inode
                  PROVE  ref'[j] = ref[j] - Uses(p, j) + Uses(p, j)' /\ ref'[j] >= ref[j]
      OBVIOUS
    <3>1. Uses(p, j) = One(cwd[p], j) + One(file[p].ip, j) + One(d, j)
                       + One(i, j) + One(0, j) + One(0, j)
      BY <1>2 DEF Uses
    <3>2. Uses(p, j)' = One(cwd[p], j) + One(file[p].ip, j) + One(0, j)
                        + One(0, j) + One(d, j) + One(i, j)
      BY <1>3, <2>2, <2>5 DEF Uses
    <3>3. /\ One(cwd[p], j) \in Int /\ One(file[p].ip, j) \in Int /\ One(d, j) \in Int
          /\ One(i, j) \in Int /\ One(0, j) = 0
      BY Consts DEF One
    <3>4. ref[j] \in Nat /\ ref'[j] = ref[j] BY <1>t DEF TypeOK
    <3>. QED BY <3>1, <3>2, <3>3, <3>4
  <2>9. e # Fail(pr[p], <<d>>)
    <3>1. pr[p].iput = "no" BY <1>1, <1>2 DEF CallType
    <3>2. IsBad(Fail(pr[p], <<d>>), pr[p], <<d>>) BY <1>1, <1>2, <3>1, FailOK
    <3>3. Fail(pr[p], <<d>>).call = "link2" BY <3>2 DEF IsBad
    <3>. QED BY <2>2, <3>3
  <2>. QED BY <1>1, <1>2, <1>3, <1>4, <2>2, <2>3, <2>5, <2>6, <2>7, <2>8, <2>9
<1>. QED BY <1>5, <1>6

\* The entry that link() adds is for an inode that is no directory: its count stays.
LEMMA LinkTree ==
    ASSUME Inv, NEW p \in Proc, Move(p), UNCHANGED lost,
           NEW d \in Inode, NEW n \in Names, NEW i \in Inode, d # i,
           disk[d].type = "DIR", disk[i].type \notin {"DIR", "FREE"},
           NameIn(<<d, n>>) = 0, LinkOf(p) = i, LinkOf(p)' = 0,
           NEW z, z.type = disk[d].type, z.nlink = disk[d].nlink,
           z.ents = [disk[d].ents EXCEPT ![n] = i], disk'[d] = z,
           \A j \in Inode : j # d => disk'[j] = disk[j]
    PROVE  DiskInv' /\ TreeInv' /\ LinkInv'
<1>t. TypeOK /\ DiskInv /\ TreeInv /\ LinkInv BY DEF Inv
<1>. DEFINE x == <<d, n>>
<1>1. x \in Name /\ n \in Entries /\ n # Dots /\ i # 0 BY Consts DEF Name
<1>2. disk[d].ents \in [Entries -> 0 .. NINODES] BY <1>t DEF TypeOK, InodeType
<1>3. \A j \in Inode : /\ disk'[j].type = disk[j].type /\ disk'[j].nlink = disk[j].nlink
                       /\ disk'[j].ents[Dots] = disk[j].ents[Dots]
  <2>. SUFFICES ASSUME NEW j \in Inode
                PROVE  /\ disk'[j].type = disk[j].type /\ disk'[j].nlink = disk[j].nlink
                       /\ disk'[j].ents[Dots] = disk[j].ents[Dots]
    OBVIOUS
  <2>1. CASE j = d BY <1>1, <1>2, <2>1, Consts
  <2>2. CASE j # d BY <2>2
  <2>. QED BY <2>1, <2>2
<1>4. NameIn(x)' = i BY <1>1, <1>2 DEF NameIn
<1>5. \A w \in Name : w # x => NameIn(w)' = NameIn(w)
  <2>. SUFFICES ASSUME NEW w \in Name, w # x PROVE NameIn(w)' = NameIn(w) OBVIOUS
  <2>1. w[1] \in Inode /\ w[2] \in Entries /\ w = <<w[1], w[2]>> BY Consts DEF Name
  <2>2. CASE w[1] = d
    <3>1. w[2] # n BY <2>1, <2>2
    <3>. QED BY <1>2, <2>1, <2>2, <3>1 DEF NameIn
  <2>3. CASE w[1] # d BY <2>1, <2>3 DEF NameIn
  <2>. QED BY <2>2, <2>3
<1>. HIDE DEF x
<1>x. NameIn(x) = 0 BY DEF x
<1>6. \A c \in Inode : InTree(c)' <=> InTree(c)
  <2>. SUFFICES ASSUME NEW c \in Inode PROVE InTree(c)' <=> InTree(c) OBVIOUS
  <2>1. CASE c = i BY <1>3, <2>1 DEF InTree
  <2>2. CASE c # i
    <3>1. c # 0 BY Consts
    <3>2. \A w \in Name : NameIn(w)' = c <=> NameIn(w) = c BY <1>x, <1>4, <1>5, <2>2, <3>1
    <3>. QED BY <1>3, <3>2 DEF InTree
  <2>. QED BY <2>1, <2>2
<1>7. \A c \in Inode : (ParentOf')[c] = ParentOf[c] BY <1>3, <1>6 DEF ParentOf
<1>8. DiskInv'
  <2>1. \A j \in Inode : disk'[j].type = "FREE" => disk'[j] = NoInode
    BY <1>t, <1>3 DEF DiskInv
  <2>2. \A j \in Inode : disk'[j].type # "DIR" => disk'[j].ents = NoEnts
    <3>. SUFFICES ASSUME NEW j \in Inode, disk'[j].type # "DIR" PROVE disk'[j].ents = NoEnts
      OBVIOUS
    <3>1. j # d BY <1>3
    <3>. QED BY <1>t, <3>1 DEF DiskInv
  <2>3. disk'[ROOTINO].type = "DIR" /\ disk'[ROOTINO].ents[Dots] = ROOTINO
    BY <1>t, <1>3, Consts DEF DiskInv
  <2>. QED BY <2>1, <2>2, <2>3 DEF DiskInv
<1>9. TreeInv'
  <2>. SUFFICES ASSUME NEW w \in Name
                PROVE  /\ NameIn(w)' # ROOTINO
                       /\ NameIn(w)' # 0 /\ disk'[NameIn(w)'].type = "DIR" =>
                            /\ w[1] = disk'[NameIn(w)'].ents[Dots]
                            /\ \A v \in Name : NameIn(v)' = NameIn(w)' => w = v
    BY DEF TreeInv
  <2>1. CASE w = x
    <3>1. i # ROOTINO BY <1>t DEF DiskInv
    <3>. QED BY <1>3, <1>4, <2>1, <3>1
  <2>2. CASE w # x
    <3>1. NameIn(w)' = NameIn(w) BY <1>5, <2>2
    <3>2. NameIn(w) # ROOTINO /\ (NameIn(w) # 0 => NameIn(w) \in Inode)
      BY <1>t, NamedInode DEF TreeInv
    <3>3. NameIn(w) # 0 /\ disk[NameIn(w)].type = "DIR" =>
             /\ w[1] = disk[NameIn(w)].ents[Dots]
             /\ \A v \in Name : NameIn(v) = NameIn(w) => w = v
      BY <1>t DEF TreeInv
    <3>4. disk[NameIn(w)].type = "DIR" =>
            \A v \in Name : NameIn(v)' = NameIn(w) => NameIn(v) = NameIn(w)
      BY <1>4, <1>5
    <3>. QED BY <1>3, <3>1, <3>2, <3>3, <3>4
  <2>. QED BY <2>1, <2>2
<1>10. LinkInv'
  <2>1. \A j \in Inode :
           disk'[j].nlink = disk[j].nlink - One(NameIn(x), j) + One(NameIn(x)', j)
                            - One(ParentOf[i], j) + One((ParentOf')[i], j)
                            - One(LinkOf(p), j) + One(LinkOf(p)', j)
    <3>. SUFFICES ASSUME NEW j \in Inode
                  PROVE  disk'[j].nlink = disk[j].nlink - One(0, j) + One(i, j)
                            - One(ParentOf[i], j) + One(ParentOf[i], j)
                            - One(i, j) + One(0, j)
      BY <1>x, <1>4, <1>7
    <3>1. One(0, j) = 0 /\ One(i, j) \in Int /\ One(ParentOf[i], j) \in Int
      BY Consts DEF One
    <3>2. disk[j].nlink \in Nat /\ disk'[j].nlink = disk[j].nlink
      BY <1>t, <1>3 DEF TypeOK, InodeType
    <3>. QED BY <3>1, <3>2
  <2>. QED BY <1>t, <1>1, <1>5, <1>7, <2>1, LinksMove
<1>. QED BY <1>8, <1>9, <1>10

LEMMA LinkEntryKeeps == ASSUME Inv, NEW p \in Proc, LinkEntry(p) PROVE Inv'
<1>t. TypeOK /\ DiskInv /\ BlocksOK(disk, used) /\ WorkInv BY DEF Inv
<1>. DEFINE d == pr[p].ip
            i == pr[p].held
            n == Elem(pr[p])
            r == Dirlink(disk[d], used, n, i)
<1>a. Arrived(p, {"link2"}) /\ UNCHANGED <<ref, lock, cwd, file, lost>>
  BY DEF LinkEntry, Files
<1>1. /\ pr[p].puts = <<>> /\ d \in Inode /\ Good(p, d) /\ lock[d] = 0
      /\ Ino(d) = disk[d] /\ disk[d] \in InodeType /\ ref[d] > 0 /\ pr[p].iput = "no"
  BY <1>a, ArrivedOK
<1>2. /\ i \in Inode /\ Good(p, i) /\ d # i /\ disk[i].type # "DIR" /\ disk[i].type # "FREE"
      /\ disk[d].type = "DIR" /\ n \in Names /\ <<d, n>> \in Name
      /\ pr[p].pc \notin {"init", "unlink"} /\ LinkOf(p) = i /\ pr[p].call = "link2"
  BY <1>a, LinkFacts
<1>3. \/ /\ disk[d].ents[n] # 0 /\ Load(d) /\ UNCHANGED <<disk, used>>
         /\ pr' = [pr EXCEPT ![p] = Fail(pr[p], <<d>>)]
      \/ /\ disk[d].ents[n] = 0 /\ Store(d, r.ino) /\ used' = r.used
         /\ pr' = [pr EXCEPT ![p] = IF r.ok THEN Idle(<<d, i>>) ELSE Fail(pr[p], <<d>>)]
  BY <1>1 DEF LinkEntry
<1>4. /\ cwd' \in [Proc -> Inode] /\ file' \in [Proc -> FileType] /\ ref' \in [Inode -> Nat]
      /\ \A q \in Proc \ {p} : cwd'[q] = cwd[q] /\ file'[q] = file[q]
      /\ Good(p, cwd'[p]) /\ Good(p, file'[p].ip)
  BY <1>t, <1>a, OwnGood DEF TypeOK
<1>5. CASE /\ Load(d) /\ UNCHANGED <<disk, used>>
           /\ pr' = [pr EXCEPT ![p] = Fail(pr[p], <<d>>)]
  <2>. SUFFICES ASSUME NEW e, e = Fail(pr[p], <<d>>) PROVE Inv' OBVIOUS
  <2>0. pr' = [pr EXCEPT ![p] = e] BY <1>5
  <2>1. /\ e \in CallType /\ CallOK(e) /\ Len(e.puts) <= 2 /\ e.iput = "no"
        /\ e.pc \notin {"init", "unlink", "at"} /\ pr'[p] = e
        /\ LinkOf(p)' = i /\ (e.call = "link2" => e.held = i)
        /\ Good(p, e.ip) /\ Good(p, e.held) /\ Good(p, Put(p, 1)') /\ Good(p, Put(p, 2)')
        /\ \A j \in Inode : ref'[j] = ref[j] - Uses(p, j) + Uses(p, j)' /\ ref'[j] >= ref[j]
    BY <1>a, <2>0, LinkLeaves
  <2>2. Reading(p)
    <3>1. ref'[d] > 0 BY <1>a, <1>1
    <3>. QED BY <1>1, <1>5, <3>1 DEF Reading
  <2>3. WorkOK(p)'
    <3>. HIDE DEF d, i, n
    <3>1. e = pr'[p] /\ UNCHANGED disk BY <1>5, <2>1
    <3>. QED BY <1>t, <1>2, <2>1, <3>1, WorkQuiet DEF i
  <2>4. UNCHANGED <<disk, lock, used, lost>> BY <1>a, <1>5
  <2>5. e.pc \notin {"init", "unlink"} /\ e.iput = "no" /\ LinkOf(p)' = LinkOf(p) BY <1>2, <2>1
  <2>. HIDE DEF d, i, n
  <2>. QED BY <1>1, <1>2, <1>4, <2>0, <2>1, <2>2, <2>3, <2>4, <2>5, QuietStep
<1>6. CASE /\ disk[d].ents[n] = 0 /\ Store(d, r.ino) /\ used' = r.used
           /\ pr' = [pr EXCEPT ![p] = IF r.ok THEN Idle(<<d, i>>) ELSE Fail(pr[p], <<d>>)]
  <2>1. Wider(disk[d], used, r.ino, r.used) /\ LinkedIn(disk[d], r.ino, r.ok, n, i)
    <3>1. Fits(disk[d], used) BY <1>t, <1>1, DiskFits
    <3>2. n \in Entries BY <1>2, Consts
    <3>. HIDE DEF d, i, n
    <3>. QED BY <1>2, <3>1, <3>2, DirlinkOK
  <2>. SUFFICES ASSUME NEW z, z = r.ino, NEW ok, ok = r.ok,
                       NEW e, e = IF ok THEN Idle(<<d, i>>) ELSE Fail(pr[p], <<d>>)
                PROVE  Inv'
    OBVIOUS
  <2>2. /\ z \in InodeType /\ z.type = disk[d].type /\ z.size <= Len(z.data)
        /\ used' \subseteq Blocks /\ ok \in BOOLEAN /\ z.nlink = disk[d].nlink
        /\ z.ents = (IF ok THEN [disk[d].ents EXCEPT ![n] = i] ELSE disk[d].ents)
        /\ Wider(disk[d], used, z, used')
    BY <1>6, <2>1 DEF Wider, Fits, LinkedIn
  <2>3. pr' = [pr EXCEPT ![p] = e] BY <1>6
  <2>4. Store(d, z) BY <1>6
  <2>5. /\ e \in CallType /\ CallOK(e) /\ Len(e.puts) <= 2 /\ e.iput = "no"
        /\ e.pc \notin {"init", "unlink", "at"} /\ pr'[p] = e /\ Move(p)
        /\ LinkOf(p)' = (IF e = Fail(pr[p], <<d>>) THEN i ELSE 0)
        /\ e.call = "link2" => e.held = i
        /\ Good(p, e.ip) /\ Good(p, e.held) /\ Good(p, Put(p, 1)') /\ Good(p, Put(p, 2)')
        /\ \A j \in Inode : ref'[j] = ref[j] - Uses(p, j) + Uses(p, j)' /\ ref'[j] >= ref[j]
    <3>1. e = Fail(pr[p], <<d>>) \/ e = Idle(<<d, i>>) BY <2>2
    <3>2. UNCHANGED <<ref, cwd, file>> BY <1>a
    <3>. QED BY <1>a, <2>3, <3>1, <3>2, LinkLeaves
  <2>6. LinkOf(p)' = (IF ok THEN 0 ELSE i)
    <3>1. ok => e # Fail(pr[p], <<d>>)
      <4>1. ok => e.call = "none" BY IdleFields DEF IsIdle
      <4>2. Fail(pr[p], <<d>>).call = "link2"
        <5>1. pr[p] \in CallType BY <1>a, LinkFacts
        <5>. QED BY <1>2, <5>1 DEF Fail, CallType
      <4>. QED BY <4>1, <4>2
    <3>. QED BY <2>2, <2>5, <3>1
  <2>7. disk'[d] = z /\ \A j \in Inode : j # d => disk'[j] = disk[j]
    BY <1>t, <1>1, <2>4 DEF Store, TypeOK
  <2>8. DiskInv' /\ TreeInv' /\ LinkInv'
    <3>1. CASE ok
      <4>1. z.ents = [disk[d].ents EXCEPT ![n] = i] /\ LinkOf(p)' = 0 BY <2>2, <2>6, <3>1
      <4>2. NameIn(<<d, n>>) = 0 BY <1>6 DEF NameIn
      <4>3. disk[i].type \notin {"DIR", "FREE"} /\ UNCHANGED lost BY <1>a, <1>2
      <4>4. d \in Inode /\ n \in Names /\ Move(p) /\ z.type = disk[d].type
            /\ z.nlink = disk[d].nlink
        BY <1>1, <1>2, <2>2, <2>5
      <4>. HIDE DEF d, i, n
      <4>. QED BY <1>2, <2>7, <4>1, <4>2, <4>3, <4>4, LinkTree
    <3>2. CASE ~ok
      <4>1. z.ents = disk[d].ents /\ LinkOf(p)' = i BY <2>2, <2>6, <3>2
      <4>2. \A j \in Inode : /\ disk'[j].type = disk[j].type /\ disk'[j].ents = disk[j].ents
                             /\ disk[j].type = "FREE" => disk'[j] = disk[j]
                             /\ disk'[j].nlink = disk[j].nlink - One(LinkOf(p), j)
                                                 + One(LinkOf(p)', j)
        <5>. SUFFICES ASSUME NEW j \in Inode
                      PROVE  /\ disk'[j].type = disk[j].type /\ disk'[j].ents = disk[j].ents
                             /\ disk[j].type = "FREE" => disk'[j] = disk[j]
                             /\ disk'[j].nlink = disk[j].nlink - One(i, j) + One(i, j)
          BY <1>2, <4>1
        <5>1. One(i, j) \in Int /\ disk[j].nlink \in Nat BY <1>t DEF One, TypeOK, InodeType
        <5>2. CASE j = d
          <6>1. disk'[j].nlink = disk[j].nlink /\ disk'[j].type = disk[j].type
                /\ disk'[j].ents = disk[j].ents /\ disk[j].type # "FREE"
            BY <1>2, <2>2, <2>7, <4>1, <5>2
          <6>. QED BY <5>1, <6>1
        <5>3. CASE j # d
          <6>1. disk'[j] = disk[j] BY <2>7, <5>3
          <6>. QED BY <5>1, <6>1
        <5>. QED BY <5>2, <5>3
      <4>3. DiskInv /\ TreeInv /\ LinkInv /\ UNCHANGED lost BY <1>a DEF Inv
      <4>. QED BY <1>t, <2>5, <4>2, <4>3, SameNames
    <3>. QED BY <2>2, <3>1, <3>2
  <2>9. BlocksOK(disk', used')
    <3>1. disk \in [Inode -> InodeType] /\ disk' = [disk EXCEPT ![d] = z]
      BY <1>t, <2>4 DEF TypeOK, Store
    <3>. HIDE DEF d
    <3>. QED BY <1>t, <1>1, <2>2, <3>1, BlocksWider
  <2>10. WorkOK(p)'
    <3>1. e.call = "link2" => disk'[e.held].type # "DIR" BY <1>2, <2>5, <2>7
    <3>. QED BY <2>5, <3>1 DEF WorkOK
  <2>11. /\ lost' \in [Inode -> Nat] /\ UNCHANGED lock /\ e.iput = "no"
         /\ e.pc \notin {"init", "unlink"}
    BY <1>t, <1>a, <2>5 DEF TypeOK
  <2>. HIDE DEF d, i, n
  <2>. QED BY <1>1, <1>2, <1>4, <2>2, <2>3, <2>4, <2>5, <2>8, <2>9, <2>10, <2>11, StoreStep
<1>. QED BY <1>3, <1>5, <1>6

\* sys_link()'s nlink++ and nlink--, which no name goes with.
LEMMA CountTree ==
    ASSUME Inv, NEW p \in Proc, Move(p), UNCHANGED lost, NEW i \in Inode, Good(p, i),
           NEW z, z.type = disk[i].type, z.ents = disk[i].ents,
           z.nlink = disk[i].nlink - One(LinkOf(p), i) + One(LinkOf(p)', i),
           LinkOf(p) \in {0, i}, LinkOf(p)' \in {0, i},
           disk'[i] = z, \A j \in Inode : j # i => disk'[j] = disk[j]
    PROVE  DiskInv' /\ TreeInv' /\ LinkInv'
<1>t. TypeOK /\ DiskInv /\ TreeInv /\ LinkInv BY DEF Inv
<1>1. disk[i].type # "FREE" BY Consts DEF Good
<1>2. \A j \in Inode : /\ disk'[j].type = disk[j].type /\ disk'[j].ents = disk[j].ents
                       /\ disk[j].type = "FREE" => disk'[j] = disk[j]
                       /\ disk'[j].nlink = disk[j].nlink - One(LinkOf(p), j)
                                           + One(LinkOf(p)', j)
  <2>. SUFFICES ASSUME NEW j \in Inode
                PROVE  /\ disk'[j].type = disk[j].type /\ disk'[j].ents = disk[j].ents
                       /\ disk[j].type = "FREE" => disk'[j] = disk[j]
                       /\ disk'[j].nlink = disk[j].nlink - One(LinkOf(p), j)
                                           + One(LinkOf(p)', j)
    OBVIOUS
  <2>1. CASE j = i BY <1>1, <2>1
  <2>2. CASE j # i
    <3>1. disk'[j] = disk[j] BY <2>2
    <3>2. One(LinkOf(p), j) = 0 /\ One(LinkOf(p)', j) = 0 BY <2>2, Consts DEF One
    <3>3. disk[j].nlink \in Nat BY <1>t DEF TypeOK, InodeType
    <3>. QED BY <3>1, <3>2, <3>3
  <2>. QED BY <2>1, <2>2
<1>. QED BY <1>t, <1>2, SameNames

LEMMA LinkBadInv == ASSUME Inv, NEW p \in Proc, LinkBad(p) PROVE Inv'
<1>t. TypeOK /\ CallInv /\ DiskInv /\ LinkInv /\ LockInv /\ MemInv BY DEF Inv
<1>. SUFFICES ASSUME NEW i, i = pr[p].held PROVE Inv' OBVIOUS
<1>1. /\ pr[p].pc = "bad" /\ pr[p].puts = <<>> /\ lock[i] = 0
      /\ Store(i, [Ino(i) EXCEPT !.nlink = @ - 1]) /\ Return(p, <<i>>)
      /\ UNCHANGED <<ref, lock, used, cwd, file, lost>>
  BY DEF LinkBad, Files
<1>2. CallOK(pr[p]) /\ pr[p] \in CallType /\ i \in Inode \cup {0} BY <1>t, ProcTypes
<1>3. pr[p].call = "link2" /\ i # 0 /\ pr[p].ip = 0 BY <1>1, <1>2 DEF CallOK
<1>4. i \in Inode /\ Good(p, i) /\ ref[i] > 0
  <2>1. pr[p].pc # "init" BY <1>1
  <2>. QED BY <1>2, <1>3, <2>1, OwnGood, OwnCounted
<1>5. pr[p].iput = "no" /\ Put(p, 1) = 0 /\ Put(p, 2) = 0 BY <1>t, <1>1, Unfreed
<1>6. Ino(i) = disk[i] /\ disk[i] \in InodeType BY <1>t, <1>1, <1>4, <1>5, Current
<1>7. LinkOf(p) = i BY <1>3 DEF LinkOf
<1>8. disk[i].nlink \in Nat /\ disk[i].nlink > 0
  <2>1. disk[i].nlink # 0 BY <1>t, <1>4, <1>7, Unlinked
  <2>2. disk[i].nlink \in Nat BY <1>6 DEF InodeType
  <2>. QED BY <2>1, <2>2
<1>. SUFFICES ASSUME NEW z, FewerLinks(disk[i], z), Store(i, z), NEW e, e = Idle(<<i>>)
              PROVE  Inv'
  BY <1>1, <1>6, <1>8, FewerLinksOK
<1>9. pr' = [pr EXCEPT ![p] = e] /\ pr'[p] = e BY <1>t, <1>1 DEF Return, TypeOK
<1>10. e \in CallType /\ CallOK(e) /\ Len(e.puts) <= 2
  <2>1. /\ Idle(<<i>>) \in CallType /\ CallOK(Idle(<<i>>)) /\ Len(Idle(<<i>>).puts) <= 2
    BY ONLY <1>4, IdleOK
  <2>. QED BY <2>1
<1>11. /\ e.pc = "idle" /\ e.call = "none" /\ e.ip = 0 /\ e.held = 0
       /\ e.puts = <<i>> /\ e.iput = "no"
  BY IdleFields DEF IsIdle
<1>12. Put(p, 1)' = i /\ Put(p, 2)' = 0
  <2>1. pr'[p].puts = <<i>> BY <1>9, <1>11
  <2>. QED BY ONLY <2>1, PutValues
<1>13. LinkOf(p)' = 0 BY <1>9, <1>11 DEF LinkOf
<1>14. Move(p)
  <2>1. \A q \in Proc \ {p} : pr'[q] = pr[q] BY <1>t, <1>9 DEF TypeOK
  <2>. QED BY <1>1, <2>1 DEF Move
<1>15. /\ z \in InodeType /\ z.type = disk[i].type /\ z.nlink = disk[i].nlink - 1
       /\ z.ents = disk[i].ents /\ z.data = disk[i].data /\ z.ind = disk[i].ind
       /\ z.size <= Len(z.data)
  <2>1. disk[i].size <= Len(disk[i].data) BY <1>t, <1>4 DEF TypeOK
  <2>. QED BY <2>1 DEF FewerLinks
<1>16. disk'[i] = z /\ \A j \in Inode : j # i => disk'[j] = disk[j]
  BY <1>t, <1>4 DEF Store, TypeOK
<1>17. DiskInv' /\ TreeInv' /\ LinkInv'
  <2>1. z.nlink = disk[i].nlink - One(LinkOf(p), i) + One(LinkOf(p)', i)
    <3>1. One(i, i) = 1 /\ One(0, i) = 0 BY <1>3 DEF One
    <3>. QED BY <1>7, <1>8, <1>13, <1>15, <3>1
  <2>2. UNCHANGED lost BY <1>1
  <2>. QED BY <1>4, <1>7, <1>13, <1>14, <1>15, <1>16, <2>1, <2>2, CountTree
<1>18. BlocksOK(disk', used')
  <2>1. disk \in [Inode -> InodeType] /\ BlocksOK(disk, used) BY <1>t DEF TypeOK, Inv
  <2>2. disk' = [disk EXCEPT ![i] = z] /\ used' = used BY <1>1 DEF Store
  <2>. QED BY <1>4, <1>15, <2>1, <2>2, BlocksEdit
<1>19. \A j \in Inode : ref'[j] = ref[j] - Uses(p, j) + Uses(p, j)' /\ ref'[j] >= ref[j]
  <2>. SUFFICES ASSUME NEW j \in Inode
                PROVE  ref'[j] = ref[j] - Uses(p, j) + Uses(p, j)' /\ ref'[j] >= ref[j]
    OBVIOUS
  <2>1. Uses(p, j) = One(cwd[p], j) + One(file[p].ip, j) + One(0, j)
                     + One(i, j) + One(0, j) + One(0, j)
    BY <1>3, <1>5 DEF Uses
  <2>2. Uses(p, j)' = One(cwd[p], j) + One(file[p].ip, j) + One(0, j)
                      + One(0, j) + One(i, j) + One(0, j)
    BY <1>1, <1>9, <1>11, <1>12 DEF Uses
  <2>3. /\ One(cwd[p], j) \in Int /\ One(file[p].ip, j) \in Int
        /\ One(i, j) \in Int /\ One(0, j) = 0
    BY Consts DEF One
  <2>4. ref[j] \in Nat /\ ref'[j] = ref[j] BY <1>t, <1>1 DEF TypeOK
  <2>. QED BY <2>1, <2>2, <2>3, <2>4
<1>20. /\ cwd' \in [Proc -> Inode] /\ file' \in [Proc -> FileType] /\ ref' \in [Inode -> Nat]
       /\ lost' \in [Inode -> Nat] /\ used' \subseteq Blocks /\ UNCHANGED lock
       /\ \A q \in Proc \ {p} : cwd'[q] = cwd[q] /\ file'[q] = file[q]
       /\ Good(p, cwd'[p]) /\ Good(p, file'[p].ip)
  BY <1>t, <1>1, OwnGood DEF TypeOK
<1>21. Good(p, e.ip) /\ Good(p, e.held) /\ Good(p, Put(p, 1)') /\ Good(p, Put(p, 2)')
  <2>1. Good(p, 0) BY DEF Good
  <2>. QED BY <1>4, <1>11, <1>12, <2>1
<1>22. WorkOK(p)' BY <1>9, WorkIdle
<1>23. e.pc \notin {"init", "unlink"} /\ e.iput = "no" /\ pr[p].pc \notin {"init", "unlink"}
  BY <1>1, <1>11
<1>. QED BY <1>1, <1>4, <1>9, <1>10, <1>15, <1>17, <1>18, <1>19, <1>20, <1>21, <1>22, <1>23,
            StoreStep

LEMMA LinkKeeps ==
    ASSUME Inv, NEW p \in Proc, NEW start \in {ROOTINO, cwd[p]}, Link(p, start)
    PROVE  Inv'
<1>t. TypeOK /\ CallInv /\ WorkInv BY DEF Inv
<1>. SUFFICES ASSUME NEW i, i = pr[p].ip PROVE Inv' OBVIOUS
<1>a. Arrived(p, {"link"}) /\ UNCHANGED <<lock, used, cwd, file, lost>> BY DEF Link, Files
<1>1. /\ pr[p].puts = <<>> /\ pr[p].pc \in {"at", "walk"} /\ pr[p].call = "link"
      /\ i \in Inode /\ Good(p, i) /\ lock[i] = 0
      /\ Ino(i) = disk[i] /\ disk[i] \in InodeType /\ ref[i] > 0 /\ pr[p].iput = "no"
  BY <1>a, ArrivedOK
<1>2. CallOK(pr[p]) /\ pr[p] \in CallType BY <1>t, ProcTypes
<1>3. pr[p].held = 0 /\ pr[p].new \in Seq(Names) BY <1>1, <1>2 DEF CallOK
<1>4. Put(p, 1) = 0 /\ Put(p, 2) = 0 BY <1>t, <1>1, Unfreed
<1>5. start \in Inode /\ Good(p, start)
  <2>1. cwd[p] \in Inode /\ Good(p, cwd[p]) BY <1>t, ProcTypes, OwnGood
  <2>2. ROOTINO \in Inode /\ Good(p, ROOTINO)
    <3>1. disk[ROOTINO].nlink > 0 /\ disk[ROOTINO].type = "DIR" BY RootLinked DEF Inv
    <3>2. Plain(p, ROOTINO) BY <3>1, Consts, LinkedPlain DEF Inv
    <3>. QED BY <3>1, <3>2, Consts DEF Good
  <2>. QED BY <2>1, <2>2
<1>6. CASE Load(i) /\ Return(p, <<i>>) /\ UNCHANGED <<disk, ref>>
  <2>1. pr[p].pc \notin {"init", "unlink"} /\ pr[p].call # "link2"
        /\ UNCHANGED <<disk, lock, used, lost, ref, cwd, file>>
    BY <1>a, <1>1, <1>6
  <2>. QED BY <1>1, <1>6, <2>1, GiveUp
<1>7. CASE /\ disk[i].type # "DIR" /\ Store(i, [disk[i] EXCEPT !.nlink = @ + 1])
           /\ ref' = Iget(ref, start)
           /\ pr' = [pr EXCEPT ![p].pc = "walk", ![p].call = "link2", ![p].ip = start,
                               ![p].rest = pr[p].new, ![p].new = <<>>, ![p].held = i]
  <2>. DEFINE ee == [pr[p] EXCEPT !.pc = "walk", !.call = "link2", !.ip = start,
                                  !.rest = pr[p].new, !.new = <<>>, !.held = i]
              zz == [disk[i] EXCEPT !.nlink = @ + 1]
  <2>1. pr' = [pr EXCEPT ![p] = ee] BY <1>t, <1>7 DEF TypeOK, CallType
  <2>2. /\ ee.pc = "walk" /\ ee.call = "link2" /\ ee.ip = start /\ ee.rest = pr[p].new
        /\ ee.new = <<>> /\ ee.held = i /\ ee.puts = <<>> /\ ee.iput = "no"
    BY <1>1, <1>2 DEF CallType
  <2>3. ee \in CallType
    <3>1. <<>> \in Seq(Entries) OBVIOUS
    <3>2. pr[p].new \in Seq(Entries) /\ start \in 0 .. NINODES /\ i \in 0 .. NINODES
      BY <1>1, <1>2, <1>5, Consts DEF CallType
    <3>. QED BY <1>2, <3>1, <3>2 DEF CallType
  <2>4. /\ zz \in InodeType /\ zz.type = disk[i].type /\ zz.nlink = disk[i].nlink + 1
        /\ zz.ents = disk[i].ents /\ zz.data = disk[i].data /\ zz.ind = disk[i].ind
        /\ zz.size = disk[i].size
    BY <1>1 DEF InodeType
  <2>5. Store(i, zz) BY <1>7
  <2>. HIDE DEF ee, zz
  <2>. SUFFICES ASSUME NEW e, e = ee, NEW z, z = zz PROVE Inv' OBVIOUS
  <2>6. pr' = [pr EXCEPT ![p] = e] /\ pr'[p] = e /\ Store(i, z) BY <1>t, <2>1, <2>5 DEF TypeOK
  <2>7. CallOK(e)
    <3>1. <<>> \in Seq(Names) /\ Len(<<>>) = 0 OBVIOUS
    <3>2. start # 0 /\ i # 0 BY <1>1, <1>5, Consts
    <3>. QED BY <1>3, <2>2, <3>1, <3>2 DEF CallOK
  <2>8. LinkOf(p)' = i /\ LinkOf(p) = 0 BY <1>1, <2>2, <2>6 DEF LinkOf
  <2>9. Move(p)
    <3>1. \A q \in Proc \ {p} : pr'[q] = pr[q] BY <1>t, <2>6 DEF TypeOK
    <3>. QED BY <1>a, <3>1 DEF Move
  <2>10. disk'[i] = z /\ \A j \in Inode : j # i => disk'[j] = disk[j]
    BY <1>t, <1>1, <2>6 DEF Store, TypeOK
  <2>11. DiskInv' /\ TreeInv' /\ LinkInv'
    <3>1. z.nlink = disk[i].nlink - One(LinkOf(p), i) + One(LinkOf(p)', i)
      <4>1. One(i, i) = 1 /\ One(0, i) = 0 BY <1>1, Consts DEF One
      <4>2. disk[i].nlink \in Nat BY <1>1 DEF InodeType
      <4>. QED BY <2>4, <2>8, <4>1, <4>2
    <3>2. UNCHANGED lost BY <1>a
    <3>3. z.type = disk[i].type /\ z.ents = disk[i].ents BY <2>4
    <3>. QED BY <1>1, <2>8, <2>9, <2>10, <3>1, <3>2, <3>3, CountTree
  <2>12. BlocksOK(disk', used')
    <3>1. disk \in [Inode -> InodeType] /\ BlocksOK(disk, used) BY <1>t DEF TypeOK, Inv
    <3>2. disk' = [disk EXCEPT ![i] = z] /\ used' = used BY <1>a, <2>6 DEF Store
    <3>3. z.data = disk[i].data /\ z.ind = disk[i].ind BY <2>4
    <3>. QED BY <1>1, <3>1, <3>2, <3>3, BlocksEdit
  <2>13. Put(p, 1)' = 0 /\ Put(p, 2)' = 0 BY <2>2, <2>6, PutValues
  <2>14. \A j \in Inode : ref'[j] = ref[j] - Uses(p, j) + Uses(p, j)' /\ ref'[j] >= ref[j]
    <3>. SUFFICES ASSUME NEW j \in Inode
                  PROVE  ref'[j] = ref[j] - Uses(p, j) + Uses(p, j)' /\ ref'[j] >= ref[j]
      OBVIOUS
    <3>1. Uses(p, j) = One(cwd[p], j) + One(file[p].ip, j) + One(i, j)
                       + One(0, j) + One(0, j) + One(0, j)
      BY <1>3, <1>4 DEF Uses
    <3>2. Uses(p, j)' = One(cwd[p], j) + One(file[p].ip, j) + One(start, j)
                        + One(i, j) + One(0, j) + One(0, j)
      BY <1>a, <2>2, <2>6, <2>13 DEF Uses
    <3>3. /\ One(cwd[p], j) \in Int /\ One(file[p].ip, j) \in Int /\ One(start, j) \in Int
          /\ One(start, j) >= 0 /\ One(i, j) \in Int /\ One(0, j) = 0
      BY Consts DEF One
    <3>4. ref[j] \in Nat /\ ref'[j] = ref[j] + One(start, j)
      BY <1>t, <1>5, <1>7 DEF TypeOK, Iget, One
    <3>. QED BY <3>1, <3>2, <3>3, <3>4
  <2>15. /\ cwd' \in [Proc -> Inode] /\ file' \in [Proc -> FileType] /\ ref' \in [Inode -> Nat]
         /\ lost' \in [Inode -> Nat] /\ used' \subseteq Blocks /\ UNCHANGED lock
         /\ \A q \in Proc \ {p} : cwd'[q] = cwd[q] /\ file'[q] = file[q]
         /\ Good(p, cwd'[p]) /\ Good(p, file'[p].ip)
    BY <1>t, <1>a, <1>5, <1>7, OwnGood DEF TypeOK, Iget
  <2>16. Good(p, e.ip) /\ Good(p, e.held) /\ Good(p, Put(p, 1)') /\ Good(p, Put(p, 2)')
    <3>1. Good(p, 0) BY DEF Good
    <3>. QED BY <1>1, <1>5, <2>2, <2>13, <3>1
  <2>17. WorkOK(p)'
    <3>1. disk'[i].type # "DIR" BY <1>7, <2>4, <2>10
    <3>. QED BY <2>2, <2>6, <3>1 DEF WorkOK
  <2>18. /\ e \in CallType /\ e.pc \notin {"init", "unlink"} /\ e.iput = "no"
         /\ pr[p].pc \notin {"init", "unlink"} /\ Len(e.puts) <= 2
         /\ z \in InodeType /\ z.type = disk[i].type
    BY <1>1, <2>2, <2>3, <2>4
  <2>19. z.size <= Len(z.data)
    <3>1. disk[i].size <= Len(disk[i].data) BY <1>t, <1>1 DEF TypeOK
    <3>. QED BY <2>4, <3>1
  <2>. QED BY <1>1, <2>6, <2>7, <2>11, <2>12, <2>14, <2>15, <2>16, <2>17, <2>18, <2>19,
              StoreStep
<1>. QED BY <1>1, <1>6, <1>7 DEF Link

----------------------------------------------------------------------------
(* iput()                                                                  *)

\* What a call still has to put.
LEMMA PutHead ==
    ASSUME TypeOK, CallInv, NEW p \in Proc, pr[p].puts # <<>>
    PROVE  /\ Head(pr[p].puts) = Put(p, 1) /\ Put(p, 1) \in Inode
           /\ Tail(pr[p].puts) \in Seq(Inode) /\ Len(Tail(pr[p].puts)) = Len(pr[p].puts) - 1
           /\ Len(pr[p].puts) \in 1 .. 2
           /\ pr'[p].puts = Tail(pr[p].puts) => Put(p, 1)' = Put(p, 2) /\ Put(p, 2)' = 0
           /\ pr[p].pc \notin {"at", "init", "unlink"}
<1>1. pr[p].puts \in Seq(Inode) /\ Len(pr[p].puts) \in 0 .. 2 /\ CallOK(pr[p])
      /\ (Put(p, 1) = 0 <=> Len(pr[p].puts) = 0) /\ Put(p, 1) \in Inode \cup {0}
  BY ProcTypes
<1>. SUFFICES ASSUME NEW s, s = pr[p].puts
              PROVE  /\ Head(s) = Put(p, 1) /\ Put(p, 1) \in Inode
                     /\ Tail(s) \in Seq(Inode) /\ Len(Tail(s)) = Len(s) - 1
                     /\ Len(s) \in 1 .. 2
                     /\ pr'[p].puts = Tail(s) => Put(p, 1)' = Put(p, 2) /\ Put(p, 2)' = 0
                     /\ pr[p].pc \notin {"at", "init", "unlink"}
  OBVIOUS
<1>2. s \in Seq(Inode) /\ s # <<>> /\ Len(s) \in 0 .. 2 BY <1>1
<1>3. Len(s) # 0 BY <1>2, EmptySeq
<1>4. Len(s) \in 1 .. 2 BY <1>2, <1>3
<1>5. /\ Head(s) = s[1] /\ Tail(s) \in Seq(Inode) /\ Len(Tail(s)) = Len(s) - 1
      /\ \A k \in 1 .. Len(s) - 1 : Tail(s)[k] = s[k + 1]
  BY <1>2, HeadTailProperties
<1>6. Head(s) = Put(p, 1) BY <1>4, <1>5 DEF Put
<1>7. Put(p, 1) \in Inode BY <1>1, <1>3
<1>8. ASSUME pr'[p].puts = Tail(s) PROVE Put(p, 1)' = Put(p, 2) /\ Put(p, 2)' = 0
  <2>1. CASE Len(s) = 1
    <3>1. Len(Tail(s)) = 0 BY <1>5, <2>1
    <3>. QED BY <1>8, <2>1, <3>1 DEF Put
  <2>2. CASE Len(s) = 2
    <3>1. Len(Tail(s)) = 1 /\ Tail(s)[1] = s[2] BY <1>5, <2>2
    <3>. QED BY <1>8, <2>2, <3>1 DEF Put
  <2>. QED BY <1>4, <2>1, <2>2
<1>9. pr[p].pc \notin {"at", "init", "unlink"} BY <1>1, <1>3 DEF CallOK
<1>. QED BY <1>4, <1>5, <1>6, <1>7, <1>8, <1>9

\* The call without the first reference to put.
PutsOne(e, r) ==
    \/ r.iput = "no" /\ e = [r EXCEPT !.puts = Tail(@)]
    \/ e = [r EXCEPT !.puts = Tail(@), !.iput = "no"]

\* A call goes on, when it has put a reference, where it was.
GoesOn(e, r, s) ==
    /\ e \in CallType /\ CallOK(e) /\ Len(e.puts) <= 2
    /\ e.pc = r.pc /\ e.call = r.call /\ e.ip = r.ip /\ e.rest = r.rest /\ e.held = r.held
    /\ e.puts = s /\ e.iput = "no"

LEMMA GoesOnOK ==
    ASSUME NEW r \in CallType, CallOK(r), Len(r.puts) \in 1 .. 2,
           NEW s \in Seq(Inode), s = Tail(r.puts), Len(s) = Len(r.puts) - 1,
           NEW e, PutsOne(e, r)
    PROVE  GoesOn(e, r, s)
<1>1. /\ e.pc = r.pc /\ e.call = r.call /\ e.ip = r.ip /\ e.rest = r.rest /\ e.held = r.held
      /\ e.new = r.new /\ e.puts = s /\ e.iput = "no"
  BY DEF CallType, PutsOne
<1>2. e \in CallType
  <2>1. e = [pc |-> r.pc, call |-> r.call, ip |-> r.ip, rest |-> r.rest, new |-> r.new,
             held |-> r.held, puts |-> s, iput |-> "no"]
    BY DEF CallType, PutsOne
  <2>. QED BY <2>1 DEF CallType
<1>3. \A n, m : n \in 1 .. 2 /\ m = n - 1 => m <= 2 /\ m <= 1 /\ n # 0 OBVIOUS
<1>4. Len(s) <= 2 /\ Len(s) <= 1 /\ Len(r.puts) # 0 BY <1>3
<1>5. Len(e.puts) <= 2 /\ Len(e.puts) <= 1 BY <1>1, <1>4
<1>6. r.pc \notin {"at", "init", "unlink"} BY <1>4 DEF CallOK
<1>7. CallOK(e) BY <1>1, <1>5, <1>6 DEF CallOK
<1>. QED BY <1>1, <1>2, <1>5, <1>7 DEF GoesOn

\* What it refers to then.
LEMMA PutTail ==
    ASSUME TypeOK, CallInv, NEW p \in Proc, pr[p].puts # <<>>, NEW e,
           PutsOne(e, pr[p]), pr' = [pr EXCEPT ![p] = e], UNCHANGED <<cwd, file>>
    PROVE  /\ pr'[p] = e /\ Move(p) /\ GoesOn(e, pr[p], Tail(pr[p].puts))
           /\ Put(p, 1)' = Put(p, 2) /\ Put(p, 2)' = 0
           /\ pr' \in [Proc -> CallType] /\ \A q \in Proc : Len(pr'[q].puts) <= 2
           /\ \A j : Uses(p, j) \in Int /\ Uses(p, j)' = Uses(p, j) - One(Put(p, 1), j) + One(0, j)
<1>1. pr'[p] = e /\ \A q \in Proc \ {p} : pr'[q] = pr[q] BY DEF TypeOK
<1>2. Move(p) BY <1>1 DEF Move
<1>3. pr[p] \in CallType /\ CallOK(pr[p]) BY ProcTypes
<1>4. GoesOn(e, pr[p], Tail(pr[p].puts)) BY <1>3, PutHead, GoesOnOK
<1>5. pr'[p].puts = Tail(pr[p].puts) /\ pr'[p].ip = pr[p].ip /\ pr'[p].held = pr[p].held
  BY <1>1, <1>4 DEF GoesOn
<1>6. Put(p, 1)' = Put(p, 2) /\ Put(p, 2)' = 0 BY <1>5, PutHead
<1>7. pr' \in [Proc -> CallType] /\ \A q \in Proc : Len(pr'[q].puts) <= 2
  <2>1. e \in CallType /\ Len(e.puts) <= 2 BY <1>4 DEF GoesOn
  <2>. QED BY <1>1, <2>1 DEF TypeOK
<1>8. ASSUME NEW j
      PROVE  Uses(p, j) \in Int /\ Uses(p, j)' = Uses(p, j) - One(Put(p, 1), j) + One(0, j)
  <2>1. Uses(p, j) = One(cwd[p], j) + One(file[p].ip, j) + One(pr[p].ip, j)
                     + One(pr[p].held, j) + One(Put(p, 1), j) + One(Put(p, 2), j)
    BY DEF Uses
  <2>2. Uses(p, j)' = One(cwd[p], j) + One(file[p].ip, j) + One(pr[p].ip, j)
                      + One(pr[p].held, j) + One(Put(p, 2), j) + One(0, j)
    BY <1>5, <1>6 DEF Uses
  <2>3. /\ One(cwd[p], j) \in Int /\ One(file[p].ip, j) \in Int /\ One(pr[p].ip, j) \in Int
        /\ One(pr[p].held, j) \in Int /\ One(Put(p, 1), j) \in Int
        /\ One(Put(p, 2), j) \in Int /\ One(0, j) \in Int
    BY DEF One
  <2>. QED BY <2>1, <2>2, <2>3
<1>. QED BY <1>1, <1>2, <1>4, <1>6, <1>7, <1>8

\* The last of several references to put, or one of many to the inode.
LEMMA IputDropKeeps == ASSUME Inv, NEW p \in Proc, IputDrop(p) PROVE Inv'
<1>t. TypeOK /\ CallInv /\ RefInv /\ SoleInv /\ AllocInv /\ SpecialInv /\ LockInv
      /\ MemInv /\ OrphanInv /\ WorkInv
  BY DEF Inv
<1>0. pr[p].puts # <<>> /\ pr[p].iput = "no" BY DEF IputDrop, Putting
<1>. SUFFICES ASSUME NEW i, i = Put(p, 1), NEW e, PutsOne(e, pr[p]), pr' = [pr EXCEPT ![p] = e]
              PROVE  Inv'
  <2>1. pr[p] \in CallType BY <1>t, ProcTypes
  <2>2. pr[p].iput = "no" BY <1>0, <2>1 DEF CallType
  <2>3. pr' = [pr EXCEPT ![p] = [pr[p] EXCEPT !.puts = Tail(@)]]
    BY <1>t DEF IputDrop, TypeOK, CallType
  <2>. QED BY <2>2, <2>3 DEF PutsOne
<1>1. Head(pr[p].puts) = i /\ i \in Inode /\ pr[p].pc \notin {"at", "init", "unlink"}
  BY <1>t, <1>0, PutHead
<1>2. /\ ~Last(i) /\ ref' = [ref EXCEPT ![i] = @ - 1]
      /\ lock' = IF lock[i] = p THEN [lock EXCEPT ![i] = 0] ELSE lock
      /\ mem' = IF ref[i] = 1 THEN [mem EXCEPT ![i] = NoCopy] ELSE mem
      /\ UNCHANGED <<disk, used, cwd, file, lost>>
  BY <1>1 DEF IputDrop, Files
<1>4. /\ pr'[p] = e /\ Move(p) /\ GoesOn(e, pr[p], Tail(pr[p].puts))
      /\ Put(p, 1)' = Put(p, 2) /\ Put(p, 2)' = 0
      /\ pr' \in [Proc -> CallType] /\ \A q \in Proc : Len(pr'[q].puts) <= 2
      /\ \A j : Uses(p, j) \in Int /\ Uses(p, j)' = Uses(p, j) - One(Put(p, 1), j) + One(0, j)
  BY <1>t, <1>0, <1>2, PutTail
<1>5. /\ CallOK(e) /\ e.pc = pr[p].pc /\ e.call = pr[p].call /\ e.ip = pr[p].ip
      /\ e.held = pr[p].held /\ e.iput = "no"
  BY <1>4 DEF GoesOn
<1>6. ref[i] \in Nat /\ ref[i] > 0 /\ i # 0 BY <1>t, <1>1, OwnCounted, Consts DEF TypeOK
<1>7. /\ ref'[i] = ref[i] - 1 /\ \A j \in Inode : j # i => ref'[j] = ref[j]
      /\ ref[i] = 1 => mem'[i] = NoCopy
      /\ ref[i] # 1 => mem'[i] = mem[i]
      /\ \A j \in Inode : j # i => mem'[j] = mem[j]
      /\ lock'[i] = (IF lock[i] = p THEN 0 ELSE lock[i])
      /\ \A j \in Inode : j # i => lock'[j] = lock[j]
  BY <1>t, <1>1, <1>2 DEF TypeOK
<1>8. TypeOK'
  <2>1. ref' \in [Inode -> Nat] BY <1>t, <1>1, <1>2, <1>6 DEF TypeOK
  <2>2. mem' \in [Inode -> InodeType \cup {NoCopy}] /\ lock' \in [Inode -> Proc \cup {0}]
    BY <1>t, <1>1, <1>2 DEF TypeOK
  <2>. QED BY <1>t, <1>2, <1>4, <2>1, <2>2 DEF TypeOK
<1>9. CallInv'
  <2>1. \A q \in Proc \ {p} : pr'[q] = pr[q] BY <1>4 DEF Move
  <2>. QED BY <1>t, <1>4, <1>5, <2>1 DEF CallInv
<1>10. RefInv'
  <2>1. ASSUME NEW j \in Inode PROVE ref'[j] = ref[j] - Uses(p, j) + Uses(p, j)'
    <3>1. Uses(p, j) \in Int /\ Uses(p, j)' = Uses(p, j) - One(i, j) + One(0, j) BY <1>4
    <3>2. ref[j] \in Nat /\ ref'[j] = ref[j] - One(i, j) BY <1>t, <1>7 DEF TypeOK, One
    <3>3. One(i, j) \in Int /\ One(0, j) = 0 BY Consts DEF One
    <3>. QED BY <3>1, <3>2, <3>3
  <2>. QED BY <1>t, <1>4, <2>1, RefStep
<1>11. /\ Good(p, cwd'[p]) /\ Good(p, file'[p].ip) /\ Good(p, pr'[p].ip) /\ Good(p, pr'[p].held)
       /\ Good(p, Put(p, 1)') /\ Good(p, Put(p, 2)') /\ Good(p, i)
  <2>1. Good(p, 0) BY DEF Good
  <2>. QED BY <1>0, <1>1, <1>2, <1>4, <1>5, <2>1, OwnGood
<1>12. \A x \in Slot : x[1] = p => Kind(x)' = "plain" /\ Good(p, Ref(x)')
  <2>. SUFFICES ASSUME NEW x \in Slot, x[1] = p PROVE Kind(x)' = "plain" /\ Good(p, Ref(x)')
    OBVIOUS
  <2>1. pr'[p].pc # "init" /\ pr'[p].iput = "no" BY <1>1, <1>4, <1>5
  <2>. QED BY <1>11, <2>1, OwnPlainNext
<1>13. \A x \in Slot : Ref(x) \in Inode \cup {0} BY <1>t, RefTypes
<1>14. SoleInv'
  <2>1. \A x \in Slot : x[1] = p => Kind(x)' = "plain" /\ (Ref(x)' = 0 \/ Plain(p, Ref(x)'))
    BY <1>12 DEF Good
  <2>. QED BY <1>t, <1>4, <2>1, SoleStep
<1>15. SpecialInv'
  <2>1. \A j \in Inode : disk'[j].nlink = disk[j].nlink BY <1>2
  <2>. QED BY <1>t, <1>4, <1>12, <1>13, <2>1, SpecialStep
<1>16. AllocInv'
  <2>1. \A x \in Slot : x[1] = p /\ Ref(x)' # 0 /\ Kind(x)' \in {"new", "plain"}
                            => disk'[Ref(x)'].type # "FREE"
    BY <1>2, <1>12 DEF Good
  <2>2. \A j \in Inode : disk[j].type # "FREE" => disk'[j].type # "FREE" BY <1>2
  <2>. QED BY <1>t, <1>4, <1>13, <2>1, <2>2, AllocStep
<1>17. LockInv'
  <2>1. \A j \in Inode : /\ lock'[j] = p => Locks(p, j)'
                         /\ lock'[j] \notin {0, p} => lock'[j] = lock[j]
                         /\ lock[j] \notin {0, p} => lock'[j] = lock[j]
    <3>. SUFFICES ASSUME NEW j \in Inode
                  PROVE  /\ lock'[j] = p => Locks(p, j)'
                         /\ lock'[j] \notin {0, p} => lock'[j] = lock[j]
                         /\ lock[j] \notin {0, p} => lock'[j] = lock[j]
      OBVIOUS
    <3>1. CASE j = i BY <1>7, <3>1, Consts
    <3>2. CASE j # i
      <4>1. lock'[j] = lock[j] BY <1>7, <3>2
      <4>2. lock[j] = p => Locks(p, j) BY <1>t DEF LockInv
      <4>3. Locks(p, j) => Put(p, 2) = j BY <1>1, <3>2 DEF Locks
      <4>4. Put(p, 2) = j => Locks(p, j)' BY <1>4 DEF Locks
      <4>. QED BY <4>1, <4>2, <4>3, <4>4
    <3>. QED BY <3>1, <3>2
  <2>2. pr'[p].pc \notin {"init", "unlink"} /\ pr'[p].iput = "no" BY <1>1, <1>4, <1>5
  <2>. QED BY <1>t, <1>4, <2>1, <2>2, LockStep
<1>18. \A j \in Inode : (Freeing(j)' <=> Freeing(j)) /\ (Creating(j)' <=> Creating(j))
  <2>1. \A q \in Proc : q # p => pr'[q] = pr[q] /\ Put(q, 1)' = Put(q, 1)
    BY <1>4 DEF Move, Put
  <2>2. pr'[p].iput = "no" /\ pr'[p].pc # "init" /\ pr[p].pc # "init" BY <1>1, <1>4, <1>5
  <2>. QED BY <1>0, <2>1, <2>2 DEF Freeing, Creating
<1>19. MemInv'
  <2>. SUFFICES ASSUME NEW j \in Inode
                PROVE  /\ mem'[j] # NoCopy => ref'[j] > 0
                       /\ mem'[j] \in {NoCopy, disk'[j]} \/ Freeing(j)'
                       /\ disk'[j].type = "FREE" => mem'[j] = NoCopy \/ Freeing(j)'
    BY DEF MemInv
  <2>1. /\ mem[j] # NoCopy => ref[j] > 0
        /\ mem[j] \in {NoCopy, disk[j]} \/ Freeing(j)
        /\ disk[j].type = "FREE" => mem[j] = NoCopy \/ Freeing(j)
    BY <1>t DEF MemInv
  <2>2. disk'[j] = disk[j] BY <1>2
  <2>3. CASE j = i /\ ref[i] = 1 BY <1>7, <2>3
  <2>4. CASE j = i /\ ref[i] # 1
    <3>1. ref[i] - 1 > 0 BY <1>6, <2>4
    <3>2. ref'[j] > 0 /\ mem'[j] = mem[j] BY <1>7, <2>4, <3>1
    <3>. QED BY <1>18, <2>1, <2>2, <3>2
  <2>5. CASE j # i
    <3>1. ref'[j] = ref[j] /\ mem'[j] = mem[j] BY <1>7, <2>5
    <3>. QED BY <1>18, <2>1, <2>2, <3>1
  <2>. QED BY <2>3, <2>4, <2>5
<1>20. OrphanInv'
  <2>. SUFFICES ASSUME NEW j \in Inode, disk[j].type # "FREE", disk[j].nlink = 0, ref'[j] > 0
                PROVE  (mem'[j] # NoCopy /\ ~Freeing(j)') \/ Creating(j)'
    BY <1>2 DEF OrphanInv
  <2>1. ref[j] > 0 /\ mem'[j] = mem[j]
    <3>1. CASE j = i
      <4>1. ref[i] # 1 BY <1>6, <1>7, <3>1
      <4>. QED BY <1>6, <1>7, <3>1, <4>1
    <3>2. CASE j # i
      <4>1. ref'[j] = ref[j] /\ mem'[j] = mem[j] BY <1>7, <3>2
      <4>. QED BY <4>1
    <3>. QED BY <3>1, <3>2
  <2>2. (mem[j] # NoCopy /\ ~Freeing(j)) \/ Creating(j) BY <1>t, <2>1 DEF OrphanInv
  <2>. QED BY <1>18, <2>1, <2>2
<1>21. WorkInv'
  <2>1. WorkOK(p)'
    <3>1. WorkOK(p) BY <1>t DEF WorkInv
    <3>. QED BY <1>1, <1>2, <1>4, <1>5, <3>1 DEF WorkOK
  <2>2. \A j \in Inode : disk'[j] = disk[j] BY <1>2
  <2>3. \A j \in Inode : disk'[j].type = disk[j].type /\ disk'[j].ents = disk[j].ents BY <1>2
  <2>. QED BY <1>t, <1>4, <2>1, <2>2, <2>3, WorkStep
<1>22. DiskInv' /\ TreeInv' /\ LinkInv' /\ BlocksOK(disk', used')
  <2>1. LinkOf(p)' = LinkOf(p) BY <1>4, <1>5 DEF LinkOf
  <2>. QED BY <1>2, <1>4, <2>1, Reads
<1>. QED BY <1>8, <1>9, <1>10, <1>14, <1>15, <1>16, <1>17, <1>19, <1>20, <1>21, <1>22 DEF Inv

\* Inodes without links go, with the names in them if they were directories.
LEMMA NamesLost ==
    ASSUME Inv, NEW S \in SUBSET Inode, NEW j \in Inode
    PROVE  Losing(S)[j] = lost[j] + Tally(S \X Names, NameTo, j)
<1>1. \A x \in S \X Names : x \in Name /\ NameTo[x] = disk[x[1]].ents[x[2]]
  <2>. SUFFICES ASSUME NEW x \in S \X Names
                PROVE  x \in Name /\ NameTo[x] = disk[x[1]].ents[x[2]]
    OBVIOUS
  <2>1. x \in Name /\ x[1] \in Inode /\ x[2] \in Entries BY Consts DEF Name
  <2>2. NameTo[x] = NameIn(x) BY <2>1 DEF NameTo
  <2>3. CASE disk[x[1]].type = "DIR" BY <2>1, <2>2, <2>3 DEF NameIn
  <2>4. CASE disk[x[1]].type # "DIR"
    <3>1. disk[x[1]].ents = NoEnts BY <2>1, <2>4 DEF Inv, DiskInv
    <3>2. NoEnts[x[2]] = 0 BY <2>1 DEF NoEnts
    <3>. QED BY <2>1, <2>2, <2>4, <3>1, <3>2 DEF NameIn
  <2>. QED BY <2>3, <2>4
<1>2. {x \in S \X Names : disk[x[1]].ents[x[2]] = j} = {x \in S \X Names : NameTo[x] = j}
  BY <1>1
<1>3. Losing(S)[j] = lost[j] + Cardinality({x \in S \X Names : disk[x[1]].ents[x[2]] = j})
  BY DEF Losing
<1>. QED BY <1>2, <1>3 DEF Tally

LEMMA RemoveTree ==
    ASSUME Inv, NEW S \in SUBSET Inode, \A i \in S : disk[i].nlink = 0,
           disk' = [i \in Inode |-> IF i \in S THEN NoInode ELSE disk[i]],
           lost' = Losing(S), \A p \in Proc : LinkOf(p)' = LinkOf(p)
    PROVE  DiskInv' /\ TreeInv' /\ LinkInv' /\ lost' \in [Inode -> Nat]
<1>t. TypeOK /\ DiskInv /\ TreeInv /\ LinkInv BY DEF Inv
<1>1. /\ \A i \in S : disk'[i] = NoInode
      /\ \A i \in Inode : i \notin S => disk'[i] = disk[i]
  OBVIOUS
<1>2. NoInode.type = "FREE" /\ NoInode.nlink = 0 /\ NoInode.ents = NoEnts BY DEF NoInode
<1>3. \A i \in S : /\ \A x \in Name : NameIn(x) # i
                   /\ \A d \in Inode : ParentOf[d] # i
                   /\ ~InTree(i) /\ i # ROOTINO
  BY <1>t, Unlinked
<1>4. \A x \in Name : /\ x[1] \in Inode
                      /\ x[1] \in S => NameIn(x)' = 0
                      /\ x[1] \notin S => NameIn(x)' = NameIn(x)
  BY <1>1, <1>2 DEF Name, NameIn
<1>5. DiskInv'
  <2>1. \A i \in Inode : disk'[i].type = "FREE" => disk'[i] = NoInode
    BY <1>t, <1>1 DEF DiskInv
  <2>2. \A i \in Inode : disk'[i].type # "DIR" => disk'[i].ents = NoEnts
    BY <1>t, <1>1, <1>2 DEF DiskInv
  <2>3. disk'[ROOTINO] = disk[ROOTINO] BY <1>1, <1>3, Consts
  <2>. QED BY <1>t, <2>1, <2>2, <2>3 DEF DiskInv
<1>6. ASSUME NEW d \in Inode PROVE InTree(d)' <=> InTree(d)
  <2>1. CASE d \in S
    <3>1. disk'[d].type # "DIR" BY <1>1, <1>2, <2>1
    <3>. QED BY <1>3, <2>1, <3>1 DEF InTree
  <2>2. CASE d \notin S
    <3>1. disk'[d] = disk[d] BY <1>1, <2>2
    <3>2. ASSUME InTree(d)' PROVE InTree(d)
      <4>1. ASSUME NEW x \in Name, NameIn(x)' = d PROVE NameIn(x) = d
        BY <1>4, <4>1, Consts
      <4>. QED BY <3>1, <3>2, <4>1 DEF InTree
    <3>3. ASSUME InTree(d) PROVE InTree(d)'
      <4>1. ASSUME NEW x \in Name, NameIn(x) = d, d # ROOTINO PROVE NameIn(x)' = d
        <5>1. d # 0 /\ disk[d].type = "DIR" BY <3>3, Consts DEF InTree
        <5>2. x[1] = disk[d].ents[Dots] BY <1>t, <4>1, <5>1 DEF TreeInv
        <5>3. ParentOf[d] = x[1] BY <3>3, <5>2 DEF ParentOf
        <5>4. x[1] \notin S BY <1>3, <5>3
        <5>. QED BY <1>4, <4>1, <5>4
      <4>. QED BY <3>1, <3>3, <4>1 DEF InTree
    <3>. QED BY <3>2, <3>3
  <2>. QED BY <2>1, <2>2
<1>7. \A d \in Inode : (ParentOf')[d] = ParentOf[d]
  <2>. SUFFICES ASSUME NEW d \in Inode PROVE (ParentOf')[d] = ParentOf[d] OBVIOUS
  <2>1. ParentOf[d] = (IF InTree(d) THEN disk[d].ents[Dots] ELSE 0) BY DEF ParentOf
  <2>2. (ParentOf')[d] = (IF InTree(d)' THEN disk'[d].ents[Dots] ELSE 0) BY DEF ParentOf
  <2>3. InTree(d) => disk'[d] = disk[d] BY <1>1, <1>3
  <2>. QED BY <1>6, <2>1, <2>2, <2>3
<1>8. TreeInv'
  <2>. SUFFICES ASSUME NEW x \in Name
                PROVE  /\ NameIn(x)' # ROOTINO
                       /\ NameIn(x)' # 0 /\ disk'[NameIn(x)'].type = "DIR" =>
                            /\ x[1] = disk'[NameIn(x)'].ents[Dots]
                            /\ \A y \in Name : NameIn(y)' = NameIn(x)' => x = y
    BY DEF TreeInv
  <2>1. CASE x[1] \in S BY <1>4, <2>1, Consts
  <2>2. CASE x[1] \notin S
    <3>1. NameIn(x)' = NameIn(x) BY <1>4, <2>2
    <3>2. NameIn(x) # 0 => NameIn(x) \in Inode \ S BY <1>t, <1>3, NamedInode
    <3>3. NameIn(x) # 0 => disk'[NameIn(x)] = disk[NameIn(x)] BY <1>1, <3>2
    <3>4. \A y \in Name : NameIn(y)' # 0 => NameIn(y)' = NameIn(y) BY <1>4
    <3>. QED BY <1>t, <3>1, <3>3, <3>4 DEF TreeInv
  <2>. QED BY <2>1, <2>2
<1>9. ASSUME NEW j \in Inode
      PROVE  /\ lost'[j] \in Nat
             /\ disk'[j].nlink = Tally(Name, NameTo', j) + Tally(Inode, ParentOf', j)
                                 + Tally(Proc, LinkTo', j) + lost'[j]
  <2>1. lost'[j] = lost[j] + Tally(S \X Names, NameTo, j) BY NamesLost
  <2>2. S \X Names \subseteq Name BY DEF Name
  <2>3. Tally(Name, NameTo', j) = Tally(Name, NameTo, j) - Tally(S \X Names, NameTo, j)
    <3>1. \A x \in Name : NameTo[x] = NameIn(x) /\ (NameTo')[x] = NameIn(x)' BY DEF NameTo
    <3>. DEFINE f == NameTo
                g == NameTo'
                E == S \X Names
    <3>2. \A y \in Name : y \notin E => g[y] = f[y]
      <4>1. \A y \in Name : y \notin E => y[1] \notin S BY DEF Name
      <4>. QED BY <1>4, <3>1, <4>1
    <3>3. \A y \in E : g[y] # j
      <4>1. \A y \in E : y[1] \in S /\ y \in Name BY <2>2
      <4>2. j # 0 BY Consts
      <4>. QED BY <1>4, <3>1, <4>1, <4>2
    <3>4. E \subseteq Name BY <2>2
    <3>. HIDE DEF f, g, E
    <3>5. Tally(Name, g, j) = Tally(Name, f, j) - Tally(E, f, j)
      BY <3>2, <3>3, <3>4, FinitelyMany, TallyClear
    <3>. QED BY <3>5 DEF f, g, E
  <2>4. Tally(Inode, ParentOf', j) = Tally(Inode, ParentOf, j) BY <1>7, TallySame
  <2>5. Tally(Proc, LinkTo', j) = Tally(Proc, LinkTo, j)
    <3>1. \A q \in Proc : (LinkTo')[q] = LinkTo[q] BY DEF LinkTo
    <3>. QED BY <3>1, TallySame
  <2>6. disk[j].nlink = Tally(Name, NameTo, j) + Tally(Inode, ParentOf, j)
                        + Tally(Proc, LinkTo, j) + lost[j]
    BY <1>t DEF LinkInv
  <2>7. disk'[j].nlink = disk[j].nlink BY <1>1, <1>2
  <2>8. Tally(S \X Names, NameTo, j) \in Nat
    <3>1. IsFiniteSet(S \X Names) BY <2>2, FinitelyMany, FS_Subset
    <3>. QED BY <3>1, TallyNat
  <2>9. lost[j] \in Nat BY <1>t DEF TypeOK
  <2>. QED BY <2>1, <2>3, <2>4, <2>5, <2>6, <2>7, <2>8, <2>9, LinkCountsNat
<1>10. LinkInv' BY <1>9 DEF LinkInv
<1>11. lost' \in [Inode -> Nat]
  <2>1. lost' = [j \in Inode |-> lost'[j]] BY DEF Losing
  <2>. QED BY <1>9, <2>1
<1>. QED BY <1>5, <1>8, <1>10, <1>11

\* Their blocks are free again.
LEMMA RemoveBlocks ==
    ASSUME BlocksOK(disk, used), NEW S \in SUBSET Inode,
           disk' = [i \in Inode |-> IF i \in S THEN NoInode ELSE disk[i]],
           used' = used \ UNION {OwnBlocks(disk[i]) : i \in S}
    PROVE  BlocksOK(disk', used')
<1>1. /\ \A i \in S : disk'[i] = NoInode
      /\ \A i \in Inode : i \notin S => disk'[i] = disk[i]
  OBVIOUS
<1>2. OwnBlocks(NoInode) = {} /\ Apart(NoInode)
  <2>1. NoInode.data = <<>> /\ NoInode.ind = 0 BY DEF NoInode
  <2>. QED BY <2>1, EmptyInode
<1>3. used' = UNION {OwnBlocks(disk'[i]) : i \in Inode}
  <2>1. ASSUME NEW b \in used' PROVE \E i \in Inode : b \in OwnBlocks(disk'[i])
    <3>1. b \in used /\ \A i \in S : b \notin OwnBlocks(disk[i]) OBVIOUS
    <3>2. PICK i \in Inode : b \in OwnBlocks(disk[i]) BY <3>1 DEF BlocksOK
    <3>. QED BY <1>1, <3>1, <3>2
  <2>2. ASSUME NEW i \in Inode, NEW b \in OwnBlocks(disk'[i]) PROVE b \in used'
    <3>1. i \notin S BY <1>1, <1>2
    <3>2. b \in OwnBlocks(disk[i]) BY <1>1, <3>1
    <3>3. b \in used BY <3>2 DEF BlocksOK
    <3>4. \A j \in S : b \notin OwnBlocks(disk[j])
      <4>. SUFFICES ASSUME NEW j \in S PROVE b \notin OwnBlocks(disk[j]) OBVIOUS
      <4>1. OwnBlocks(disk[i]) \cap OwnBlocks(disk[j]) = {} BY <3>1 DEF BlocksOK
      <4>. QED BY <3>2, <4>1
    <3>. QED BY <3>3, <3>4
  <2>. QED BY <2>1, <2>2
<1>4. \A i, j \in Inode : i # j => OwnBlocks(disk'[i]) \cap OwnBlocks(disk'[j]) = {}
  <2>. SUFFICES ASSUME NEW i \in Inode, NEW j \in Inode, i # j
                PROVE  OwnBlocks(disk'[i]) \cap OwnBlocks(disk'[j]) = {}
    OBVIOUS
  <2>1. OwnBlocks(disk[i]) \cap OwnBlocks(disk[j]) = {} BY DEF BlocksOK
  <2>2. CASE i \in S \/ j \in S BY <1>1, <1>2, <2>2
  <2>3. CASE i \notin S /\ j \notin S
    <3>1. disk'[i] = disk[i] /\ disk'[j] = disk[j] BY <1>1, <2>3
    <3>. QED BY <2>1, <3>1
  <2>. QED BY <2>2, <2>3
<1>5. \A i \in Inode : Apart(disk'[i])
  <2>. SUFFICES ASSUME NEW i \in Inode PROVE Apart(disk'[i]) OBVIOUS
  <2>1. Apart(disk[i]) BY DEF BlocksOK
  <2>. QED BY <1>1, <1>2, <2>1
<1>. QED BY <1>3, <1>4, <1>5 DEF BlocksOK

\* Who puts the last reference to an inode without links is alone with it.
LEMMA LastRef ==
    ASSUME Inv, NEW p \in Proc, Putting(p), Last(Head(pr[p].puts)), NEW i, i = Put(p, 1)
    PROVE  /\ Head(pr[p].puts) = i /\ i \in Inode /\ i # 0
           /\ \A x \in Slot : Ref(x) = i => x = <<p, "put1">>
           /\ lock[i] \in {0, p} /\ ref[i] = 1 /\ mem[i] = disk[i]
           /\ disk[i].nlink = 0 /\ disk[i].type # "FREE"
           /\ pr[p].puts # <<>> /\ pr[p].iput = "no"
<1>t. TypeOK /\ CallInv /\ RefInv /\ LockInv /\ MemInv BY DEF Inv
<1>1. pr[p].puts # <<>> /\ pr[p].iput = "no" BY DEF Putting
<1>2. Head(pr[p].puts) = i /\ i \in Inode /\ i # 0 BY <1>t, <1>1, PutHead, Consts
<1>3. ref[i] = 1 /\ mem[i] # NoCopy /\ mem[i].nlink = 0 BY <1>2 DEF Last
<1>4. \A x \in Slot : Ref(x) = i => x = <<p, "put1">>
  <2>. DEFINE u == <<p, "put1">>
  <2>1. Tally(Slot, Held, i) = 1 BY <1>t, <1>2, <1>3 DEF RefInv
  <2>2. u \in Slot /\ Ref(u) = i BY OwnSlots
  <2>. HIDE DEF u
  <2>3. \A x \in Slot : Held[x] = Ref(x) BY DEF Held
  <2>4. \A x, y \in Slot : Held[x] = i /\ Held[y] = i => x = y
    BY <2>1, SlotFinite, TallyFew
  <2>5. \A x \in Slot : Ref(x) = i => x = u BY <2>2, <2>3, <2>4
  <2>. QED BY <2>5 DEF u
<1>5. lock[i] \in {0, p}
  <2>. SUFFICES ASSUME NEW q \in Proc, lock[i] = q, q # p PROVE FALSE
    BY <1>t, <1>2 DEF TypeOK
  <2>1. Locks(q, i) BY <1>t, <1>2 DEF LockInv
  <2>2. /\ <<q, "ip">> # <<p, "put1">> /\ <<q, "put1">> # <<p, "put1">>
        /\ <<q, "put2">> # <<p, "put1">>
    OBVIOUS
  <2>3. /\ <<q, "ip">> \in Slot /\ <<q, "put1">> \in Slot /\ <<q, "put2">> \in Slot
        /\ Ref(<<q, "ip">>) = pr[q].ip /\ Ref(<<q, "put1">>) = Put(q, 1)
        /\ Ref(<<q, "put2">>) = Put(q, 2)
    BY OwnSlots
  <2>4. pr[q].ip # i BY ONLY <1>4, <2>2, <2>3
  <2>5. Put(q, 1) # i BY ONLY <1>4, <2>2, <2>3
  <2>6. Put(q, 2) # i BY ONLY <1>4, <2>2, <2>3
  <2>. QED BY <2>1, <2>4, <2>5, <2>6 DEF Locks
<1>6. ~Freeing(i)
  <2>. SUFFICES ASSUME NEW q \in Proc, pr[q].iput = "freeing", Put(q, 1) = i PROVE FALSE
    BY DEF Freeing
  <2>1. q # p BY <1>1
  <2>2. <<q, "put1">> # <<p, "put1">> BY <2>1
  <2>. QED BY <1>4, <2>2, OwnSlots
<1>7. mem[i] = disk[i] BY <1>t, <1>2, <1>3, <1>6 DEF MemInv
<1>8. disk[i].type # "FREE" BY <1>1, <1>2, OwnGood DEF Good
<1>. QED BY <1>1, <1>2, <1>3, <1>4, <1>5, <1>7, <1>8

\* A call that is freeing, or has freed, the inode of the first reference it has to put.
Frees(e, r, k) ==
    /\ e \in CallType /\ CallOK(e) /\ e.iput = k
    /\ e.pc = r.pc /\ e.call = r.call /\ e.ip = r.ip /\ e.rest = r.rest /\ e.held = r.held
    /\ e.puts = r.puts

LEMMA FreesOK ==
    ASSUME NEW r \in CallType, CallOK(r), Len(r.puts) > 0,
           NEW k \in {"freeing", "dropping"}, NEW e, e = [r EXCEPT !.iput = k]
    PROVE  Frees(e, r, k)
<1>1. /\ e.pc = r.pc /\ e.call = r.call /\ e.ip = r.ip /\ e.rest = r.rest /\ e.held = r.held
      /\ e.new = r.new /\ e.puts = r.puts /\ e.iput = k
  BY DEF CallType
<1>2. e \in CallType BY DEF CallType
<1>3. CallOK(e) BY <1>1 DEF CallOK
<1>. QED BY <1>1, <1>2, <1>3 DEF Frees

\* Its references stay, one of them of another kind.
LEMMA FreedSlot ==
    ASSUME NEW p \in Proc, Move(p), cwd'[p] = cwd[p], file'[p].ip = file[p].ip,
           pr'[p].ip = pr[p].ip, pr'[p].held = pr[p].held, pr'[p].pc = pr[p].pc,
           Put(p, 1)' = Put(p, 1), Put(p, 2)' = Put(p, 2),
           NEW k, \/ pr'[p].iput = "freeing" /\ k = "freed"
                  \/ pr'[p].iput = "dropping" /\ k = "dropped"
    PROVE  \A x \in Slot : /\ Ref(x)' = Ref(x)
                           /\ Kind(x)' = (IF x = <<p, "put1">> THEN k ELSE Kind(x))
<1>. SUFFICES ASSUME NEW x \in Slot
              PROVE  /\ Ref(x)' = Ref(x)
                     /\ Kind(x)' = (IF x = <<p, "put1">> THEN k ELSE Kind(x))
  OBVIOUS
<1>1. x = <<x[1], x[2]>> /\ x[1] \in Proc /\ x[2] \in Slots BY DEF Slot
<1>2. CASE x[1] = p
  <2>1. Ref(x)' = Ref(x) BY <1>1, <1>2 DEF Ref, RefIn, Slots
  <2>2. x = <<p, "put1">> <=> x[2] = "put1" BY <1>1, <1>2
  <2>3. Kind(x)' = (IF x[2] = "put1" THEN k ELSE Kind(x)) BY <1>2 DEF Kind
  <2>. QED BY <2>1, <2>2, <2>3
<1>3. CASE x[1] # p
  <2>1. x # <<p, "put1">> BY <1>3
  <2>. QED BY <1>3, <2>1, MoveSlots
<1>. QED BY <1>2, <1>3

LEMMA IputFreeKeeps == ASSUME Inv, NEW p \in Proc, IputFree(p) PROVE Inv'
<1>t. TypeOK /\ CallInv /\ RefInv /\ SoleInv /\ AllocInv /\ SpecialInv /\ LockInv
      /\ MemInv /\ OrphanInv /\ WorkInv
  BY DEF Inv
<1>. SUFFICES ASSUME NEW i, i = Put(p, 1) PROVE Inv' OBVIOUS
<1>1. /\ Head(pr[p].puts) = i /\ i \in Inode /\ i # 0
      /\ \A x \in Slot : Ref(x) = i => x = <<p, "put1">>
      /\ lock[i] \in {0, p} /\ ref[i] = 1 /\ mem[i] = disk[i]
      /\ disk[i].nlink = 0 /\ disk[i].type # "FREE"
      /\ pr[p].puts # <<>> /\ pr[p].iput = "no"
  BY LastRef DEF IputFree
<1>2. /\ lock' = [lock EXCEPT ![i] = p] /\ used' = used \ OwnBlocks(disk[i])
      /\ disk' = [disk EXCEPT ![i] = NoInode] /\ mem' = [mem EXCEPT ![i] = NoInode]
      /\ lost' = Losing({i}) /\ UNCHANGED <<ref, cwd, file>>
      /\ pr' = [pr EXCEPT ![p].iput = "freeing"]
  BY <1>1 DEF IputFree, Files, Store
<1>3. pr[p] \in CallType /\ CallOK(pr[p]) /\ Len(pr[p].puts) \in 1 .. 2
      /\ pr[p].pc \notin {"at", "init", "unlink"}
  BY <1>t, <1>1, ProcTypes, PutHead
<1>. SUFFICES ASSUME NEW e, pr' = [pr EXCEPT ![p] = e], Frees(e, pr[p], "freeing") PROVE Inv'
  <2>1. pr' = [pr EXCEPT ![p] = [pr[p] EXCEPT !.iput = "freeing"]] BY <1>t, <1>2 DEF TypeOK, CallType
  <2>2. Len(pr[p].puts) > 0
    <3>1. \A k \in 1 .. 2 : k > 0 OBVIOUS
    <3>. QED BY <1>3, <3>1
  <2>3. Frees([pr[p] EXCEPT !.iput = "freeing"], pr[p], "freeing") BY <1>3, <2>2, FreesOK
  <2>. QED BY <2>1, <2>3
<1>4. pr'[p] = e /\ \A q \in Proc \ {p} : pr'[q] = pr[q] BY <1>t DEF TypeOK
<1>5. /\ pr'[p].pc = pr[p].pc /\ pr'[p].call = pr[p].call /\ pr'[p].ip = pr[p].ip
      /\ pr'[p].rest = pr[p].rest /\ pr'[p].held = pr[p].held /\ pr'[p].puts = pr[p].puts
      /\ pr'[p].iput = "freeing" /\ CallOK(pr'[p]) /\ pr'[p] \in CallType
  BY <1>4 DEF Frees
<1>6. \A q \in Proc : /\ pr'[q].pc = pr[q].pc /\ pr'[q].call = pr[q].call /\ pr'[q].ip = pr[q].ip
                      /\ pr'[q].rest = pr[q].rest /\ pr'[q].held = pr[q].held
                      /\ pr'[q].puts = pr[q].puts
                      /\ pr'[q].iput = (IF q = p THEN "freeing" ELSE pr[q].iput)
                      /\ Put(q, 1)' = Put(q, 1) /\ Put(q, 2)' = Put(q, 2)
  <2>. SUFFICES ASSUME NEW q \in Proc
                PROVE  /\ pr'[q].pc = pr[q].pc /\ pr'[q].call = pr[q].call
                       /\ pr'[q].ip = pr[q].ip
                       /\ pr'[q].rest = pr[q].rest /\ pr'[q].held = pr[q].held
                       /\ pr'[q].puts = pr[q].puts
                       /\ pr'[q].iput = (IF q = p THEN "freeing" ELSE pr[q].iput)
                       /\ Put(q, 1)' = Put(q, 1) /\ Put(q, 2)' = Put(q, 2)
    OBVIOUS
  <2>1. CASE q = p BY <1>5, <2>1 DEF Put
  <2>2. CASE q # p
    <3>1. pr'[q] = pr[q] BY <1>4, <2>2
    <3>. QED BY <2>2, <3>1 DEF Put
  <2>. QED BY <2>1, <2>2
<1>7. Move(p) BY <1>2, <1>4 DEF Move
<1>8. disk'[i] = NoInode /\ mem'[i] = NoInode
      /\ \A j \in Inode : j # i => disk'[j] = disk[j] /\ mem'[j] = mem[j] /\ lock'[j] = lock[j]
  BY <1>t, <1>1, <1>2 DEF TypeOK
<1>9. /\ NoInode \in InodeType /\ NoInode # NoCopy
      /\ NoInode.type = "FREE" /\ NoInode.nlink = 0 /\ NoInode.size <= Len(NoInode.data)
  <2>1. NoEnts \in [Entries -> 0 .. NINODES] BY Consts DEF NoEnts
  <2>2. NoInode \in InodeType BY <2>1, Consts DEF NoInode, InodeType, Types
  <2>. QED BY <2>2, ValidCopy DEF NoInode
<1>10. \A x \in Slot : /\ Ref(x)' = Ref(x)
                       /\ Kind(x)' = (IF x = <<p, "put1">> THEN "freed" ELSE Kind(x))
  <2>1. cwd'[p] = cwd[p] /\ file'[p].ip = file[p].ip BY <1>2
  <2>2. Put(p, 1)' = Put(p, 1) /\ Put(p, 2)' = Put(p, 2) BY <1>6
  <2>. QED BY <1>5, <1>7, <2>1, <2>2, FreedSlot
<1>11. TypeOK'
  <2>1. disk' \in [Inode -> InodeType] /\ mem' \in [Inode -> InodeType \cup {NoCopy}]
    BY <1>t, <1>2, <1>9 DEF TypeOK
  <2>2. \A j \in Inode : disk'[j].size <= Len(disk'[j].data)
    <3>. SUFFICES ASSUME NEW j \in Inode PROVE disk'[j].size <= Len(disk'[j].data) OBVIOUS
    <3>1. CASE j = i BY <1>8, <1>9, <3>1
    <3>2. CASE j # i
      <4>1. disk'[j] = disk[j] BY <1>8, <3>2
      <4>. QED BY <1>t, <4>1 DEF TypeOK
    <3>. QED BY <3>1, <3>2
  <2>3. pr' \in [Proc -> CallType] /\ \A q \in Proc : Len(pr'[q].puts) <= 2
    <3>1. \A q \in Proc : Len(pr'[q].puts) <= 2
      <4>. SUFFICES ASSUME NEW q \in Proc PROVE Len(pr'[q].puts) <= 2 OBVIOUS
      <4>1. pr'[q].puts = pr[q].puts BY <1>6
      <4>. QED BY <1>t, <4>1 DEF TypeOK
    <3>2. pr' \in [Proc -> CallType] BY <1>t, <1>4, <1>5 DEF TypeOK
    <3>. QED BY <3>1, <3>2
  <2>4. lost' \in [Inode -> Nat]
    <3>1. {i} \in SUBSET Inode BY <1>1
    <3>2. \A j \in Inode : Losing({i})[j] \in Nat
      <4>. SUFFICES ASSUME NEW j \in Inode PROVE Losing({i})[j] \in Nat OBVIOUS
      <4>1. Losing({i})[j] = lost[j] + Tally({i} \X Names, NameTo, j) BY <3>1, NamesLost
      <4>2. IsFiniteSet({i} \X Names)
        <5>1. {i} \X Names \subseteq Name BY <1>1 DEF Name
        <5>. QED BY <5>1, FinitelyMany, FS_Subset
      <4>3. Tally({i} \X Names, NameTo, j) \in Nat BY <4>2, TallyNat
      <4>4. lost[j] \in Nat BY <1>t DEF TypeOK
      <4>. QED BY <4>1, <4>3, <4>4
    <3>3. Losing({i}) = [j \in Inode |-> Losing({i})[j]] BY DEF Losing
    <3>. QED BY <1>2, <3>2, <3>3
  <2>5. lock' \in [Inode -> Proc \cup {0}] /\ used' \subseteq Blocks BY <1>t, <1>2 DEF TypeOK
  <2>. QED BY <1>t, <1>2, <2>1, <2>2, <2>3, <2>4, <2>5 DEF TypeOK
<1>12. CallInv' BY <1>t, <1>4, <1>5 DEF CallInv
<1>13. RefInv'
  <2>1. ASSUME NEW j \in Inode PROVE ref'[j] = ref[j] - Uses(p, j) + Uses(p, j)'
    <3>1. Uses(p, j)' = Uses(p, j) BY <1>2, <1>6 DEF Uses
    <3>2. Uses(p, j) \in Int BY DEF Uses, One
    <3>3. ref[j] \in Nat /\ ref'[j] = ref[j] BY <1>t, <1>2 DEF TypeOK
    <3>. QED BY <3>1, <3>2, <3>3
  <2>. QED BY <1>t, <1>7, <2>1, RefStep
<1>14. SoleInv'
  <2>. SUFFICES ASSUME NEW x \in Slot, NEW y \in Slot, x # y, Ref(x)' = Ref(y)', Ref(x)' # 0
                PROVE  /\ Kind(x)' = "new" => Kind(y)' \in {"freed", "dropped"}
                       /\ Kind(x)' = "freed" => Kind(y)' = "new"
    BY DEF SoleInv
  <2>1. Ref(x) = Ref(y) /\ Ref(x) # 0 BY <1>10
  <2>2. Ref(x) # i BY <1>1, <2>1
  <2>3. x # <<p, "put1">> /\ y # <<p, "put1">> BY <2>1, <2>2, OwnSlots
  <2>4. Kind(x)' = Kind(x) /\ Kind(y)' = Kind(y) BY <1>10, <2>3
  <2>. QED BY <1>t, <2>1, <2>4 DEF SoleInv
<1>15. AllocInv'
  <2>. SUFFICES ASSUME NEW x \in Slot, Ref(x)' # 0, Kind(x)' \in {"new", "plain"}
                PROVE  disk'[Ref(x)'].type # "FREE"
    BY DEF AllocInv
  <2>1. x # <<p, "put1">> BY <1>10
  <2>2. Ref(x)' = Ref(x) /\ Kind(x)' = Kind(x) /\ Ref(x) # i BY <1>1, <1>10, <2>1
  <2>3. Ref(x) \in Inode BY <1>t, <2>2, RefTypes
  <2>4. disk'[Ref(x)] = disk[Ref(x)] BY <1>8, <2>2, <2>3
  <2>. QED BY <1>t, <2>2, <2>4 DEF AllocInv
<1>16. SpecialInv'
  <2>. SUFFICES ASSUME NEW x \in Slot, Ref(x)' # 0, Kind(x)' \in Special
                PROVE  disk'[Ref(x)'].nlink = 0
    BY DEF SpecialInv
  <2>1. Ref(x)' = Ref(x) BY <1>10
  <2>2. CASE Ref(x) = i BY <1>8, <1>9, <2>1, <2>2
  <2>3. CASE Ref(x) # i
    <3>1. x # <<p, "put1">> BY <2>3, OwnSlots
    <3>2. Kind(x)' = Kind(x) /\ Ref(x) \in Inode BY <1>t, <1>10, <2>1, <3>1, RefTypes
    <3>3. disk'[Ref(x)] = disk[Ref(x)] BY <1>8, <2>3, <3>2
    <3>. QED BY <1>t, <2>1, <3>2, <3>3 DEF SpecialInv
  <2>. QED BY <2>2, <2>3
<1>17. LockInv'
  <2>1. \A j \in Inode : /\ lock'[j] = p => Locks(p, j)'
                         /\ lock'[j] \notin {0, p} => lock'[j] = lock[j]
                         /\ lock[j] \notin {0, p} => lock'[j] = lock[j]
    <3>. SUFFICES ASSUME NEW j \in Inode
                  PROVE  /\ lock'[j] = p => Locks(p, j)'
                         /\ lock'[j] \notin {0, p} => lock'[j] = lock[j]
                         /\ lock[j] \notin {0, p} => lock'[j] = lock[j]
      OBVIOUS
    <3>0. Put(p, 1)' = Put(p, 1) /\ Put(p, 2)' = Put(p, 2) BY <1>6
    <3>1. CASE j = i
      <4>1. lock'[i] = p BY <1>t, <1>1, <1>2 DEF TypeOK
      <4>2. Locks(p, i)' BY <3>0 DEF Locks
      <4>. QED BY <1>1, <3>1, <4>1, <4>2
    <3>2. CASE j # i
      <4>1. lock'[j] = lock[j] BY <1>8, <3>2
      <4>2. lock[j] = p => Locks(p, j) BY <1>t DEF LockInv
      <4>3. Locks(p, j) => Locks(p, j)' BY <1>5, <3>0 DEF Locks
      <4>. QED BY <4>1, <4>2, <4>3
    <3>. QED BY <3>1, <3>2
  <2>2. pr'[p].pc \notin {"init", "unlink"} BY <1>3, <1>5
  <2>3. lock'[Put(p, 1)'] = p /\ pr'[p].iput # "dropping"
    <3>1. Put(p, 1)' = i /\ lock'[i] = p BY <1>t, <1>1, <1>2, <1>6 DEF TypeOK
    <3>. QED BY <1>5, <3>1
  <2>. QED BY <1>t, <1>7, <2>1, <2>2, <2>3, LockStep
<1>18. \A j \in Inode : (Freeing(j)' <=> Freeing(j) \/ j = i) /\ (Creating(j)' <=> Creating(j))
  <2>1. \A q \in Proc : pr'[q].iput = "freeing" <=> (q = p \/ pr[q].iput = "freeing")
    BY <1>6
  <2>. QED BY <1>6, <2>1 DEF Freeing, Creating
<1>19. MemInv'
  <2>. SUFFICES ASSUME NEW j \in Inode
                PROVE  /\ mem'[j] # NoCopy => ref'[j] > 0
                       /\ mem'[j] \in {NoCopy, disk'[j]} \/ Freeing(j)'
                       /\ disk'[j].type = "FREE" => mem'[j] = NoCopy \/ Freeing(j)'
    BY DEF MemInv
  <2>1. ref'[j] = ref[j] BY <1>2
  <2>2. CASE j = i BY <1>1, <1>18, <2>1, <2>2
  <2>3. CASE j # i
    <3>1. disk'[j] = disk[j] /\ mem'[j] = mem[j] BY <1>8, <2>3
    <3>. QED BY <1>t, <1>18, <2>1, <3>1 DEF MemInv
  <2>. QED BY <2>2, <2>3
<1>20. OrphanInv'
  <2>. SUFFICES ASSUME NEW j \in Inode, disk'[j].type # "FREE", disk'[j].nlink = 0, ref'[j] > 0
                PROVE  (mem'[j] # NoCopy /\ ~Freeing(j)') \/ Creating(j)'
    BY DEF OrphanInv
  <2>1. j # i BY <1>8, <1>9
  <2>2. disk'[j] = disk[j] /\ mem'[j] = mem[j] /\ ref'[j] = ref[j] BY <1>2, <1>8, <2>1
  <2>. QED BY <1>t, <1>18, <2>1, <2>2 DEF OrphanInv
<1>21. WorkInv'
  <2>. SUFFICES ASSUME NEW q \in Proc PROVE WorkOK(q)' BY DEF WorkInv
  <2>1. WorkOK(q) /\ CallOK(pr[q]) /\ pr[q].ip \in Inode \cup {0} /\ pr[q].held \in Inode \cup {0}
    BY <1>t, ProcTypes DEF WorkInv
  <2>2. pr[q].ip # i /\ pr[q].held # i
    <3>1. <<q, "ip">> # <<p, "put1">> /\ <<q, "held">> # <<p, "put1">> OBVIOUS
    <3>. QED BY <1>1, <3>1, OwnSlots
  <2>3. /\ pr[q].ip # 0 => disk'[pr[q].ip] = disk[pr[q].ip]
        /\ pr[q].held # 0 => disk'[pr[q].held] = disk[pr[q].held]
    BY <1>8, <2>1, <2>2
  <2>4. /\ pr[q].pc \in {"at", "init", "unlink"} => pr[q].ip # 0
        /\ pr[q].call = "link2" \/ pr[q].pc = "init" => pr[q].held # 0
    BY <2>1 DEF CallOK
  <2>5. /\ pr'[q].pc = pr[q].pc /\ pr'[q].call = pr[q].call /\ pr'[q].ip = pr[q].ip
        /\ pr'[q].held = pr[q].held /\ Elem(pr'[q]) = Elem(pr[q])
    BY <1>6 DEF Elem
  <2>. QED BY <2>1, <2>3, <2>4, <2>5 DEF WorkOK
<1>22. DiskInv' /\ TreeInv' /\ LinkInv' /\ BlocksOK(disk', used')
  <2>. DEFINE S == {i}
  <2>1. S \in SUBSET Inode /\ \A j \in S : disk[j].nlink = 0 BY <1>1
  <2>2. disk' = [j \in Inode |-> IF j \in S THEN NoInode ELSE disk[j]]
    BY <1>t, <1>2 DEF TypeOK
  <2>3. lost' = Losing(S) BY <1>2
  <2>4. \A q \in Proc : LinkOf(q)' = LinkOf(q) BY <1>6 DEF LinkOf
  <2>5. used' = used \ UNION {OwnBlocks(disk[j]) : j \in S} BY <1>2
  <2>6. BlocksOK(disk, used) BY DEF Inv
  <2>. HIDE DEF S
  <2>7. DiskInv' /\ TreeInv' /\ LinkInv' BY <2>1, <2>2, <2>3, <2>4, RemoveTree
  <2>8. BlocksOK(disk', used') BY <2>1, <2>2, <2>5, <2>6, RemoveBlocks
  <2>. QED BY <2>7, <2>8
<1>. QED BY <1>11, <1>12, <1>13, <1>14, <1>15, <1>16, <1>17, <1>19, <1>20, <1>21, <1>22 DEF Inv

\* Somebody may have allocated the inode again by now.
LEMMA IputUnlockKeeps == ASSUME Inv, NEW p \in Proc, IputUnlock(p) PROVE Inv'
<1>t. TypeOK /\ CallInv /\ RefInv /\ SoleInv /\ AllocInv /\ SpecialInv /\ LockInv
      /\ MemInv /\ OrphanInv /\ WorkInv
  BY DEF Inv
<1>. SUFFICES ASSUME NEW i, i = Put(p, 1) PROVE Inv' OBVIOUS
<1>0. pr[p].iput = "freeing" /\ pr[p].puts # <<>> /\ lock[i] = p /\ Len(pr[p].puts) > 0
  <2>1. pr[p].iput = "freeing" BY DEF IputUnlock
  <2>2. Len(pr[p].puts) > 0 /\ lock[Put(p, 1)] = p BY <1>t, <2>1, ProcTypes DEF CallOK, LockInv
  <2>3. Len(<<>>) = 0 OBVIOUS
  <2>. QED BY <2>1, <2>2, <2>3
<1>1. Head(pr[p].puts) = i /\ i \in Inode /\ i # 0 /\ pr[p].pc \notin {"at", "init", "unlink"}
  BY <1>t, <1>0, PutHead, Consts
<1>2. /\ lock' = [lock EXCEPT ![i] = 0] /\ mem' = [mem EXCEPT ![i] = NoCopy]
      /\ UNCHANGED <<disk, ref, used, cwd, file, lost>>
      /\ pr' = [pr EXCEPT ![p].iput = "dropping"]
  BY <1>1 DEF IputUnlock, Files
<1>3. pr[p] \in CallType /\ CallOK(pr[p]) BY <1>t, ProcTypes
<1>. SUFFICES ASSUME NEW e, pr' = [pr EXCEPT ![p] = e], Frees(e, pr[p], "dropping") PROVE Inv'
  <2>1. pr' = [pr EXCEPT ![p] = [pr[p] EXCEPT !.iput = "dropping"]] BY <1>t, <1>2 DEF TypeOK, CallType
  <2>2. Frees([pr[p] EXCEPT !.iput = "dropping"], pr[p], "dropping") BY <1>0, <1>3, FreesOK
  <2>. QED BY <2>1, <2>2
<1>4. pr'[p] = e /\ \A q \in Proc \ {p} : pr'[q] = pr[q] BY <1>t DEF TypeOK
<1>5. /\ pr'[p].pc = pr[p].pc /\ pr'[p].call = pr[p].call /\ pr'[p].ip = pr[p].ip
      /\ pr'[p].rest = pr[p].rest /\ pr'[p].held = pr[p].held /\ pr'[p].puts = pr[p].puts
      /\ pr'[p].iput = "dropping" /\ CallOK(pr'[p]) /\ pr'[p] \in CallType
      /\ Put(p, 1)' = Put(p, 1) /\ Put(p, 2)' = Put(p, 2)
  BY <1>4 DEF Frees, Put
<1>7. Move(p) BY <1>2, <1>4 DEF Move
<1>8. /\ mem'[i] = NoCopy /\ lock'[i] = 0
      /\ \A j \in Inode : j # i => mem'[j] = mem[j] /\ lock'[j] = lock[j]
      /\ \A j \in Inode : disk'[j] = disk[j] /\ ref'[j] = ref[j]
  BY <1>t, <1>1, <1>2 DEF TypeOK
<1>. DEFINE u == <<p, "put1">>
<1>9. /\ u \in Slot /\ Ref(u) = i /\ Kind(u) = "freed"
      /\ \A x \in Slot : Ref(x)' = Ref(x) /\ Kind(x)' = (IF x = u THEN "dropped" ELSE Kind(x))
  <2>1. u \in Slot /\ Ref(u) = i /\ Kind(u) = "freed" BY <1>0, OwnSlots
  <2>2. cwd'[p] = cwd[p] /\ file'[p].ip = file[p].ip BY <1>2
  <2>. QED BY <1>5, <1>7, <2>1, <2>2, FreedSlot
<1>. HIDE DEF u
<1>11. TypeOK'
  <2>1. mem' \in [Inode -> InodeType \cup {NoCopy}] /\ lock' \in [Inode -> Proc \cup {0}]
    BY <1>t, <1>2 DEF TypeOK
  <2>2. pr' \in [Proc -> CallType] BY <1>t, <1>4, <1>5 DEF TypeOK
  <2>3. \A q \in Proc : Len(pr'[q].puts) <= 2
    <3>1. \A q \in Proc : pr'[q].puts = pr[q].puts BY <1>4, <1>5
    <3>. QED BY <1>t, <3>1 DEF TypeOK
  <2>. QED BY <1>t, <1>2, <2>1, <2>2, <2>3 DEF TypeOK
<1>12. CallInv' BY <1>t, <1>4, <1>5 DEF CallInv
<1>13. RefInv'
  <2>1. ASSUME NEW j \in Inode PROVE ref'[j] = ref[j] - Uses(p, j) + Uses(p, j)'
    <3>1. Uses(p, j)' = Uses(p, j) BY <1>2, <1>5 DEF Uses
    <3>2. Uses(p, j) \in Int BY DEF Uses, One
    <3>3. ref[j] \in Nat /\ ref'[j] = ref[j] BY <1>t, <1>2 DEF TypeOK
    <3>. QED BY <3>1, <3>2, <3>3
  <2>. QED BY <1>t, <1>7, <2>1, RefStep
<1>14. SoleInv'
  <2>. SUFFICES ASSUME NEW x \in Slot, NEW y \in Slot, x # y, Ref(x)' = Ref(y)', Ref(x)' # 0
                PROVE  /\ Kind(x)' = "new" => Kind(y)' \in {"freed", "dropped"}
                       /\ Kind(x)' = "freed" => Kind(y)' = "new"
    BY DEF SoleInv
  <2>1. Ref(x) = Ref(y) /\ Ref(x) # 0 BY <1>9
  <2>2. /\ Kind(x) = "new" => Kind(y) \in {"freed", "dropped"}
        /\ Kind(x) = "freed" => Kind(y) = "new"
    BY <1>t, <2>1 DEF SoleInv
  <2>. QED BY <1>9, <2>2
<1>15. AllocInv'
  <2>. SUFFICES ASSUME NEW x \in Slot, Ref(x)' # 0, Kind(x)' \in {"new", "plain"}
                PROVE  disk'[Ref(x)'].type # "FREE"
    BY DEF AllocInv
  <2>1. Ref(x)' = Ref(x) /\ Kind(x)' = Kind(x) BY <1>9
  <2>. QED BY <1>t, <1>2, <2>1 DEF AllocInv
<1>16. SpecialInv'
  <2>. SUFFICES ASSUME NEW x \in Slot, Ref(x)' # 0, Kind(x)' \in Special
                PROVE  disk'[Ref(x)'].nlink = 0
    BY DEF SpecialInv
  <2>1. Ref(x)' = Ref(x) /\ Kind(x)' = Kind(x) BY <1>9 DEF Special
  <2>. QED BY <1>t, <1>2, <2>1 DEF SpecialInv
<1>17. LockInv'
  <2>1. ASSUME NEW j \in Inode
        PROVE  /\ lock'[j] = p => Locks(p, j)'
               /\ lock'[j] \notin {0, p} => lock'[j] = lock[j]
               /\ lock[j] \notin {0, p} => lock'[j] = lock[j]
    <3>1. CASE j = i BY <1>0, <1>8, <3>1, Consts
    <3>2. CASE j # i
      <4>1. lock'[j] = lock[j] BY <1>8, <3>2
      <4>2. lock[j] = p => Locks(p, j) BY <1>t DEF LockInv
      <4>3. Locks(p, j) => Locks(p, j)' BY <1>5 DEF Locks
      <4>. QED BY <4>1, <4>2, <4>3
    <3>. QED BY <3>1, <3>2
  <2>2. pr'[p].pc \notin {"init", "unlink"} /\ pr'[p].iput # "freeing" BY <1>1, <1>5
  <2>3. lock'[Put(p, 1)'] # p BY <1>5, <1>8, Consts
  <2>. QED BY <1>t, <1>7, <2>1, <2>2, <2>3, LockStep
<1>18. \A j \in Inode : /\ Creating(j)' <=> Creating(j)
                        /\ Freeing(j)' => Freeing(j)
                        /\ j # i /\ Freeing(j) => Freeing(j)'
  <2>1. \A q \in Proc : q # p => pr'[q] = pr[q] /\ Put(q, 1)' = Put(q, 1)
    BY <1>7 DEF Move, Put
  <2>2. pr'[p].iput # "freeing" /\ pr'[p].pc # "init" /\ pr[p].pc # "init" BY <1>1, <1>5
  <2>. QED BY <2>1, <2>2 DEF Freeing, Creating
<1>19. MemInv'
  <2>. SUFFICES ASSUME NEW j \in Inode
                PROVE  /\ mem'[j] # NoCopy => ref'[j] > 0
                       /\ mem'[j] \in {NoCopy, disk'[j]} \/ Freeing(j)'
                       /\ disk'[j].type = "FREE" => mem'[j] = NoCopy \/ Freeing(j)'
    BY DEF MemInv
  <2>1. CASE j = i BY <1>8, <2>1
  <2>2. CASE j # i
    <3>1. ref'[j] = ref[j] /\ mem'[j] = mem[j] /\ disk'[j] = disk[j] BY <1>8, <2>2
    <3>2. /\ mem[j] # NoCopy => ref[j] > 0
          /\ mem[j] \in {NoCopy, disk[j]} \/ Freeing(j)
          /\ disk[j].type = "FREE" => mem[j] = NoCopy \/ Freeing(j)
      BY <1>t DEF MemInv
    <3>. QED BY <1>18, <2>2, <3>1, <3>2
  <2>. QED BY <2>1, <2>2
<1>20. OrphanInv'
  <2>. SUFFICES ASSUME NEW j \in Inode, disk[j].type # "FREE", disk[j].nlink = 0, ref[j] > 0
                PROVE  (mem'[j] # NoCopy /\ ~Freeing(j)') \/ Creating(j)'
    BY <1>8 DEF OrphanInv
  <2>1. (mem[j] # NoCopy /\ ~Freeing(j)) \/ Creating(j) BY <1>t DEF OrphanInv
  <2>2. CASE j = i
    <3>1. Freeing(i) BY <1>0 DEF Freeing
    <3>. QED BY <1>18, <2>1, <2>2, <3>1
  <2>3. CASE j # i
    <3>1. mem'[j] = mem[j] BY <1>8, <2>3
    <3>. QED BY <1>18, <2>1, <3>1
  <2>. QED BY <2>2, <2>3
<1>21. WorkInv'
  <2>1. WorkOK(p)'
    <3>1. WorkOK(p) BY <1>t DEF WorkInv
    <3>. QED BY <1>1, <1>2, <1>5, <3>1 DEF WorkOK
  <2>2. \A j \in Inode : disk'[j] = disk[j] BY <1>2
  <2>3. \A j \in Inode : disk'[j].type = disk[j].type /\ disk'[j].ents = disk[j].ents BY <1>2
  <2>. QED BY <1>t, <1>7, <2>1, <2>2, <2>3, WorkStep
<1>22. DiskInv' /\ TreeInv' /\ LinkInv' /\ BlocksOK(disk', used')
  <2>1. LinkOf(p)' = LinkOf(p) BY <1>5 DEF LinkOf
  <2>. QED BY <1>2, <1>7, <2>1, Reads
<1>. QED BY <1>11, <1>12, <1>13, <1>14, <1>15, <1>16, <1>17, <1>19, <1>20, <1>21, <1>22 DEF Inv

\* The inode may be somebody else's by now.
LEMMA IputEndKeeps == ASSUME Inv, NEW p \in Proc, IputEnd(p) PROVE Inv'
<1>t. TypeOK /\ CallInv /\ RefInv /\ SoleInv /\ AllocInv /\ SpecialInv /\ LockInv
      /\ MemInv /\ OrphanInv /\ WorkInv
  BY DEF Inv
<1>0. pr[p].iput = "dropping" /\ pr[p].puts # <<>> /\ lock[Put(p, 1)] # p
  <2>1. pr[p].iput = "dropping" BY DEF IputEnd
  <2>2. Len(pr[p].puts) > 0 /\ lock[Put(p, 1)] # p BY <1>t, <2>1, ProcTypes DEF CallOK, LockInv
  <2>3. Len(<<>>) = 0 OBVIOUS
  <2>. QED BY <2>1, <2>2, <2>3
<1>. SUFFICES ASSUME NEW i, i = Put(p, 1), NEW e, PutsOne(e, pr[p]), pr' = [pr EXCEPT ![p] = e]
              PROVE  Inv'
  <2>1. pr' = [pr EXCEPT ![p] = [pr[p] EXCEPT !.puts = Tail(@), !.iput = "no"]]
    BY <1>t DEF IputEnd, TypeOK, CallType
  <2>. QED BY <2>1 DEF PutsOne
<1>1. Head(pr[p].puts) = i /\ i \in Inode /\ pr[p].pc \notin {"at", "init", "unlink"}
  BY <1>t, <1>0, PutHead
<1>2. /\ ref' = [ref EXCEPT ![i] = @ - 1]
      /\ mem' = IF ref[i] = 1 THEN [mem EXCEPT ![i] = NoCopy] ELSE mem
      /\ UNCHANGED <<disk, lock, used, cwd, file, lost>>
  BY <1>1 DEF IputEnd, Files
<1>4. /\ pr'[p] = e /\ Move(p) /\ GoesOn(e, pr[p], Tail(pr[p].puts))
      /\ Put(p, 1)' = Put(p, 2) /\ Put(p, 2)' = 0
      /\ pr' \in [Proc -> CallType] /\ \A q \in Proc : Len(pr'[q].puts) <= 2
      /\ \A j : Uses(p, j) \in Int /\ Uses(p, j)' = Uses(p, j) - One(Put(p, 1), j) + One(0, j)
  BY <1>t, <1>0, <1>2, PutTail
<1>5. /\ CallOK(e) /\ e.pc = pr[p].pc /\ e.call = pr[p].call /\ e.ip = pr[p].ip
      /\ e.held = pr[p].held /\ e.iput = "no"
  BY <1>4 DEF GoesOn
<1>6. ref[i] \in Nat /\ ref[i] > 0 /\ i # 0 BY <1>t, <1>1, OwnCounted, Consts DEF TypeOK
<1>7. /\ ref'[i] = ref[i] - 1 /\ \A j \in Inode : j # i => ref'[j] = ref[j]
      /\ ref[i] = 1 => mem'[i] = NoCopy
      /\ ref[i] # 1 => mem'[i] = mem[i]
      /\ \A j \in Inode : j # i => mem'[j] = mem[j]
  BY <1>t, <1>0, <1>1, <1>2 DEF TypeOK
<1>8. TypeOK'
  <2>1. ref' \in [Inode -> Nat] BY <1>t, <1>1, <1>2, <1>6 DEF TypeOK
  <2>2. mem' \in [Inode -> InodeType \cup {NoCopy}] BY <1>t, <1>1, <1>2 DEF TypeOK
  <2>. QED BY <1>t, <1>2, <1>4, <2>1, <2>2 DEF TypeOK
<1>9. CallInv'
  <2>1. \A q \in Proc \ {p} : pr'[q] = pr[q] BY <1>4 DEF Move
  <2>. QED BY <1>t, <1>4, <1>5, <2>1 DEF CallInv
<1>10. RefInv'
  <2>1. ASSUME NEW j \in Inode PROVE ref'[j] = ref[j] - Uses(p, j) + Uses(p, j)'
    <3>1. Uses(p, j) \in Int /\ Uses(p, j)' = Uses(p, j) - One(i, j) + One(0, j) BY <1>4
    <3>2. ref[j] \in Nat /\ ref'[j] = ref[j] - One(i, j) BY <1>t, <1>7 DEF TypeOK, One
    <3>3. One(i, j) \in Int /\ One(0, j) = 0 BY Consts DEF One
    <3>. QED BY <3>1, <3>2, <3>3
  <2>. QED BY <1>t, <1>4, <2>1, RefStep
<1>11. /\ Good(p, cwd'[p]) /\ Good(p, file'[p].ip) /\ Good(p, pr'[p].ip) /\ Good(p, pr'[p].held)
       /\ Good(p, Put(p, 1)') /\ Good(p, Put(p, 2)')
  <2>1. Good(p, 0) BY DEF Good
  <2>. QED BY <1>1, <1>2, <1>4, <1>5, <2>1, OwnGood
<1>12. \A x \in Slot : x[1] = p => Kind(x)' = "plain" /\ Good(p, Ref(x)')
  <2>. SUFFICES ASSUME NEW x \in Slot, x[1] = p PROVE Kind(x)' = "plain" /\ Good(p, Ref(x)')
    OBVIOUS
  <2>1. pr'[p].pc # "init" /\ pr'[p].iput = "no" BY <1>1, <1>4, <1>5
  <2>. QED BY <1>11, <2>1, OwnPlainNext
<1>13. \A x \in Slot : Ref(x) \in Inode \cup {0} BY <1>t, RefTypes
<1>14. SoleInv'
  <2>1. \A x \in Slot : x[1] = p => Kind(x)' = "plain" /\ (Ref(x)' = 0 \/ Plain(p, Ref(x)'))
    BY <1>12 DEF Good
  <2>. QED BY <1>t, <1>4, <2>1, SoleStep
<1>15. SpecialInv'
  <2>1. \A j \in Inode : disk'[j].nlink = disk[j].nlink BY <1>2
  <2>. QED BY <1>t, <1>4, <1>12, <1>13, <2>1, SpecialStep
<1>16. AllocInv'
  <2>1. \A x \in Slot : x[1] = p /\ Ref(x)' # 0 /\ Kind(x)' \in {"new", "plain"}
                            => disk'[Ref(x)'].type # "FREE"
    BY <1>2, <1>12 DEF Good
  <2>2. \A j \in Inode : disk[j].type # "FREE" => disk'[j].type # "FREE" BY <1>2
  <2>. QED BY <1>t, <1>4, <1>13, <2>1, <2>2, AllocStep
<1>17. LockInv'
  <2>1. \A j \in Inode : /\ lock'[j] = p => Locks(p, j)'
                         /\ lock'[j] \notin {0, p} => lock'[j] = lock[j]
                         /\ lock[j] \notin {0, p} => lock'[j] = lock[j]
    <3>. SUFFICES ASSUME NEW j \in Inode
                  PROVE  /\ lock'[j] = p => Locks(p, j)'
                         /\ lock'[j] \notin {0, p} => lock'[j] = lock[j]
                         /\ lock[j] \notin {0, p} => lock'[j] = lock[j]
      OBVIOUS
    <3>1. CASE j = i BY <1>0, <1>2, <3>1
    <3>2. CASE j # i
      <4>1. lock'[j] = lock[j] BY <1>2
      <4>2. lock[j] = p => Locks(p, j) BY <1>t DEF LockInv
      <4>3. Locks(p, j) => Put(p, 2) = j BY <1>1, <3>2 DEF Locks
      <4>4. Put(p, 2) = j => Locks(p, j)' BY <1>4 DEF Locks
      <4>. QED BY <4>1, <4>2, <4>3, <4>4
    <3>. QED BY <3>1, <3>2
  <2>2. pr'[p].pc \notin {"init", "unlink"} /\ pr'[p].iput = "no" BY <1>1, <1>4, <1>5
  <2>. QED BY <1>t, <1>4, <2>1, <2>2, LockStep
<1>18. \A j \in Inode : (Freeing(j)' <=> Freeing(j)) /\ (Creating(j)' <=> Creating(j))
  <2>1. \A q \in Proc : q # p => pr'[q] = pr[q] /\ Put(q, 1)' = Put(q, 1)
    BY <1>4 DEF Move, Put
  <2>2. pr'[p].iput = "no" /\ pr'[p].pc # "init" /\ pr[p].pc # "init" BY <1>1, <1>4, <1>5
  <2>. QED BY <1>0, <2>1, <2>2 DEF Freeing, Creating
<1>19. MemInv'
  <2>. SUFFICES ASSUME NEW j \in Inode
                PROVE  /\ mem'[j] # NoCopy => ref'[j] > 0
                       /\ mem'[j] \in {NoCopy, disk'[j]} \/ Freeing(j)'
                       /\ disk'[j].type = "FREE" => mem'[j] = NoCopy \/ Freeing(j)'
    BY DEF MemInv
  <2>1. /\ mem[j] # NoCopy => ref[j] > 0
        /\ mem[j] \in {NoCopy, disk[j]} \/ Freeing(j)
        /\ disk[j].type = "FREE" => mem[j] = NoCopy \/ Freeing(j)
    BY <1>t DEF MemInv
  <2>2. disk'[j] = disk[j] BY <1>2
  <2>3. CASE j = i /\ ref[i] = 1 BY <1>7, <2>3
  <2>4. CASE j = i /\ ref[i] # 1
    <3>1. ref[i] - 1 > 0 BY <1>6, <2>4
    <3>2. ref'[j] > 0 /\ mem'[j] = mem[j] BY <1>7, <2>4, <3>1
    <3>. QED BY <1>18, <2>1, <2>2, <3>2
  <2>5. CASE j # i
    <3>1. ref'[j] = ref[j] /\ mem'[j] = mem[j] BY <1>7, <2>5
    <3>. QED BY <1>18, <2>1, <2>2, <3>1
  <2>. QED BY <2>3, <2>4, <2>5
<1>20. OrphanInv'
  <2>. SUFFICES ASSUME NEW j \in Inode, disk[j].type # "FREE", disk[j].nlink = 0, ref'[j] > 0
                PROVE  (mem'[j] # NoCopy /\ ~Freeing(j)') \/ Creating(j)'
    BY <1>2 DEF OrphanInv
  <2>1. ref[j] > 0 /\ mem'[j] = mem[j]
    <3>1. CASE j = i
      <4>1. ref[i] # 1 BY <1>6, <1>7, <3>1
      <4>. QED BY <1>6, <1>7, <3>1, <4>1
    <3>2. CASE j # i
      <4>1. ref'[j] = ref[j] /\ mem'[j] = mem[j] BY <1>7, <3>2
      <4>. QED BY <4>1
    <3>. QED BY <3>1, <3>2
  <2>2. (mem[j] # NoCopy /\ ~Freeing(j)) \/ Creating(j) BY <1>t, <2>1 DEF OrphanInv
  <2>. QED BY <1>18, <2>1, <2>2
<1>21. WorkInv'
  <2>1. WorkOK(p)'
    <3>1. WorkOK(p) BY <1>t DEF WorkInv
    <3>. QED BY <1>1, <1>2, <1>4, <1>5, <3>1 DEF WorkOK
  <2>2. \A j \in Inode : disk'[j] = disk[j] BY <1>2
  <2>3. \A j \in Inode : disk'[j].type = disk[j].type /\ disk'[j].ents = disk[j].ents BY <1>2
  <2>. QED BY <1>t, <1>4, <2>1, <2>2, <2>3, WorkStep
<1>22. DiskInv' /\ TreeInv' /\ LinkInv' /\ BlocksOK(disk', used')
  <2>1. LinkOf(p)' = LinkOf(p) BY <1>4, <1>5 DEF LinkOf
  <2>. QED BY <1>2, <1>4, <2>1, Reads
<1>. QED BY <1>8, <1>9, <1>10, <1>14, <1>15, <1>16, <1>17, <1>19, <1>20, <1>21, <1>22 DEF Inv

----------------------------------------------------------------------------
(* mkfs, a crash and the next start                                        *)

\* A system that has started with an intact disk.
Booted ==
    /\ TypeOK
    /\ mem = [i \in Inode |-> NoCopy]
    /\ ref = [i \in Inode |-> IF i = ROOTINO THEN Cardinality(Proc) ELSE 0]
    /\ lock = [i \in Inode |-> 0]
    /\ cwd = [p \in Proc |-> ROOTINO]
    /\ file = [p \in Proc |-> NoFile]
    /\ pr = [p \in Proc |-> Idle(<<>>)]
    /\ DiskInv /\ TreeInv /\ LinkInv /\ BlocksOK(disk, used)
    /\ \A i \in Inode : disk[i].type # "FREE" => disk[i].nlink # 0

LEMMA BootedInv == Booted => Inv
<1>. SUFFICES ASSUME Booted PROVE Inv OBVIOUS
<1>. SUFFICES ASSUME NEW e, e = Idle(<<>>) PROVE Inv OBVIOUS
<1>1. \A p \in Proc : pr[p] = e /\ cwd[p] = ROOTINO /\ file[p].ip = 0
  BY DEF Booted, NoFile
<1>2. /\ e.pc = "idle" /\ e.call = "none" /\ e.ip = 0 /\ e.held = 0
      /\ e.puts = <<>> /\ e.iput = "no"
  BY IdleFields DEF IsIdle
<1>3. CallInv
  <2>1. CallOK(e) BY Consts, IdleOK
  <2>. QED BY <1>1, <2>1 DEF CallInv
<1>4. \A p \in Proc : Put(p, 1) = 0 /\ Put(p, 2) = 0
  <2>1. \A p \in Proc : pr[p].puts = <<>> BY <1>1, <1>2
  <2>. QED BY <2>1, PutValues
<1>5. \A x \in Slot : Kind(x) = "plain" /\ Ref(x) = (IF x[2] = "cwd" THEN ROOTINO ELSE 0)
  <2>. SUFFICES ASSUME NEW x \in Slot
                PROVE  Kind(x) = "plain" /\ Ref(x) = (IF x[2] = "cwd" THEN ROOTINO ELSE 0)
    OBVIOUS
  <2>1. x[1] \in Proc /\ x[2] \in Slots BY DEF Slot
  <2>2. pr[x[1]] = e /\ cwd[x[1]] = ROOTINO /\ file[x[1]].ip = 0 BY <1>1, <2>1
  <2>3. Put(x[1], 1) = 0 /\ Put(x[1], 2) = 0 BY <1>4, <2>1
  <2>4. Kind(x) = "plain" BY <1>2, <2>2 DEF Kind
  <2>5. Ref(x) = (IF x[2] = "cwd" THEN ROOTINO ELSE 0)
    BY <1>2, <2>1, <2>2, <2>3 DEF Ref, RefIn, Slots
  <2>. QED BY <2>4, <2>5
<1>6. RefInv
  <2>. SUFFICES ASSUME NEW i \in Inode PROVE ref[i] = Tally(Slot, Held, i) BY DEF RefInv
  <2>1. \A x \in Slot : Held[x] = (IF x[2] = "cwd" THEN ROOTINO ELSE 0) BY <1>5 DEF Held
  <2>2. CASE i = ROOTINO
    <3>1. {x \in Slot : Held[x] = i} = Proc \X {"cwd"}
      <4>1. \A x \in Slot : Held[x] = i <=> x[2] = "cwd" BY <2>1, <2>2, Consts
      <4>2. \A x \in Proc \X {"cwd"} : x \in Slot /\ x[2] = "cwd" BY DEF Slot, Slots
      <4>3. \A x \in Slot : x[2] = "cwd" => x \in Proc \X {"cwd"} BY DEF Slot
      <4>. QED BY <4>1, <4>2, <4>3
    <3>2. IsFiniteSet({"cwd"}) /\ Cardinality({"cwd"}) = 1 BY FS_Singleton
    <3>3. Cardinality(Proc \X {"cwd"}) = Cardinality(Proc) * 1
      BY <3>2, FinitelyMany, FS_Product
    <3>4. Cardinality(Proc) \in Nat BY FinitelyMany, FS_CardinalityType
    <3>5. ref[i] = Cardinality(Proc) BY <2>2 DEF Booted
    <3>6. Cardinality(Proc) * 1 = Cardinality(Proc) BY <3>4
    <3>7. Tally(Slot, Held, i) = Cardinality(Proc \X {"cwd"}) BY <3>1 DEF Tally
    <3>. QED BY <3>3, <3>5, <3>6, <3>7
  <2>3. CASE i # ROOTINO
    <3>1. \A x \in Slot : Held[x] # i BY <2>1, <2>3, Consts
    <3>2. Tally(Slot, Held, i) = 0 BY <3>1, SlotFinite, TallyFew
    <3>3. ref[i] = 0 BY <2>3 DEF Booted
    <3>. QED BY <3>2, <3>3
  <2>. QED BY <2>2, <2>3
<1>7. SoleInv /\ SpecialInv BY <1>5 DEF SoleInv, SpecialInv, Special
<1>8. AllocInv
  <2>1. disk[ROOTINO].type = "DIR" BY DEF Booted, DiskInv
  <2>. QED BY <1>5, <2>1 DEF AllocInv
<1>9. LockInv
  <2>1. \A i \in Inode : lock[i] = 0 BY DEF Booted
  <2>. QED BY <1>1, <1>2, <2>1, Consts DEF LockInv
<1>10. MemInv /\ OrphanInv BY DEF MemInv, OrphanInv, Booted
<1>11. WorkInv BY <1>1, <1>2 DEF WorkInv, WorkOK
<1>. QED BY <1>3, <1>6, <1>7, <1>8, <1>9, <1>10, <1>11 DEF Inv, Booted

\* What a process is like after the start.
LEMMA StartTypes ==
    /\ [i \in Inode |-> NoCopy] \in [Inode -> InodeType \cup {NoCopy}]
    /\ [i \in Inode |-> IF i = ROOTINO THEN Cardinality(Proc) ELSE 0] \in [Inode -> Nat]
    /\ [i \in Inode |-> 0] \in [Inode -> Proc \cup {0}]
    /\ [p \in Proc |-> ROOTINO] \in [Proc -> Inode]
    /\ [p \in Proc |-> NoFile] \in [Proc -> FileType]
    /\ [p \in Proc |-> Idle(<<>>)] \in [Proc -> CallType]
    /\ Len(Idle(<<>>).puts) <= 2
    /\ NoInode \in InodeType /\ NoInode.size <= Len(NoInode.data)
<1>1. Cardinality(Proc) \in Nat BY FinitelyMany, FS_CardinalityType
<1>2. Idle(<<>>) \in CallType BY Consts, IdleOK
<1>3. Len(Idle(<<>>).puts) <= 2 BY Consts, IdleOK
<1>4. NoEnts \in [Entries -> 0 .. NINODES] BY Consts DEF NoEnts
<1>5. NoInode \in InodeType BY <1>4, Consts DEF NoInode, InodeType, Types
<1>6. NoInode.size <= Len(NoInode.data) BY DEF NoInode
<1>7. NoFile \in FileType BY DEF FileType
<1>. HIDE DEF NoInode, NoFile
<1>. QED BY <1>1, <1>2, <1>3, <1>5, <1>6, <1>7, Consts

LEMMA CrashKeeps == ASSUME Inv, Crash PROVE Inv'
<1>t. TypeOK /\ CallInv /\ DiskInv BY DEF Inv
<1>. DEFINE S == Orphans(disk)
<1>1. /\ \A p \in Proc : AtRest(p)
      /\ disk' = [i \in Inode |-> IF i \in S THEN NoInode ELSE disk[i]]
      /\ used' = used \ UNION {OwnBlocks(disk[i]) : i \in S}
      /\ lost' = Losing(S)
      /\ mem' = [i \in Inode |-> NoCopy]
      /\ ref' = [i \in Inode |-> IF i = ROOTINO THEN Cardinality(Proc) ELSE 0]
      /\ lock' = [i \in Inode |-> 0]
      /\ cwd' = [p \in Proc |-> ROOTINO]
      /\ file' = [p \in Proc |-> NoFile]
      /\ pr' = [p \in Proc |-> Idle(<<>>)]
  BY DEF Crash
<1>2. S \in SUBSET Inode /\ \A i \in S : disk[i].nlink = 0 BY DEF Orphans
<1>3. \A i \in Inode : disk[i].type # "FREE" /\ disk[i].nlink = 0 => i \in S BY DEF Orphans
<1>. HIDE DEF S
<1>4. \A p \in Proc : LinkOf(p)' = LinkOf(p)
  <2>. SUFFICES ASSUME NEW p \in Proc, NEW e, e = Idle(<<>>) PROVE LinkOf(p)' = LinkOf(p)
    OBVIOUS
  <2>1. pr'[p] = e BY <1>1
  <2>2. e.call = "none" BY IdleFields DEF IsIdle
  <2>3. pr[p].call = "none" BY <1>t, <1>1, ProcTypes DEF AtRest, CallOK
  <2>. QED BY <2>1, <2>2, <2>3 DEF LinkOf
<1>5. DiskInv' /\ TreeInv' /\ LinkInv' /\ lost' \in [Inode -> Nat]
  BY <1>1, <1>2, <1>4, RemoveTree
<1>6. BlocksOK(disk', used')
  <2>1. BlocksOK(disk, used) BY DEF Inv
  <2>. QED BY <1>1, <1>2, <2>1, RemoveBlocks
<1>7. TypeOK'
  <2>1. disk' \in [Inode -> InodeType] BY <1>t, <1>1, StartTypes DEF TypeOK
  <2>2. \A i \in Inode : disk'[i].size <= Len(disk'[i].data)
    <3>. SUFFICES ASSUME NEW i \in Inode PROVE disk'[i].size <= Len(disk'[i].data) OBVIOUS
    <3>1. CASE i \in S
      <4>1. disk'[i] = NoInode BY <1>1, <3>1
      <4>. QED BY <4>1, StartTypes
    <3>2. CASE i \notin S
      <4>1. disk'[i] = disk[i] BY <1>1, <3>2
      <4>. QED BY <1>t, <4>1 DEF TypeOK
    <3>. QED BY <3>1, <3>2
  <2>3. \A p \in Proc : Len(pr'[p].puts) <= 2
    <3>1. \A p \in Proc : pr'[p] = Idle(<<>>) BY <1>1
    <3>. QED BY <3>1, StartTypes
  <2>4. used' \subseteq Blocks BY <1>t, <1>1 DEF TypeOK
  <2>. QED BY <1>1, <1>5, <2>1, <2>2, <2>3, <2>4, StartTypes DEF TypeOK
<1>8. \A i \in Inode : disk'[i].type # "FREE" => disk'[i].nlink # 0
  <2>. SUFFICES ASSUME NEW i \in Inode, disk'[i].type # "FREE" PROVE disk'[i].nlink # 0
    OBVIOUS
  <2>1. NoInode.type = "FREE" BY DEF NoInode
  <2>2. i \notin S BY <1>1, <2>1
  <2>3. disk'[i] = disk[i] BY <1>1, <2>2
  <2>. QED BY <1>3, <2>2, <2>3
<1>9. Booted' BY <1>1, <1>5, <1>6, <1>7, <1>8 DEF Booted
<1>. QED BY <1>9, BootedInv, PTL

\* mkfs's root directory.
LEMMA RootOK ==
    /\ Root \in InodeType /\ Root.type = "DIR" /\ Root.nlink = 1 /\ Root.size = 1
    /\ Root.data = <<1>> /\ Root.ind = 0 /\ Len(Root.data) = 1
    /\ Root.ents[Dots] = ROOTINO /\ \A n \in Names : Root.ents[n] = 0
<1>. DEFINE IsRoot(z) ==
         /\ z \in InodeType /\ z.type = "DIR" /\ z.nlink = 1 /\ z.size = 1
         /\ z.data = <<1>> /\ z.ind = 0 /\ z.ents = [NoEnts EXCEPT ![Dots] = ROOTINO]
<1>1. [NoEnts EXCEPT ![Dots] = ROOTINO] \in [Entries -> 0 .. NINODES]
  BY Consts DEF NoEnts
<1>2. <<1>> \in Seq(Blocks) /\ Len(<<1>>) = 1 BY Consts
<1>3. 1 \in 0 .. MAXFILE /\ 1 \in Nat BY Consts
<1>4. NoInode \in InodeType /\ NoInode.ents = NoEnts /\ NoInode.ind = 0
  BY StartTypes DEF NoInode
<1>5. ASSUME NEW e, e = NoInode, NEW z, z = Root PROVE IsRoot(z)
  <2>1. z = [e EXCEPT !.type = "DIR", !.nlink = 1, !.size = 1, !.data = <<1>>,
                      !.ents[Dots] = ROOTINO]
    BY <1>5 DEF Root
  <2>2. e \in InodeType /\ e.ents = NoEnts /\ e.ind = 0 BY <1>4, <1>5
  <2>. QED BY <1>1, <1>2, <1>3, <2>1, <2>2 DEF InodeType, Types
<1>6. IsRoot(Root) BY <1>5
<1>7. /\ [NoEnts EXCEPT ![Dots] = ROOTINO][Dots] = ROOTINO
      /\ \A n \in Names : [NoEnts EXCEPT ![Dots] = ROOTINO][n] = 0
  BY Consts DEF NoEnts
<1>. QED BY <1>2, <1>6, <1>7

LEMMA InitInv == Init => Inv
<1>. SUFFICES ASSUME Init PROVE Inv OBVIOUS
<1>. SUFFICES ASSUME NEW e, e = Idle(<<>>) PROVE Inv OBVIOUS
<1>0. e.call = "none" /\ e.held = 0 BY IdleFields DEF IsIdle
<1>1. /\ disk[ROOTINO] = Root
      /\ \A i \in Inode : i # ROOTINO => disk[i] = NoInode
      /\ \A i \in Inode : disk[i] \in {Root, NoInode}
  BY Consts DEF Init
<1>2. NoInode.type = "FREE" /\ NoInode.nlink = 0 /\ NoInode.ents = NoEnts
      /\ NoInode.data = <<>> /\ NoInode.ind = 0
  BY DEF NoInode
<1>3. TypeOK
  <2>1. disk \in [Inode -> InodeType]
    <3>1. DOMAIN disk = Inode /\ disk = [i \in Inode |-> disk[i]] BY DEF Init
    <3>2. \A i \in Inode : disk[i] \in InodeType BY <1>1, RootOK, StartTypes
    <3>. QED BY <3>1, <3>2
  <2>2. \A i \in Inode : disk[i].size <= Len(disk[i].data)
    <3>1. Root.size <= Len(Root.data) BY RootOK
    <3>. QED BY <1>1, <3>1, StartTypes
  <2>3. \A p \in Proc : Len(pr[p].puts) <= 2
    <3>1. \A p \in Proc : pr[p] = Idle(<<>>) BY DEF Init
    <3>. QED BY <3>1, StartTypes
  <2>4. used \subseteq Blocks BY Consts DEF Init
  <2>5. lost \in [Inode -> Nat] BY DEF Init
  <2>. QED BY <2>1, <2>2, <2>3, <2>4, <2>5, StartTypes DEF TypeOK, Init
<1>4. \A x \in Name : NameIn(x) = 0
  <2>. SUFFICES ASSUME NEW x \in Name PROVE NameIn(x) = 0 OBVIOUS
  <2>1. x[1] \in Inode /\ x[2] \in Names BY DEF Name
  <2>2. CASE disk[x[1]] = Root BY <2>1, <2>2, RootOK DEF NameIn
  <2>3. CASE disk[x[1]] = NoInode BY <1>2, <2>3 DEF NameIn
  <2>. QED BY <1>1, <2>1, <2>2, <2>3
<1>5. DiskInv
  <2>1. \A i \in Inode : disk[i].type = "FREE" => disk[i] = NoInode BY <1>1, RootOK
  <2>2. \A i \in Inode : disk[i].type # "DIR" => disk[i].ents = NoEnts BY <1>1, <1>2, RootOK
  <2>3. disk[ROOTINO].type = "DIR" /\ disk[ROOTINO].ents[Dots] = ROOTINO BY <1>1, RootOK
  <2>. QED BY <2>1, <2>2, <2>3 DEF DiskInv
<1>6. TreeInv BY <1>4, Consts DEF TreeInv
<1>7. \A d \in Inode : ParentOf[d] = IF d = ROOTINO THEN ROOTINO ELSE 0
  <2>. SUFFICES ASSUME NEW d \in Inode
                PROVE  ParentOf[d] = IF d = ROOTINO THEN ROOTINO ELSE 0
    OBVIOUS
  <2>1. ParentOf[d] = IF InTree(d) THEN disk[d].ents[Dots] ELSE 0 BY DEF ParentOf
  <2>2. InTree(d) <=> d = ROOTINO BY <1>1, <1>2, RootOK DEF InTree
  <2>. QED BY <1>1, <2>1, <2>2, RootOK
<1>8. LinkInv
  <2>. SUFFICES ASSUME NEW i \in Inode
                PROVE  disk[i].nlink = Tally(Name, NameTo, i) + Tally(Inode, ParentOf, i)
                                       + Tally(Proc, LinkTo, i) + lost[i]
    BY DEF LinkInv
  <2>1. Tally(Name, NameTo, i) = 0
    <3>1. \A x \in Name : NameTo[x] # i BY <1>4, Consts DEF NameTo
    <3>. QED BY <3>1, FinitelyMany, TallyFew
  <2>. i # 0 BY Consts
  <2>2. Tally(Proc, LinkTo, i) = 0
    <3>1. \A p \in Proc : LinkTo[p] = LinkOf(p) BY DEF LinkTo
    <3>2. \A p \in Proc : pr[p] = e BY DEF Init
    <3>3. \A p \in Proc : LinkTo[p] # i
      BY ONLY <1>0, <3>1, <3>2, i # 0 DEF LinkOf
    <3>. QED BY ONLY <3>3, FinitelyMany, TallyFew
  <2>3. lost[i] = 0 BY DEF Init
  <2>4. CASE i = ROOTINO
    <3>1. {d \in Inode : ParentOf[d] = i} = {ROOTINO} BY <1>7, <2>4, Consts
    <3>2. Cardinality({ROOTINO}) = 1 BY FS_Singleton
    <3>3. Tally(Inode, ParentOf, i) = 1 BY <3>1, <3>2 DEF Tally
    <3>. QED BY <1>1, <2>1, <2>2, <2>3, <2>4, <3>3, RootOK
  <2>5. CASE i # ROOTINO
    <3>1. \A d \in Inode : ParentOf[d] # i BY <1>7, <2>5, Consts
    <3>2. Tally(Inode, ParentOf, i) = 0 BY <3>1, FinitelyMany, TallyFew
    <3>. QED BY <1>1, <1>2, <2>1, <2>2, <2>3, <2>5, <3>2
  <2>. QED BY <2>4, <2>5
<1>9. BlocksOK(disk, used)
  <2>1. OwnBlocks(NoInode) = {} /\ Apart(NoInode) BY <1>2, EmptyInode
  <2>2. OwnBlocks(Root) = {1}
    <3>1. Root.data = <<1>> /\ Root.ind = 0 BY RootOK
    <3>2. DOMAIN <<1>> = {1} /\ <<1>>[1] = 1 OBVIOUS
    <3>. QED BY <3>1, <3>2 DEF OwnBlocks
  <2>3. Apart(Root) BY RootOK DEF Apart
  <2>4. used = {1} BY DEF Init
  <2>5. \A i \in Inode : OwnBlocks(disk[i]) = IF i = ROOTINO THEN {1} ELSE {}
    BY <1>1, <2>1, <2>2
  <2>6. \A i \in Inode : Apart(disk[i]) BY <1>1, <2>1, <2>3
  <2>7. UNION {OwnBlocks(disk[i]) : i \in Inode} = {1} BY <2>5, Consts
  <2>. QED BY <2>4, <2>5, <2>6, <2>7 DEF BlocksOK
<1>10. \A i \in Inode : disk[i].type # "FREE" => disk[i].nlink # 0 BY <1>1, <1>2, RootOK
<1>11. Booted BY <1>3, <1>5, <1>6, <1>8, <1>9, <1>10 DEF Booted, Init
<1>. QED BY <1>11, BootedInv

LEMMA StutterKeeps == ASSUME Inv, UNCHANGED vars PROVE Inv'
<1>1. /\ disk' = disk /\ mem' = mem /\ ref' = ref /\ lock' = lock /\ used' = used
      /\ cwd' = cwd /\ file' = file /\ pr' = pr /\ lost' = lost
  BY DEF vars
<1>2. \A p \in Proc : Put(p, 1)' = Put(p, 1) /\ Put(p, 2)' = Put(p, 2) BY <1>1 DEF Put
<1>3. \A x \in Slot : Ref(x)' = Ref(x) /\ Kind(x)' = Kind(x)
  <2>. SUFFICES ASSUME NEW x \in Slot PROVE Ref(x)' = Ref(x) /\ Kind(x)' = Kind(x) OBVIOUS
  <2>. QED BY <1>1 DEF Ref, RefIn, Put, Kind
<1>4. TypeOK' /\ CallInv' BY <1>1 DEF Inv, TypeOK, CallInv
<1>5. RefInv'
  <2>1. Held' = Held BY <1>3 DEF Held
  <2>. QED BY <1>1, <2>1 DEF Inv, RefInv
<1>6. SoleInv' BY <1>3 DEF Inv, SoleInv
<1>7. AllocInv' /\ SpecialInv' BY <1>1, <1>3 DEF Inv, AllocInv, SpecialInv
<1>8. LockInv' BY <1>1, <1>2 DEF Inv, LockInv, Locks
<1>9. \A i \in Inode : (Freeing(i)' <=> Freeing(i)) /\ (Creating(i)' <=> Creating(i))
  BY <1>1, <1>2 DEF Freeing, Creating
<1>10. MemInv' /\ OrphanInv' BY <1>1, <1>9 DEF Inv, MemInv, OrphanInv
<1>11. WorkInv' BY <1>1 DEF Inv, WorkInv, WorkOK
<1>12. DiskInv' /\ BlocksOK(disk', used') BY <1>1 DEF Inv, DiskInv
<1>13. \A x \in Name : NameIn(x)' = NameIn(x) BY <1>1 DEF NameIn
<1>14. TreeInv' BY <1>1, <1>13 DEF Inv, TreeInv
<1>15. NameTo' = NameTo BY <1>13 DEF NameTo
<1>16. ParentOf' = ParentOf
  <2>1. \A d \in Inode : InTree(d)' <=> InTree(d) BY <1>1, <1>13 DEF InTree
  <2>. QED BY <1>1, <2>1 DEF ParentOf
<1>17. LinkTo' = LinkTo BY <1>1 DEF LinkTo, LinkOf
<1>18. LinkInv' BY <1>1, <1>15, <1>16, <1>17 DEF Inv, LinkInv
<1>. QED BY <1>4, <1>5, <1>6, <1>7, <1>8, <1>10, <1>11, <1>12, <1>14, <1>18 DEF Inv

LEMMA NextKeeps == ASSUME NoDots, Inv, [Next]_vars PROVE Inv'
<1>1. CASE UNCHANGED vars BY <1>1, StutterKeeps
<1>2. CASE Crash BY <1>2, CrashKeeps
<1>3. ASSUME NEW p \in Proc, Start(p) PROVE Inv'
  <2>1. PICK start \in {ROOTINO, cwd[p]}, path \in Paths :
            \/ \E call \in Calls \ {"link"} : Begin(p, call, start, path, <<>>)
            \/ \E call \in Calls \cap {"link"}, new \in Paths : Begin(p, call, start, path, new)
    BY <1>3 DEF Start
  <2>2. \E call \in Calls, new \in Paths \cup {<<>>} : Begin(p, call, start, path, new)
    BY <2>1
  <2>3. PICK call \in Calls, new \in Paths \cup {<<>>} : Begin(p, call, start, path, new)
    BY <2>2
  <2>. QED BY <2>3, BeginKeeps
<1>4. ASSUME NEW p \in Proc, Step(p) PROVE Inv'
  <2>1. CASE IputDrop(p) BY <2>1, IputDropKeeps
  <2>2. CASE IputFree(p) BY <2>2, IputFreeKeeps
  <2>3. CASE IputUnlock(p) \/ IputEnd(p) BY <2>3, IputUnlockKeeps, IputEndKeeps
  <2>4. CASE Walk(p) BY <2>4, WalkStepKeeps
  <2>5. CASE Open(p) BY <2>5, OpenKeeps
  <2>6. CASE Chdir(p) BY <2>6, ChdirKeeps
  <2>7. CASE CreateFound(p) BY <2>7, CreateFoundKeeps
  <2>8. CASE CreateExists(p) BY <2>8, CreateExistsKeeps
  <2>9. CASE Ialloc(p) BY <2>9, IallocKeeps
  <2>10. CASE CreateInit(p) BY <2>10, CreateInitKeeps
  <2>11. CASE UnlinkLookup(p) BY <2>11, UnlinkLookupKeeps
  <2>12. CASE Unlink(p) BY <2>12, UnlinkKeeps
  <2>13. CASE \E start \in {ROOTINO, cwd[p]} : Link(p, start) BY <2>13, LinkKeeps
  <2>14. CASE LinkEntry(p) BY <2>14, LinkEntryKeeps
  <2>15. CASE LinkBad(p) BY <2>15, LinkBadInv
  <2>. QED BY <1>4, <2>1, <2>2, <2>3, <2>4, <2>5, <2>6, <2>7, <2>8, <2>9, <2>10, <2>11,
              <2>12, <2>13, <2>14, <2>15 DEF Step
<1>5. ASSUME NEW p \in Proc, Close(p) \/ Read(p) PROVE Inv'
  BY <1>5, CloseKeeps, ReadKeeps
<1>6. ASSUME NEW p \in Proc, NEW n \in 1 .. MaxWrite, NEW m \in 0 .. n, Write(p, n, m)
      PROVE  Inv'
  BY <1>6, WriteKeeps
<1>. QED BY <1>1, <1>2, <1>3, <1>4, <1>5, <1>6 DEF Next

\* Without ".." in the paths, the invariant holds in every state.
LEMMA Inductive == ASSUME NoDots PROVE Spec => []Inv
<1>1. Init => Inv BY InitInv
<1>2. Inv /\ [Next]_vars => Inv' BY NextKeeps
<1>. QED BY <1>1, <1>2, PTL DEF Spec

----------------------------------------------------------------------------
(* What the invariant means                                                *)

\* The sets that LinkCounts counts are those of the invariant.
LEMMA CountedLinks ==
    ASSUME TypeOK, NEW i \in Inode
    PROVE  /\ Cardinality(Named(i)) = Tally(Name, NameTo, i)
           /\ Cardinality(Below(i)) = Tally(Inode, ParentOf, i)
           /\ Cardinality(Linking(i)) = Tally(Proc, LinkTo, i)
<1>0. i # 0 BY Consts
<1>1. ASSUME NEW j \in Inode PROVE Named(j) = {x \in Name : NameTo[x] = j}
  <2>1. j # 0 BY Consts
  <2>2. \A x \in AllocatedDirs \X Names : x \in Name /\ disk[x[1]].type = "DIR"
    BY DEF AllocatedDirs, Name
  <2>3. \A x \in Name : disk[x[1]].type = "DIR" => x \in AllocatedDirs \X Names
    BY DEF AllocatedDirs, Name
  <2>4. \A x \in Name : NameTo[x] = NameIn(x) BY DEF NameTo
  <2>. QED BY <2>1, <2>2, <2>3, <2>4 DEF Named, NameIn
<1>2. Below(i) = {d \in Inode : ParentOf[d] = i}
  <2>1. ASSUME NEW d \in Inode PROVE Named(d) # {} <=> \E x \in Name : NameIn(x) = d
    <3>1. \A x \in Name : NameTo[x] = NameIn(x) BY DEF NameTo
    <3>. QED BY <1>1, <3>1
  <2>2. \A d \in Inode : ParentOf[d] = IF InTree(d) THEN disk[d].ents[Dots] ELSE 0
    BY DEF ParentOf
  <2>3. \A d \in Inode :
            InTree(d) <=> d \in AllocatedDirs /\ (d = ROOTINO \/ Named(d) # {})
    BY <2>1 DEF InTree, AllocatedDirs
  <2>4. AllocatedDirs \subseteq Inode BY DEF AllocatedDirs
  <2>. QED BY <1>0, <2>2, <2>3, <2>4 DEF Below
<1>3. Linking(i) = {p \in Proc : LinkTo[p] = i}
  <2>1. \A p \in Proc : LinkTo[p] = LinkOf(p) BY DEF LinkTo
  <2>. QED BY <1>0, <2>1 DEF Linking, LinkOf
<1>. QED BY <1>1, <1>2, <1>3 DEF Tally

LEMMA LinkCountsInv == Inv => LinkCounts
<1>. SUFFICES ASSUME Inv, NEW i \in Inode
              PROVE  disk[i].nlink = Cardinality(Named(i)) + Cardinality(Below(i))
                                     + Cardinality(Linking(i)) + lost[i]
  BY DEF LinkCounts
<1>1. TypeOK /\ LinkInv BY DEF Inv
<1>2. disk[i].nlink = Tally(Name, NameTo, i) + Tally(Inode, ParentOf, i)
                      + Tally(Proc, LinkTo, i) + lost[i]
  BY <1>1 DEF LinkInv
<1>. QED BY <1>1, <1>2, CountedLinks

\* No inode becomes an orphan in a step that lowers no count and writes only inodes that
\* have references.
Tame == \A i \in Inode : ref'[i] >= ref[i] /\ (disk'[i] = disk[i] \/ ref'[i] > 0)

NewOrphan(i) == ~Orphan(i) /\ Orphan(i)'

LEMMA TameOK == ASSUME TypeOK, Tame PROVE \A i \in Inode : ~NewOrphan(i)
<1>1. \A i \in Inode : ref[i] \in Nat BY DEF TypeOK
<1>. QED BY <1>1 DEF Tame, NewOrphan, Orphan

\* p has references to its inodes.
LEMMA OwnPositive ==
    ASSUME Inv, NEW p \in Proc
    PROVE  /\ file[p].ip \in Inode => ref[file[p].ip] > 0
           /\ pr[p].ip \in Inode => ref[pr[p].ip] > 0
           /\ pr[p].held \in Inode => ref[pr[p].held] > 0
<1>1. TypeOK /\ RefInv BY DEF Inv
<1>. QED BY <1>1, OwnSlots, RefPositive

\* The iput() of an inode without links frees it: whoever creates it has the only other
\* reference to it.
LEMMA DropKeepsNone ==
    ASSUME Inv, NEW p \in Proc, IputDrop(p), NEW i \in Inode PROVE ~NewOrphan(i)
<1>. SUFFICES ASSUME NewOrphan(i) PROVE FALSE OBVIOUS
<1>. DEFINE h == Head(pr[p].puts)
<1>t. TypeOK /\ CallInv /\ MemInv /\ OrphanInv /\ RefInv BY DEF Inv
<1>1. /\ Putting(p) /\ ~Last(h) /\ disk' = disk /\ ref' = [ref EXCEPT ![h] = @ - 1]
  BY DEF IputDrop
<1>2. pr[p].puts # <<>> /\ pr[p].iput = "no" BY <1>1 DEF Putting
<1>3. h = Put(p, 1) /\ h \in Inode /\ pr[p].pc \notin {"at", "init", "unlink"}
  BY <1>t, <1>2, PutHead
<1>4. \A j \in Inode : ref[j] \in Nat BY <1>t DEF TypeOK
<1>5. disk[i].type # "FREE" /\ disk[i].nlink = 0 /\ ref[i] # 0 /\ ref'[i] = 0
  BY <1>1 DEF NewOrphan, Orphan
<1>. HIDE DEF h
<1>6. i = h /\ ref[i] = 1 BY <1>t, <1>1, <1>3, <1>4, <1>5 DEF TypeOK
<1>7. (mem[i] # NoCopy /\ ~Freeing(i)) \/ Creating(i) BY <1>t, <1>5, <1>6 DEF OrphanInv
<1>8. CASE Creating(i)
  <2>1. PICK q \in Proc : pr[q].pc = "init" /\ pr[q].held = i BY <1>8 DEF Creating
  <2>2. q # p BY <1>3, <2>1
  <2>3. <<q, "held">> \in Slot /\ Ref(<<q, "held">>) = i /\ Kind(<<q, "held">>) = "new"
    BY <2>1, OwnSlots
  <2>4. Plain(p, i)
    <3>1. Good(p, i) BY <1>2, <1>3, <1>6, OwnGood
    <3>. QED BY <3>1, Consts DEF Good
  <2>. QED BY <2>2, <2>3, <2>4 DEF Plain, Special
<1>9. CASE mem[i] # NoCopy /\ ~Freeing(i)
  <2>1. mem[i] = disk[i] BY <1>t, <1>9 DEF MemInv
  <2>. QED BY <1>1, <1>5, <1>6, <1>9, <2>1 DEF Last
<1>. QED BY <1>7, <1>8, <1>9

LEMMA FreeKeepsNone ==
    ASSUME Inv, NEW p \in Proc, IputFree(p), NEW i \in Inode PROVE ~NewOrphan(i)
<1>. DEFINE h == Head(pr[p].puts)
<1>t. TypeOK BY DEF Inv
<1>1. disk' = [disk EXCEPT ![h] = NoInode] /\ ref' = ref BY DEF IputFree, Store
<1>. HIDE DEF h
<1>2. CASE i = h BY <1>t, <1>1, <1>2 DEF TypeOK, NewOrphan, Orphan, NoInode
<1>3. CASE i # h BY <1>t, <1>1, <1>3 DEF TypeOK, NewOrphan, Orphan
<1>. QED BY <1>2, <1>3

\* The iput() that has freed the inode before makes one.
LEMMA EndMayLeave ==
    ASSUME Inv, NEW p \in Proc, IputEnd(p), NEW i \in Inode, NewOrphan(i)
    PROVE  /\ pr[p].iput = "dropping" /\ Head(pr[p].puts) = i
           /\ ref[i] = 1 /\ ref'[i] = 0
<1>. DEFINE h == Head(pr[p].puts)
<1>t. TypeOK BY DEF Inv
<1>1. /\ pr[p].iput = "dropping" /\ disk' = disk /\ ref' = [ref EXCEPT ![h] = @ - 1]
  BY DEF IputEnd
<1>2. ref[i] # 0 /\ ref'[i] = 0 BY <1>1 DEF NewOrphan, Orphan
<1>3. ref[i] \in Nat BY <1>t DEF TypeOK
<1>. HIDE DEF h
<1>4. i = h /\ ref[i] = 1 BY <1>t, <1>1, <1>2, <1>3 DEF TypeOK
<1>. QED BY <1>1, <1>2, <1>4 DEF h

\* The other steps of a call.
LEMMA CallTame ==
    ASSUME Inv, TypeOK', NEW p \in Proc,
           \A j \in Inode : ref'[j] >= ref[j],
           \A j \in Inode : \/ disk'[j] = disk[j] \/ ref'[j] > 0
                            \/ j \in {file[p].ip, pr[p].ip, pr[p].held}
    PROVE  Tame
<1>1. \A j \in Inode : ref[j] \in Nat /\ ref'[j] \in Nat BY DEF Inv, TypeOK
<1>2. ASSUME NEW j \in Inode PROVE disk'[j] = disk[j] \/ ref'[j] > 0
  <2>1. CASE j \in {file[p].ip, pr[p].ip, pr[p].held}
    <3>1. ref[j] > 0 BY <2>1, OwnPositive
    <3>2. ref'[j] >= ref[j] /\ ref[j] \in Nat /\ ref'[j] \in Nat BY <1>1
    <3>. QED BY <3>1, <3>2
  <2>. QED BY <2>1
<1>. QED BY <1>2 DEF Tame

\* iget() counts up.
LEMMA IgetGrows ==
    ASSUME TypeOK, NEW i
    PROVE  /\ Iget(ref, i) \in [Inode -> Nat]
           /\ \A j \in Inode : Iget(ref, i)[j] >= ref[j]
           /\ \A j \in Inode : j = i => Iget(ref, i)[j] > 0
<1>1. ref \in [Inode -> Nat] BY DEF TypeOK
<1>2. ASSUME NEW j \in Inode
      PROVE  ref[j] \in Nat /\ Iget(ref, i)[j] = IF j = i THEN ref[j] + 1 ELSE ref[j]
  BY <1>1 DEF Iget
<1>3. Iget(ref, i) \in [Inode -> Nat]
  <2>1. Iget(ref, i) = [j \in Inode |-> IF j = i THEN ref[j] + 1 ELSE ref[j]]
    BY <1>1 DEF Iget
  <2>. QED BY <1>2, <2>1
<1>. QED BY <1>2, <1>3

LEMMA WalkTame ==
    ASSUME Inv, NEW p \in Proc, NEW r, NEW refs \in [Inode -> Nat],
           \A j \in Inode : refs[j] >= ref[j], WalkStep(p, r, refs)
    PROVE  Tame
<1>1. disk' = disk BY DEF WalkStep
<1>2. ref' = refs \/ \E next : ref' = Iget(refs, next) BY DEF WalkStep
<1>3. \A j \in Inode : ref[j] \in Nat BY DEF Inv, TypeOK
<1>4. \A j \in Inode : ref'[j] >= ref[j]
  <2>1. CASE ref' = refs BY <2>1
  <2>2. ASSUME NEW next, ref' = Iget(refs, next) PROVE \A j \in Inode : ref'[j] >= ref[j]
    <3>1. \A j \in Inode : ref'[j] \in {refs[j], refs[j] + 1} BY <2>2 DEF Iget
    <3>. QED BY <1>3, <3>1
  <2>. QED BY <1>2, <2>1, <2>2
<1>. QED BY <1>1, <1>4 DEF Tame

LEMMA StepTame ==
    ASSUME Inv, TypeOK', NEW p \in Proc,
           Step(p), ~IputDrop(p), ~IputFree(p), ~IputEnd(p)
    PROVE  Tame
<1>t. TypeOK BY DEF Inv
<1>0. ref \in [Inode -> Nat] /\ DOMAIN disk = Inode BY <1>t DEF TypeOK
<1>r. \A j \in Inode : ref[j] >= ref[j] BY <1>0
<1>1. CASE IputUnlock(p) BY <1>1, <1>0, <1>r DEF IputUnlock, Tame
<1>2. CASE Walk(p)
  <2>1. WalkStep(p, pr[p], ref) BY <1>2 DEF Walk
  <2>. QED BY <1>0, <1>r, <2>1, WalkTame
<1>3. CASE Open(p)
  <2>1. ref' = ref BY <1>3 DEF Open
  <2>2. \A j \in Inode : disk'[j] = disk[j] \/ j = pr[p].ip
    BY <1>0, <1>3 DEF Open, Opened, Store
  <2>. QED BY <1>r, <2>1, <2>2, CallTame
<1>4. CASE Chdir(p) BY <1>0, <1>r, <1>4 DEF Chdir, Tame
<1>5. CASE CreateFound(p)
  <2>1. disk' = disk /\ \E i : ref' = Iget(ref, i) BY <1>5 DEF CreateFound
  <2>. QED BY <1>t, <2>1, IgetGrows DEF Tame
<1>6. CASE CreateExists(p)
  <2>1. ref' = ref BY <1>6 DEF CreateExists
  <2>2. \A j \in Inode : disk'[j] = disk[j] \/ j = pr[p].ip
    BY <1>0, <1>6 DEF CreateExists, Opened, Store
  <2>. QED BY <1>r, <2>1, <2>2, CallTame
<1>7. CASE Ialloc(p)
  <2>1. CASE disk' = disk /\ ref' = ref BY <1>r, <2>1 DEF Tame
  <2>2. ASSUME NEW i, NEW ino, disk' = [disk EXCEPT ![i] = ino], ref' = Iget(ref, i) PROVE Tame
    <3>1. \A j \in Inode : disk'[j] = disk[j] \/ j = i BY <1>0, <2>2
    <3>. QED BY <1>t, <2>2, <3>1, IgetGrows DEF Tame
  <2>3. \/ disk' = disk /\ ref' = ref
        \/ \E i, ino : disk' = [disk EXCEPT ![i] = ino] /\ ref' = Iget(ref, i)
    BY <1>7 DEF Ialloc
  <2>. QED BY <2>1, <2>2, <2>3
<1>8. CASE CreateInit(p)
  <2>1. ref' = ref BY <1>8 DEF CreateInit
  <2>2. \A j \in Inode : disk'[j] = disk[j] \/ j \in {pr[p].ip, pr[p].held}
    <3>1. \/ \E a, b : StoreBoth(pr[p].held, a, pr[p].ip, b)
          \/ \E a : Store(pr[p].held, a)
      BY <1>8, Zenon DEF CreateInit
    <3>. QED BY <1>0, <3>1 DEF StoreBoth, Store
  <2>. QED BY <1>r, <2>1, <2>2, CallTame
<1>9. CASE UnlinkLookup(p)
  <2>1. disk' = disk /\ (ref' = ref \/ \E i : ref' = Iget(ref, i)) BY <1>9 DEF UnlinkLookup
  <2>. QED BY <1>t, <1>r, <2>1, IgetGrows DEF Tame
<1>10. CASE Unlink(p)
  <2>1. ref' = ref BY <1>10 DEF Unlink
  <2>2. \A j \in Inode : disk'[j] = disk[j] \/ j \in {pr[p].ip, pr[p].held}
    BY <1>0, <1>10 DEF Unlink, StoreBoth
  <2>. QED BY <1>r, <2>1, <2>2, CallTame
<1>11. ASSUME NEW start, Link(p, start) PROVE Tame
  <2>1. ref' = ref \/ ref' = Iget(ref, start) BY <1>11 DEF Link
  <2>2. \A j \in Inode : disk'[j] = disk[j] \/ j = pr[p].ip BY <1>0, <1>11 DEF Link, Store
  <2>3. \A j \in Inode : ref'[j] >= ref[j] BY <1>t, <1>r, <2>1, IgetGrows
  <2>. QED BY <2>2, <2>3, CallTame
<1>12. CASE LinkEntry(p)
  <2>1. ref' = ref BY <1>12 DEF LinkEntry
  <2>2. \A j \in Inode : disk'[j] = disk[j] \/ j = pr[p].ip
    BY <1>0, <1>12 DEF LinkEntry, Store
  <2>. QED BY <1>r, <2>1, <2>2, CallTame
<1>13. CASE LinkBad(p)
  <2>1. ref' = ref BY <1>13 DEF LinkBad
  <2>2. \A j \in Inode : disk'[j] = disk[j] \/ j = pr[p].held
    BY <1>0, <1>13 DEF LinkBad, Store
  <2>. QED BY <1>r, <2>1, <2>2, CallTame
<1>. QED BY <1>1, <1>2, <1>3, <1>4, <1>5, <1>6, <1>7, <1>8, <1>9, <1>10, <1>11, <1>12, <1>13
         DEF Step

\* The steps that make an orphan are the one that OrphansByRace allows.
LEMMA OrphansByRaceStep ==
    ASSUME Inv, Inv', [Next]_vars, NEW i \in Inode, NewOrphan(i)
    PROVE  \E p \in Proc : /\ pr[p].iput = "dropping" /\ Head(pr[p].puts) = i
                           /\ ref[i] = 1 /\ ref'[i] = 0
<1>. DEFINE Allowed == \E p \in Proc : /\ pr[p].iput = "dropping" /\ Head(pr[p].puts) = i
                                        /\ ref[i] = 1 /\ ref'[i] = 0
<1>t. TypeOK /\ TypeOK' BY DEF Inv
<1>r. \A j \in Inode : ref[j] \in Nat /\ ref[j] >= ref[j] BY <1>t DEF TypeOK
<1>0. ~Tame BY <1>t, TameOK
<1>1. CASE UNCHANGED vars BY <1>0, <1>1, <1>r DEF vars, Tame
<1>2. CASE Crash
  <2>1. disk'[i] = IF i \in Orphans(disk) THEN NoInode ELSE disk[i] BY <1>2 DEF Crash
  <2>2. disk'[i].type # "FREE" /\ disk'[i].nlink = 0 BY DEF NewOrphan, Orphan
  <2>3. i \notin Orphans(disk) BY <2>1, <2>2 DEF NoInode
  <2>. QED BY <2>1, <2>2, <2>3 DEF Orphans
<1>3. ASSUME NEW p \in Proc, Start(p) PROVE Allowed
  <2>1. \E call, start, path, new : Begin(p, call, start, path, new) BY <1>3 DEF Start
  <2>2. \E start, r : WalkStep(p, r, Iget(ref, start)) BY <2>1 DEF Begin
  <2>. QED BY <1>t, <1>0, <2>2, IgetGrows, WalkTame
<1>4. ASSUME NEW p \in Proc, Step(p) PROVE Allowed
  <2>1. CASE IputDrop(p) BY <2>1, DropKeepsNone
  <2>2. CASE IputFree(p) BY <2>2, FreeKeepsNone
  <2>3. CASE IputEnd(p) BY <2>3, EndMayLeave
  <2>. QED BY <1>t, <1>0, <1>4, <2>1, <2>2, <2>3, StepTame
<1>5. ASSUME NEW p \in Proc, Close(p) \/ Read(p) PROVE Allowed
  BY <1>0, <1>5, <1>r DEF Close, Read, Tame
<1>6. ASSUME NEW p \in Proc, NEW n, NEW m, Write(p, n, m) PROVE Allowed
  <2>1. ref' = ref BY <1>6 DEF Write
  <2>2. \A j \in Inode : disk'[j] = disk[j] \/ j = file[p].ip
    BY <1>t, <1>6 DEF Write, Store, TypeOK
  <2>. QED BY <1>t, <1>0, <1>r, <2>1, <2>2, CallTame
<1>. QED BY <1>1, <1>2, <1>3, <1>4, <1>5, <1>6 DEF Next

LEMMA InodeRefsInv == Inv => InodeRefs
<1>. SUFFICES ASSUME Inv PROVE InodeRefs OBVIOUS
<1>1. TypeOK /\ RefInv BY DEF Inv
<1>3. \A i \in Inode : ref[i] = Cardinality({x \in Proc \X Slots : RefIn(x[1], x[2]) = i})
  <2>. SUFFICES ASSUME NEW i \in Inode
                PROVE  ref[i] = Cardinality({x \in Proc \X Slots : RefIn(x[1], x[2]) = i})
    OBVIOUS
  <2>1. \A x \in Slot : Held[x] = RefIn(x[1], x[2]) BY DEF Held, Ref
  <2>2. {x \in Slot : Held[x] = i} = {x \in Slot : RefIn(x[1], x[2]) = i} BY <2>1
  <2>3. ref[i] = Cardinality({x \in Slot : Held[x] = i}) BY <1>1 DEF RefInv, Tally
  <2>. QED BY <2>2, <2>3 DEF Slot
<1>4. ASSUME NEW p \in Proc, Putting(p), Last(Head(pr[p].puts))
      PROVE  CanLock(p, Head(pr[p].puts))
  <2>1. Head(pr[p].puts) = Put(p, 1) /\ lock[Put(p, 1)] \in {0, p} BY <1>4, LastRef
  <2>. QED BY <2>1 DEF CanLock
<1>. QED BY <1>3, <1>4 DEF InodeRefs

LEMMA AllocatedRefsInv == Inv => AllocatedRefs
<1>. SUFFICES ASSUME Inv, NEW p \in Proc,
                     NEW i \in {cwd[p], file[p].ip, pr[p].ip, pr[p].held} \ {0}
              PROVE  disk[i].type # "FREE"
  BY DEF AllocatedRefs
<1>1. TypeOK /\ AllocInv BY DEF Inv
<1>. QED BY <1>1, OwnRefs

\* Where no block is twice in an inode, it has as many as its parts say.
LEMMA ApartCount ==
    ASSUME NEW ino \in InodeType, Apart(ino)
    PROVE  Cardinality(OwnBlocks(ino)) = Len(ino.data) + Cardinality({ino.ind} \ {0})
<1>. DEFINE n == Len(ino.data)
            D == {ino.data[k] : k \in DOMAIN ino.data}
            I == {ino.ind} \ {0}
<1>1. /\ ino.data \in Seq(Blocks) /\ n \in Nat /\ DOMAIN ino.data = 1 .. n
      /\ \A k \in 1 .. n : ino.data[k] \in Blocks
  BY DEF InodeType
<1>2. IsFiniteSet(D) /\ Cardinality(D) = n
  <2>. DEFINE f == [k \in 1 .. n |-> ino.data[k]]
  <2>1. D = {ino.data[k] : k \in 1 .. n} BY <1>1
  <2>2. f \in [1 .. n -> D] BY <2>1
  <2>3. \A t \in D : \E k \in 1 .. n : f[k] = t BY <2>1
  <2>4. \A j, k \in 1 .. n : f[j] = f[k] => j = k BY <1>1 DEF Apart
  <2>. HIDE DEF f, D
  <2>5. f \in Bijection(1 .. n, D)
    BY <2>2, <2>3, <2>4 DEF Bijection, Injection, Surjection, IsInjective
  <2>6. ExistsBijection(1 .. n, D) BY <2>5 DEF ExistsBijection
  <2>7. IsFiniteSet(1 .. n) BY <1>1, FS_Interval
  <2>. HIDE DEF n
  <2>8. IsFiniteSet(D) BY <2>6, <2>7, FS_Bijection
  <2>9. Cardinality(D) = n BY <1>1, <2>6, FS_CountingElements
  <2>. QED BY <2>8, <2>9
<1>3. IsFiniteSet(I)
  <2>1. IsFiniteSet({ino.ind}) BY FS_Singleton
  <2>. QED BY <2>1, FS_Subset
<1>4. D \cap I = {} BY DEF Apart
<1>5. OwnBlocks(ino) = D \cup I BY DEF OwnBlocks
<1>. HIDE DEF D, I, n
<1>6. Cardinality(D \cup I) = Cardinality(D) + Cardinality(I) - Cardinality(D \cap I)
  BY <1>2, <1>3, FS_Union
<1>7. Cardinality(D \cap I) = 0 BY <1>4, FS_EmptySet
<1>8. Cardinality(I) \in Nat BY <1>3, FS_CardinalityType
<1>. QED BY <1>1, <1>2, <1>5, <1>6, <1>7, <1>8 DEF n, I

LEMMA BlocksExactInv == Inv => BlocksExact
<1>. SUFFICES ASSUME Inv PROVE BlocksExact OBVIOUS
<1>1. TypeOK /\ BlocksOK(disk, used) BY DEF Inv
<1>2. \A i \in Inode : disk[i] \in InodeType BY <1>1 DEF TypeOK
<1>3. \A i \in Inode : Cardinality(OwnBlocks(disk[i])) =
                       Len(disk[i].data) + Cardinality({disk[i].ind} \ {0})
  BY <1>1, <1>2, ApartCount DEF BlocksOK
<1>. QED BY <1>1, <1>3 DEF BlocksOK, BlocksExact

LEMMA CopiesCurrentInv == Inv => CopiesCurrent
<1>. SUFFICES ASSUME Inv, NEW i \in Inode, mem[i] \notin {NoCopy, disk[i]}
              PROVE  \E p \in Proc : pr[p].iput = "freeing" /\ Head(pr[p].puts) = i
  BY DEF CopiesCurrent
<1>1. TypeOK /\ CallInv /\ MemInv BY DEF Inv
<1>2. PICK p \in Proc : pr[p].iput = "freeing" /\ Put(p, 1) = i BY <1>1 DEF MemInv, Freeing
<1>3. pr[p].puts # <<>> BY <1>1, <1>2, Unfreed
<1>4. Head(pr[p].puts) = i BY <1>1, <1>2, <1>3, PutHead
<1>. QED BY <1>2, <1>4

----------------------------------------------------------------------------
(* The theorems                                                            *)

\* The variables keep their types, whatever the calls do.
THEOREM TypeCorrect == ASSUME NoDots PROVE Spec => []TypeOK
<1>1. Spec => []Inv BY Inductive
<1>2. Inv => TypeOK BY DEF Inv
<1>. QED BY <1>1, <1>2, PTL

\* The link count of every inode is the number of its names, of its subdirectories, of the
\* link() calls in progress and of the names lost with a removed directory: sys_link()
\* raises it before the name is there, create() and sys_unlink() change two inodes, and
\* each of them may fail half way.
THEOREM LinkCountsHolds == ASSUME NoDots PROVE Spec => []LinkCounts
<1>1. Spec => []Inv BY Inductive
<1>. QED BY <1>1, LinkCountsInv, PTL

\* An inode without links is freed with its last reference, whatever fails: only the iput()
\* that has freed an inode, and drops its reference after somebody else has allocated it
\* again, leaves one allocated without name and reference.  For paths without "..".
THEOREM OrphansByRaceHolds == ASSUME NoDots PROVE Spec => OrphansByRace
<1>1. Spec => []Inv BY Inductive
<1>2. ASSUME Inv, Inv', [Next]_vars
      PROVE  \A i \in Inode :
                 ~Orphan(i) /\ Orphan(i)' =>
                     \E p \in Proc : /\ pr[p].iput = "dropping" /\ Head(pr[p].puts) = i
                                    /\ ref[i] = 1 /\ ref'[i] = 0
  BY <1>2, OrphansByRaceStep DEF NewOrphan
<1>. QED BY <1>1, <1>2, PTL DEF Spec, OrphansByRace

\* ip->ref counts the references that processes have, and the iput() that finds the last
\* one of an inode without links can take its lock at once, as the comment in kernel/fs.c
\* has it.  For paths without "..".
THEOREM InodeRefsHolds == ASSUME NoDots PROVE Spec => []InodeRefs
<1>1. Spec => []Inv BY Inductive
<1>. QED BY <1>1, InodeRefsInv, PTL

\* As long as no path has a "..", which a removed directory keeps without a reference, a
\* process only refers to allocated inodes: no open file is freed under its reader.
THEOREM AllocatedRefsHolds == ASSUME NoDots PROVE Spec => []AllocatedRefs
<1>1. Spec => []Inv BY Inductive
<1>. QED BY <1>1, AllocatedRefsInv, PTL

\* The bitmap marks the blocks of the inodes, each in one place of one inode: bmap(),
\* writei(), dirlink() and itrunc() neither lose nor share a block.
THEOREM BlocksExactHolds == ASSUME NoDots PROVE Spec => []BlocksExact
<1>1. Spec => []Inv BY Inductive
<1>. QED BY <1>1, BlocksExactInv, PTL

\* The inode table's copy is the disk's until iput() frees the inode.
THEOREM CopiesCurrentHolds == ASSUME NoDots PROVE Spec => []CopiesCurrent
<1>1. Spec => []Inv BY Inductive
<1>. QED BY <1>1, CopiesCurrentInv, PTL

=============================================================================
