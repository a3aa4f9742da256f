------------------------------- MODULE Inodes -------------------------------
(***************************************************************************)
(* Inodes, directories and the system calls on them in the xv6 kernel      *)
(* (kernel/fs.c and kernel/sysfile.c).  Processes walk paths, create, link *)
(* and unlink files and directories, and keep references to inodes by open *)
(* files and current directories, so that an inode may outlive its name.   *)
(*                                                                         *)
(* A step is what a process does between taking an inode's sleep-lock and  *)
(* giving it up, or under itable.lock; unlink() and create() keep the      *)
(* directory locked over two steps, and the iput() that frees an inode is  *)
(* three, since others may take the inode once it is free on the disk, and *)
(* lock it before ref--.  The inode table is indexed by inode number       *)
(* (iget() keeps one entry per inode).                                     *)
(* Sizes are in blocks.  The log makes a crash lose the calls of the last  *)
(* group only (module Log), so the disk after a crash is one that was      *)
(* there while no call was in progress.                                    *)
(***************************************************************************)
EXTENDS Integers, Sequences, FiniteSets

CONSTANTS
    Proc,
    NINODES,        \* sb.ninodes - 1: inodes 1 .. NINODES on the disk
    Names,          \* names of directory entries
    Calls,          \* system calls made, of those below
    Paths,          \* paths given to system calls, relative to "/" or to the cwd
    NBLOCKS,        \* data blocks of the disk
    NDIRECT,        \* direct blocks of an inode
    NINDIRECT,      \* entries of its indirect block
    DIRENTS,        \* directory entries in a block, "." and ".." included
    MaxWrite        \* blocks of a write()

ASSUME InodesAssumption ==
    /\ 0 \notin Proc /\ IsFiniteSet(Proc)
    /\ IsFiniteSet(Names) /\ ".." \notin Names
    /\ Paths \subseteq Seq(Names \cup {".."})
    /\ Calls \subseteq {"open", "rdonly", "trunc", "create", "mkdir", "mknod", "unlink",
                        "link", "chdir"}
    /\ NINODES \in Nat \ {0} /\ NBLOCKS \in Nat \ {0}
    /\ NDIRECT \in Nat \ {0} /\ NINDIRECT \in Nat
    /\ DIRENTS \in Nat \ {0, 1} /\ MaxWrite \in Nat \ {0}

ROOTINO == 1
Inode   == 1 .. NINODES
Blocks  == 1 .. NBLOCKS
MAXFILE == NDIRECT + NINDIRECT
Dots    == ".."
Entries == Names \cup {Dots}
Types   == {"FREE", "DIR", "FILE", "DEVICE"}

VARIABLES
    disk,           \* dinodes, as log_write() has left them in the cache
    mem,            \* the inode table's copy, NoCopy while ip->valid is 0
    ref,            \* ip->ref
    lock,           \* holder of ip->lock, 0 if it is free
    used,           \* the bitmap of data blocks
    cwd, file,      \* of a process: its directory and its open file
    pr,             \* the system call in progress
    lost            \* history: entries thrown away with their directory

vars == <<disk, mem, ref, lock, used, cwd, file, pr, lost>>

NoEnts  == [n \in Entries |-> 0]
NoInode == [type |-> "FREE", nlink |-> 0, ents |-> NoEnts, size |-> 0,
            data |-> <<>>, ind |-> 0]
NoCopy  == [NoInode EXCEPT !.type = "INVALID"]
NoFile  == [ip |-> 0, off |-> 0, writable |-> FALSE]

\* A process in no call; puts is what it still has to iunlockput().
Idle(puts) == [pc |-> "idle", call |-> "none", ip |-> 0, rest |-> <<>>, new |-> <<>>,
               held |-> 0, puts |-> puts, iput |-> "no"]

InodeType ==
    [type : Types, nlink : Nat, ents : [Entries -> 0 .. NINODES], size : 0 .. MAXFILE,
     data : Seq(Blocks), ind : 0 .. NBLOCKS]

CallType ==
    [pc : {"idle", "walk", "at", "exists", "init", "unlink", "bad"},
     call : Calls \cup {"none", "link2"}, ip : 0 .. NINODES, rest : Seq(Entries),
     new : Seq(Entries), held : 0 .. NINODES, puts : Seq(Inode),
     iput : {"no", "freeing", "dropping"}]

FileType == {NoFile} \cup [ip : Inode, off : 0 .. MAXFILE, writable : BOOLEAN]

TypeOK ==
    /\ disk \in [Inode -> InodeType] /\ mem \in [Inode -> InodeType \cup {NoCopy}]
    /\ \A i \in Inode : disk[i].size <= Len(disk[i].data)
    /\ ref \in [Inode -> Nat]
    /\ lock \in [Inode -> Proc \cup {0}]
    /\ used \subseteq Blocks
    /\ cwd \in [Proc -> Inode]
    /\ file \in [Proc -> FileType]
    /\ pr \in [Proc -> CallType] /\ \A p \in Proc : Len(pr[p].puts) <= 2
    /\ lost \in [Inode -> Nat]

\* The inode as ilock() makes it valid, and its storing with iupdate().
Ino(i) == IF mem[i] = NoCopy THEN disk[i] ELSE mem[i]
Load(i) == mem' = [mem EXCEPT ![i] = Ino(i)]
Store(i, ino) == disk' = [disk EXCEPT ![i] = ino] /\ mem' = [mem EXCEPT ![i] = ino]
StoreBoth(i, ino, d, dir) ==
    /\ disk' = [disk EXCEPT ![i] = ino, ![d] = dir]
    /\ mem' = [mem EXCEPT ![i] = ino, ![d] = dir]

\* iget() keeps one entry per inode, and counts one more reference to it.
Iget(refs, i) == [refs EXCEPT ![i] = @ + 1]

\* p may take or holds the lock.
CanLock(p, i) == lock[i] \in {0, p}

Free == Blocks \ used
Lowest(s) == CHOOSE b \in s : \A c \in s : b <= c
OwnBlocks(ino) == {ino.data[k] : k \in DOMAIN ino.data} \cup ({ino.ind} \ {0})

Files == <<cwd, file>>

\* Names that go away with the inodes of dirs, added to those lost before.
Losing(dirs) ==
    [j \in Inode |-> lost[j] +
        Cardinality({x \in dirs \X Names : disk[x[1]].ents[x[2]] = j})]

----------------------------------------------------------------------------
(* iput()                                                                  *)

\* Once the call has no lock to take, its references are put in order.
Putting(p) == pr[p].puts # <<>> /\ pr[p].iput = "no"

\* Mutant of Last: the test of a decrement that has not been made yet.
LastAfter(i) == ref[i] = 0 /\ mem[i] # NoCopy /\ mem[i].nlink = 0

\* Mutant of Last: links are looked at, references are not.
LastName(i) == mem[i] # NoCopy /\ mem[i].nlink = 0

\* The last reference to a valid inode without links.
Last(i) == ref[i] = 1 /\ mem[i] # NoCopy /\ mem[i].nlink = 0

\* iunlock(), if it is still locked, and ref--; iget() will give the entry of
\* an inode without references away, or read the inode again.
IputDrop(p) ==
    LET i == Head(pr[p].puts) IN
    /\ Putting(p)
    /\ ~Last(i)
    /\ ref' = [ref EXCEPT ![i] = @ - 1]
    /\ lock' = IF lock[i] = p THEN [lock EXCEPT ![i] = 0] ELSE lock
    /\ mem' = IF ref[i] = 1 THEN [mem EXCEPT ![i] = NoCopy] ELSE mem
    /\ pr' = [pr EXCEPT ![p].puts = Tail(@)]
    /\ UNCHANGED <<disk, used, Files, lost>>

\* The last reference to an inode without links: itrunc(), type = 0, iupdate().
IputFree(p) ==
    LET i == Head(pr[p].puts) IN
    /\ Putting(p)
    /\ Last(i)
    /\ lock' = [lock EXCEPT ![i] = p]
    /\ used' = used \ OwnBlocks(mem[i])
    /\ Store(i, NoInode)
    /\ lost' = Losing({i})
    /\ pr' = [pr EXCEPT ![p].iput = "freeing"]
    /\ UNCHANGED <<ref, Files>>

\* Mutant of IputUnlock: ip->valid stays 1.
IputUnlockValid(p) ==
    LET i == Head(pr[p].puts) IN
    /\ pr[p].iput = "freeing"
    /\ lock' = [lock EXCEPT ![i] = 0]
    /\ pr' = [pr EXCEPT ![p].iput = "dropping"]
    /\ UNCHANGED <<disk, mem, ref, used, Files, lost>>

\* ip->valid = 0, unlock.
IputUnlock(p) ==
    LET i == Head(pr[p].puts) IN
    /\ pr[p].iput = "freeing"
    /\ mem' = [mem EXCEPT ![i] = NoCopy]
    /\ lock' = [lock EXCEPT ![i] = 0]
    /\ pr' = [pr EXCEPT ![p].iput = "dropping"]
    /\ UNCHANGED <<disk, ref, used, Files, lost>>

\* ref--, whatever has become of the inode since it was freed.
IputEnd(p) ==
    LET i == Head(pr[p].puts) IN
    /\ pr[p].iput = "dropping"
    /\ ref' = [ref EXCEPT ![i] = @ - 1]
    /\ mem' = IF ref[i] = 1 THEN [mem EXCEPT ![i] = NoCopy] ELSE mem
    /\ pr' = [pr EXCEPT ![p].puts = Tail(@), ![p].iput = "no"]
    /\ UNCHANGED <<disk, lock, used, Files, lost>>

----------------------------------------------------------------------------
(* namex()                                                                 *)

\* The element of the path that skipelem() takes next.
Elem(r) == Head(r.rest)

AtRest(p) == pr[p].pc = "idle" /\ pr[p].puts = <<>>

Parent(call) == call \in {"unlink", "create", "mkdir", "mknod", "link2"}

\* Mutant of Fail: the directory is not put.
FailKeeps(r, puts) ==
    IF r.call = "link2" THEN [r EXCEPT !.pc = "bad", !.ip = 0, !.rest = <<>>]
                        ELSE Idle(<<>>)

\* Where a call that cannot find its path ends: link() has to undo its nlink++.
Fail(r, puts) ==
    IF r.call = "link2" THEN [r EXCEPT !.pc = "bad", !.ip = 0, !.rest = <<>>, !.puts = puts]
                        ELSE Idle(puts)

\* One element of the walk of call r: lock the directory, look the name up, unlock and
\* put it; refs are the reference counts before.
WalkStep(p, r, refs) ==
    LET stop == Parent(r.call) /\ Len(r.rest) = 1
        next == Ino(r.ip).ents[Elem(r)]
        isDir == Ino(r.ip).type = "DIR"
    IN
    /\ \/ /\ r.rest = <<>>      \* nameiparent() of a path without elements, or its end
          /\ pr' = [pr EXCEPT ![p] = IF Parent(r.call) THEN Fail(r, <<r.ip>>) ELSE r]
          /\ ref' = refs
          /\ UNCHANGED mem
       \/ /\ r.rest # <<>>
          /\ lock[r.ip] = 0
          /\ Load(r.ip)
          /\ \/ /\ ~isDir \/ (~stop /\ next = 0)
                /\ pr' = [pr EXCEPT ![p] = Fail(r, <<r.ip>>)]
                /\ ref' = refs
             \/ /\ isDir /\ stop
                /\ pr' = [pr EXCEPT ![p] = [r EXCEPT !.pc = "at"]]
                /\ ref' = refs
             \/ /\ isDir /\ ~stop /\ next # 0
                /\ ref' = Iget(refs, next)
                /\ pr' = [pr EXCEPT ![p] = [r EXCEPT !.ip = next, !.rest = Tail(@),
                                                     !.puts = <<r.ip>>]]
    /\ UNCHANGED <<disk, lock, used, Files, lost>>

\* A call begins at "/" or at the current directory.  Both have other references than
\* the walk's own, so nobody can tell iget() or idup() from the first element.
Begin(p, call, start, path, new) ==
    /\ AtRest(p)
    /\ WalkStep(p, [Idle(<<>>) EXCEPT !.pc = "walk", !.call = call, !.ip = start,
                                      !.rest = path, !.new = new],
                Iget(ref, start))

Walk(p) ==
    /\ pr[p].pc = "walk" /\ pr[p].puts = <<>>
    /\ pr[p].rest # <<>> \/ Parent(pr[p].call)
    /\ WalkStep(p, pr[p], ref)

\* The walk of one of the calls is over and its inode can be locked.
Arrived(p, calls) ==
    /\ pr[p].puts = <<>> /\ pr[p].call \in calls
    /\ \/ pr[p].pc = "at"
       \/ pr[p].pc = "walk" /\ pr[p].rest = <<>> /\ ~Parent(pr[p].call)
    /\ lock[pr[p].ip] = 0

\* The call returns, putting the inodes of puts.
Return(p, puts) == pr' = [pr EXCEPT ![p] = Idle(puts)]

----------------------------------------------------------------------------
(* Contents: bmap(), balloc(), itrunc(), dirlink()                         *)

\* Block bn of the inode, allocated if need be: bn is at most Len(ino.data).
\* An indirect block stays when there is no block left for the data.
Bmap(ino, u, bn) ==
    LET ind == bn >= NDIRECT /\ ino.ind = 0 /\ Blocks # u
        i1 == IF ind THEN [ino EXCEPT !.ind = Lowest(Blocks \ u)] ELSE ino
        u1 == u \cup OwnBlocks(i1)
        b  == Lowest(Blocks \ u1)
    IN CASE bn < Len(ino.data) -> [ok |-> TRUE, ino |-> ino, used |-> u]
         [] bn >= Len(ino.data) /\ u1 = Blocks -> [ok |-> FALSE, ino |-> i1, used |-> u1]
         [] OTHER -> [ok |-> TRUE, ino |-> [i1 EXCEPT !.data = Append(@, b)],
                      used |-> u1 \cup {b}]

\* Mutant of Itrunc: ip->addrs[NDIRECT] is not cleared.
ItruncDirect(ino) == [ino EXCEPT !.size = 0, !.data = <<>>]

Itrunc(ino) == [ino EXCEPT !.size = 0, !.data = <<>>, !.ind = 0]

\* Entries of a directory, "." included.
Count(dp) == 1 + Cardinality({n \in Entries : dp.ents[n] # 0})

\* dirlink() of a name that is not there: in an empty entry, or one more.
Dirlink(dp, u, n, inum) ==
    LET full == Count(dp) >= DIRENTS * dp.size
        r == Bmap(dp, u, dp.size)
        new(d) == [d EXCEPT !.ents[n] = inum]
    IN CASE ~full -> [ok |-> TRUE, ino |-> new(dp), used |-> u]
         [] full /\ dp.size = MAXFILE -> [ok |-> FALSE, ino |-> dp, used |-> u]
         [] OTHER -> IF r.ok THEN [r EXCEPT !.ino = [new(r.ino) EXCEPT !.size = @ + 1]]
                             ELSE r

----------------------------------------------------------------------------
(* open() and the calls on an open file.  The modes: O_RDWR, O_RDONLY,     *)
(* O_RDWR | O_TRUNC and, in create(), O_RDWR | O_CREATE | O_TRUNC.         *)

OpenCalls == {"open", "rdonly", "trunc"}

\* sys_open() once it has locked the inode: no free descriptor, a device without
\* a driver, or an open file.
Opened(p, i, ino, puts) ==
    \/ /\ file[p] # NoFile \/ ino.type = "DEVICE"
       /\ Return(p, puts \o <<i>>)
       /\ Load(i)
       /\ UNCHANGED <<disk, used, file>>
    \/ /\ file[p] = NoFile
       /\ file' = [file EXCEPT ![p] = [ip |-> i, off |-> 0,
                                       writable |-> pr[p].call # "rdonly"]]
       /\ IF pr[p].call \in {"trunc", "create"} /\ ino.type = "FILE"
          THEN Store(i, Itrunc(ino)) /\ used' = used \ OwnBlocks(ino)
          ELSE Load(i) /\ UNCHANGED <<disk, used>>
       /\ Return(p, puts)

\* Without O_CREATE.
Open(p) ==
    LET i == pr[p].ip IN
    /\ Arrived(p, OpenCalls)
    /\ \/ /\ Ino(i).type = "DIR" /\ pr[p].call # "rdonly"
          /\ Return(p, <<i>>)
          /\ Load(i)
          /\ UNCHANGED <<disk, used, file>>
       \/ /\ ~(Ino(i).type = "DIR" /\ pr[p].call # "rdonly")
          /\ Opened(p, i, Ino(i), <<>>)
    /\ UNCHANGED <<ref, lock, cwd, lost>>

\* fileclose() of the last reference to the open file.
Close(p) ==
    /\ AtRest(p) /\ file[p] # NoFile
    /\ file' = [file EXCEPT ![p] = NoFile]
    /\ Return(p, <<file[p].ip>>)
    /\ UNCHANGED <<disk, mem, ref, lock, used, cwd, lost>>

\* writei() of n blocks from block off on, of which the user's memory holds the first m:
\* it ends at the first block that it cannot allocate or copy.
Writei(ino, u, off, n, m) ==
    LET w[k \in 0 .. n] ==
            IF k = 0 THEN [ok |-> TRUE, ino |-> ino, used |-> u, tot |-> 0]
            ELSE LET prev == w[k - 1]
                     r == Bmap(prev.ino, prev.used, off + k - 1)
                 IN IF ~prev.ok THEN prev
                    ELSE [ok |-> r.ok /\ k <= m, ino |-> r.ino, used |-> r.used,
                          tot |-> IF r.ok /\ k <= m THEN k ELSE k - 1]
        end == off + w[n].tot
    IN [w[n] EXCEPT !.ino.size = IF end > @ THEN end ELSE @]

\* filewrite().
Write(p, n, m) ==
    LET i == file[p].ip
        o == file[p].off
        r == Writei(Ino(i), used, o, n, m)
    IN
    /\ AtRest(p) /\ file[p].writable
    /\ lock[i] = 0 /\ Ino(i).type = "FILE"
    /\ o <= Ino(i).size /\ o + n <= MAXFILE
    /\ Store(i, r.ino)
    /\ used' = r.used
    /\ file' = [file EXCEPT ![p].off = o + r.tot]
    /\ UNCHANGED <<ref, lock, cwd, pr, lost>>

\* Blocks that readi() reads of the one asked for at off: none at the end of the file.
Readi(ino, off) == IF off < ino.size THEN 1 ELSE 0

\* fileread() of a block.
Read(p) ==
    LET i == file[p].ip IN
    /\ AtRest(p) /\ file[p] # NoFile
    /\ lock[i] = 0 /\ Ino(i).type = "FILE" /\ Readi(Ino(i), file[p].off) > 0
    /\ Load(i)
    /\ file' = [file EXCEPT ![p].off = @ + Readi(Ino(i), @)]
    /\ UNCHANGED <<disk, ref, lock, used, cwd, pr, lost>>

Chdir(p) ==
    LET i == pr[p].ip IN
    /\ Arrived(p, {"chdir"})
    /\ Load(i)
    /\ \/ /\ Ino(i).type # "DIR"
          /\ Return(p, <<i>>)
          /\ UNCHANGED cwd
       \/ /\ Ino(i).type = "DIR"
          /\ Return(p, <<cwd[p]>>)
          /\ cwd' = [cwd EXCEPT ![p] = i]
    /\ UNCHANGED <<disk, ref, lock, used, file, lost>>

----------------------------------------------------------------------------
(* create(): O_CREATE, mkdir() and mknod()                                 *)

CreateCalls == {"create", "mkdir", "mknod"}
TypeOf(call) == CASE call = "create" -> "FILE"
                  [] call = "mkdir"  -> "DIR"
                  [] call = "mknod"  -> "DEVICE"

FreeInodes == {i \in Inode : disk[i].type = "FREE"}

\* The name exists: put the directory, then look at the inode.
CreateFound(p) ==
    LET d == pr[p].ip
        i == Ino(d).ents[Elem(pr[p])]
    IN
    /\ Arrived(p, CreateCalls)
    /\ i # 0
    /\ Load(d)
    /\ ref' = Iget(ref, i)
    /\ pr' = [pr EXCEPT ![p].pc = "exists", ![p].ip = i, ![p].puts = <<d>>]
    /\ UNCHANGED <<disk, lock, used, Files, lost>>

CreateExists(p) ==
    LET i == pr[p].ip
        fits == pr[p].call = "create" /\ Ino(i).type \in {"FILE", "DEVICE"}
    IN
    /\ pr[p].pc = "exists" /\ pr[p].puts = <<>>
    /\ lock[i] = 0
    /\ \/ /\ fits
          /\ Opened(p, i, Ino(i), <<>>)
       \/ /\ ~fits
          /\ Return(p, <<i>>)
          /\ Load(i)
          /\ UNCHANGED <<disk, used, file>>
    /\ UNCHANGED <<ref, lock, cwd, lost>>

\* The cleared inode with its type, which marks it allocated on the disk.
Allocated(type) == [NoInode EXCEPT !.type = type]

\* ialloc(): the first inode that is free on the disk.
Ialloc(p) ==
    LET d == pr[p].ip
        i == Lowest(FreeInodes)
    IN
    /\ Arrived(p, CreateCalls)
    /\ Ino(d).ents[Elem(pr[p])] = 0
    /\ Load(d)
    /\ \/ /\ FreeInodes = {}
          /\ Return(p, <<d>>)
          /\ UNCHANGED <<disk, ref, lock>>
       \/ /\ FreeInodes # {}
          /\ disk' = [disk EXCEPT ![i] = Allocated(TypeOf(pr[p].call))]
          /\ ref' = Iget(ref, i)
          /\ lock' = [lock EXCEPT ![d] = p]
          /\ pr' = [pr EXCEPT ![p].pc = "init", ![p].held = i]
    /\ UNCHANGED <<used, Files, lost>>

\* ilock() of the new inode, its "." and "..", and its entry.
CreateInit(p) ==
    LET d == pr[p].ip
        i == pr[p].held
        isDir == pr[p].call = "mkdir"
        ip == [Ino(i) EXCEPT !.nlink = 1]
        dots == IF isDir THEN Bmap(ip, used, 0) ELSE [ok |-> TRUE, ino |-> ip, used |-> used]
        ip1 == IF isDir THEN [dots.ino EXCEPT !.ents[Dots] = d, !.size = 1] ELSE ip
        ent == Dirlink(Ino(d), dots.used, Elem(pr[p]), i)
    IN
    /\ pr[p].pc = "init"
    /\ lock[i] = 0
    /\ \/ /\ dots.ok /\ ent.ok
          /\ used' = ent.used
          /\ StoreBoth(i, ip1, d,
                       [ent.ino EXCEPT !.nlink = IF isDir THEN @ + 1 ELSE @])
          /\ \/ /\ pr[p].call = "create" /\ file[p] = NoFile
                /\ file' = [file EXCEPT ![p] = [ip |-> i, off |-> 0, writable |-> TRUE]]
                /\ Return(p, <<d>>)
             \/ /\ ~(pr[p].call = "create" /\ file[p] = NoFile)
                /\ Return(p, <<d, i>>)
                /\ UNCHANGED file
       \/ /\ ~dots.ok
          /\ UNCHANGED <<used, file>>
          /\ Store(i, [ip EXCEPT !.nlink = 0])
          /\ Return(p, <<i, d>>)
       \/ /\ dots.ok /\ ~ent.ok
          /\ used' = ent.used
          /\ StoreBoth(i, [ip1 EXCEPT !.nlink = 0], d, ent.ino)
          /\ Return(p, <<i, d>>)
          /\ UNCHANGED file
    /\ UNCHANGED <<ref, lock, cwd, lost>>

----------------------------------------------------------------------------
(* unlink() and link()                                                     *)

\* The directory stays locked while the inode is locked.
UnlinkLookup(p) ==
    LET d == pr[p].ip
        name == Elem(pr[p])
        i == Ino(d).ents[name]
    IN
    /\ Arrived(p, {"unlink"})
    /\ Load(d)
    /\ \/ /\ name = Dots \/ i = 0
          /\ Return(p, <<d>>)
          /\ UNCHANGED <<ref, lock>>
       \/ /\ name # Dots /\ i # 0
          /\ ref' = Iget(ref, i)
          /\ lock' = [lock EXCEPT ![d] = p]
          /\ pr' = [pr EXCEPT ![p].pc = "unlink", ![p].held = i]
    /\ UNCHANGED <<disk, used, Files, lost>>

IsDirEmpty(ino) == \A n \in Names : ino.ents[n] = 0

Unlink(p) ==
    LET d == pr[p].ip
        i == pr[p].held
        isDir == Ino(i).type = "DIR"
    IN
    /\ pr[p].pc = "unlink"
    /\ lock[i] = 0
    /\ \/ /\ isDir /\ ~IsDirEmpty(Ino(i))
          /\ Load(i)
          /\ Return(p, <<i, d>>)
          /\ UNCHANGED disk
       \/ /\ ~(isDir /\ ~IsDirEmpty(Ino(i)))
          /\ StoreBoth(i, [Ino(i) EXCEPT !.nlink = @ - 1],
                       d, [Ino(d) EXCEPT !.ents[Elem(pr[p])] = 0,
                                         !.nlink = IF isDir THEN @ - 1 ELSE @])
          /\ Return(p, <<d, i>>)
    /\ UNCHANGED <<ref, lock, used, Files, lost>>

\* sys_link(): nlink++ comes first, then the walk of the new name.
Link(p, start) ==
    LET i == pr[p].ip IN
    /\ Arrived(p, {"link"})
    /\ \/ /\ Ino(i).type = "DIR"
          /\ Load(i)
          /\ Return(p, <<i>>)
          /\ UNCHANGED <<disk, ref>>
       \/ /\ Ino(i).type # "DIR"
          /\ Store(i, [Ino(i) EXCEPT !.nlink = @ + 1])
          /\ ref' = Iget(ref, start)
          /\ pr' = [pr EXCEPT ![p].pc = "walk", ![p].call = "link2", ![p].ip = start,
                              ![p].rest = pr[p].new, ![p].new = <<>>, ![p].held = i]
    /\ UNCHANGED <<lock, used, Files, lost>>

LinkEntry(p) ==
    LET d == pr[p].ip
        name == Elem(pr[p])
        r == Dirlink(Ino(d), used, name, pr[p].held)
    IN
    /\ Arrived(p, {"link2"})
    /\ \/ /\ Ino(d).ents[name] # 0
          /\ Load(d)
          /\ pr' = [pr EXCEPT ![p] = Fail(pr[p], <<d>>)]
          /\ UNCHANGED <<disk, used>>
       \/ /\ Ino(d).ents[name] = 0
          /\ Store(d, r.ino)
          /\ used' = r.used
          /\ pr' = [pr EXCEPT ![p] = IF r.ok THEN Idle(<<d, pr[p].held>>) ELSE Fail(pr[p], <<d>>)]
    /\ UNCHANGED <<ref, lock, Files, lost>>

\* Mutant of LinkBad: nlink is not given back.
LinkBadKeeps(p) ==
    LET i == pr[p].held IN
    /\ pr[p].pc = "bad" /\ pr[p].puts = <<>>
    /\ lock[i] = 0
    /\ Load(i)
    /\ Return(p, <<i>>)
    /\ UNCHANGED <<disk, ref, lock, used, Files, lost>>

\* sys_link()'s bad: nlink--.
LinkBad(p) ==
    LET i == pr[p].held IN
    /\ pr[p].pc = "bad" /\ pr[p].puts = <<>>
    /\ lock[i] = 0
    /\ Store(i, [Ino(i) EXCEPT !.nlink = @ - 1])
    /\ Return(p, <<i>>)
    /\ UNCHANGED <<ref, lock, used, Files, lost>>

----------------------------------------------------------------------------
(* The file system                                                         *)

\* What ireclaim() frees when the system starts.
Orphans(d) == {i \in Inode : d[i].type # "FREE" /\ d[i].nlink = 0}

\* A crash between two calls, and the next start: iinit(), ireclaim().
Crash ==
    /\ \A p \in Proc : AtRest(p)
    /\ disk' = [i \in Inode |-> IF i \in Orphans(disk) THEN NoInode ELSE disk[i]]
    /\ used' = used \ UNION {OwnBlocks(disk[i]) : i \in Orphans(disk)}
    /\ lost' = Losing(Orphans(disk))
    /\ mem' = [i \in Inode |-> NoCopy]
    /\ ref' = [i \in Inode |-> IF i = ROOTINO THEN Cardinality(Proc) ELSE 0]
    /\ lock' = [i \in Inode |-> 0]
    /\ cwd' = [p \in Proc |-> ROOTINO]
    /\ file' = [p \in Proc |-> NoFile]
    /\ pr' = [p \in Proc |-> Idle(<<>>)]

Root == [NoInode EXCEPT !.type = "DIR", !.nlink = 1, !.size = 1, !.data = <<1>>,
                        !.ents[Dots] = ROOTINO]

\* mkfs's disk: the root directory only.
Init ==
    /\ disk = [i \in Inode |-> IF i = ROOTINO THEN Root ELSE NoInode]
    /\ used = {1}
    /\ mem = [i \in Inode |-> NoCopy]
    /\ ref = [i \in Inode |-> IF i = ROOTINO THEN Cardinality(Proc) ELSE 0]
    /\ lock = [i \in Inode |-> 0]
    /\ cwd = [p \in Proc |-> ROOTINO]
    /\ file = [p \in Proc |-> NoFile]
    /\ pr = [p \in Proc |-> Idle(<<>>)]
    /\ lost = [i \in Inode |-> 0]

Start(p) ==
    \E start \in {ROOTINO, cwd[p]}, path \in Paths :
        \/ \E call \in Calls \ {"link"} : Begin(p, call, start, path, <<>>)
        \/ \E call \in Calls \cap {"link"}, new \in Paths : Begin(p, call, start, path, new)

Step(p) ==
    \/ IputDrop(p) \/ IputFree(p) \/ IputUnlock(p) \/ IputEnd(p)
    \/ Walk(p) \/ Open(p) \/ Chdir(p)
    \/ CreateFound(p) \/ CreateExists(p) \/ Ialloc(p) \/ CreateInit(p)
    \/ UnlinkLookup(p) \/ Unlink(p)
    \/ \E start \in {ROOTINO, cwd[p]} : Link(p, start)
    \/ LinkEntry(p) \/ LinkBad(p)

Next ==
    \/ \E p \in Proc :
        \/ Start(p) \/ Step(p) \/ Close(p) \/ Read(p)
        \/ \E n \in 1 .. MaxWrite : \E m \in 0 .. n : Write(p, n, m)
    \/ Crash

Spec == Init /\ [][Next]_vars

----------------------------------------------------------------------------
(* Properties                                                              *)

AllocatedDirs == {d \in Inode : disk[d].type = "DIR"}

\* Entries for i in directories that have an inode.
Named(i) == {x \in AllocatedDirs \X Names : disk[x[1]].ents[x[2]] = i}

\* Directories below i: removed ones keep their ".." but no longer count.
Below(i) == {d \in AllocatedDirs : disk[d].ents[Dots] = i /\ (d = ROOTINO \/ Named(d) # {})}

\* Calls of link() between nlink++ and the entry or nlink--.
Linking(i) == {p \in Proc : pr[p].held = i /\ pr[p].call = "link2"}

\* An inode's link count is the number of its names, of its subdirectories' ".." and of
\* the link() calls in progress, whatever creates, links and removes names at the same
\* time and however blocks run out in between; names that went away with a removed
\* directory (create() does not look at dp->nlink) keep their count for ever.
LinkCounts ==
    \A i \in Inode :
        disk[i].nlink = Cardinality(Named(i)) + Cardinality(Below(i))
                        + Cardinality(Linking(i)) + lost[i]

\* Allocated, without a name and without a reference: nobody will free it before the
\* next start.
Orphan(i) == disk[i].type # "FREE" /\ disk[i].nlink = 0 /\ ref[i] = 0

\* An inode without links is freed with the last reference, as the comment on iput()
\* says.
NoOrphan == \A i \in Inode : ~Orphan(i)

\* It is, whatever calls fail and whoever has it open, but for one race: an iput() that
\* has freed the inode drops its reference to it only after somebody else has allocated
\* the inode again, and has put it while there were two references.
OrphansByRace ==
    [][\A i \in Inode :
        ~Orphan(i) /\ Orphan(i)' =>
            \E p \in Proc : /\ pr[p].iput = "dropping" /\ Head(pr[p].puts) = i
                           /\ ref[i] = 1 /\ ref'[i] = 0]_vars

\* Where a process has references: its directory, its file, the walk's inode, the held
\* one, and those to put.
Slots == {"cwd", "file", "ip", "held", "put1", "put2"}

Put(p, k) == IF Len(pr[p].puts) >= k THEN pr[p].puts[k] ELSE 0

RefIn(p, slot) ==
    CASE slot = "cwd"  -> cwd[p]
      [] slot = "file" -> file[p].ip
      [] slot = "ip"   -> pr[p].ip
      [] slot = "held" -> pr[p].held
      [] slot = "put1" -> Put(p, 1)
      [] slot = "put2" -> Put(p, 2)

\* While no path has a "..", a process only refers to allocated inodes: an open file, a
\* current directory or a call's inode is not freed under it by whoever unlinks it, so
\* ilock() never panics with "no type".
AllocatedRefs ==
    \A p \in Proc : \A i \in {cwd[p], file[p].ip, pr[p].ip, pr[p].held} \ {0} :
        disk[i].type # "FREE"

\* ip->ref is the number of references that processes have, over every error path of
\* every call; and, as the comment in iput() argues, with ref == 1 nobody else has the
\* inode locked, so that freeing it under itable.lock never waits.
InodeRefs ==
    /\ \A i \in Inode : ref[i] = Cardinality({x \in Proc \X Slots : RefIn(x[1], x[2]) = i})
    /\ \A p \in Proc : Putting(p) /\ Last(Head(pr[p].puts)) => CanLock(p, Head(pr[p].puts))

\* A block is marked used in the bitmap just when it is a block of one inode, in one
\* place of it: no block is lost or shared when allocations fail half way, a write stops
\* at a bad address or a file is truncated under its readers.
BlocksExact ==
    /\ used = UNION {OwnBlocks(disk[i]) : i \in Inode}
    /\ \A i, j \in Inode : i # j => OwnBlocks(disk[i]) \cap OwnBlocks(disk[j]) = {}
    /\ \A i \in Inode : Cardinality(OwnBlocks(disk[i])) =
                        Len(disk[i].data) + Cardinality({disk[i].ind} \ {0})

\* The inode table's copy is the disk's, except while iput() frees the inode: a new file
\* in a recycled inode never sees what the table kept of the old one.
CopiesCurrent ==
    \A i \in Inode :
        \/ mem[i] \in {NoCopy, disk[i]}
        \/ \E p \in Proc : pr[p].iput = "freeing" /\ Head(pr[p].puts) = i

=============================================================================
