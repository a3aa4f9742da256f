-------------------------------- MODULE MyFS --------------------------------
(***************************************************************************)
(* MyFileSystem: block allocation, the file table and the open-file table  *)
(* of File-System/filesystem.c, driven by one root session of the shell in *)
(* File-System/cli.c, which keeps at most one file open.  Root passes      *)
(* every permission check on a file that exists.  Block contents and       *)
(* times are left out; sizes are bytes, so that the rounding to blocks is  *)
(* the code's.                                                             *)
(***************************************************************************)
EXTENDS FreeList

CONSTANTS
    META,           \* blocks that hold the metadata
    TOTAL,          \* blocks of the disk
    BLOCK_SIZE,
    MAX_FILES,
    Names,          \* file names a user types
    StoredName,     \* a name cut to MAX_FILENAME - 1 characters
    NoName,         \* the empty string
    WriteArgs,      \* positions and lengths of writes
    ShrinkArgs,     \* sizes given to shrink, which atoi() may make negative
    MaxGrow,        \* bound: writes that extend a file, between two formats
    MaxNegative,    \* bound: shrinks below zero blocks, between two formats
    MaxRegions      \* bound: blocks are freed while the list is no longer than this

ASSUME DiskAssumption ==
    /\ META \in Nat /\ TOTAL \in Nat /\ META < TOTAL
    /\ BLOCK_SIZE \in Nat \ {0} /\ MAX_FILES \in Nat \ {0}
ASSUME NamesAssumption ==
    /\ StoredName \in [Names -> Names] /\ NoName \notin Names
    /\ \A n \in Names : StoredName[StoredName[n]] = StoredName[n]
ASSUME ArgsAssumption == WriteArgs \subseteq Nat \X Nat /\ ShrinkArgs \subseteq Int
ASSUME BoundAssumption == MaxGrow \in Nat /\ MaxNegative \in Nat /\ MaxRegions \in Nat

Entries == 0 .. MAX_FILES - 1

VARIABLES
    file_table,     \* the entries
    free_list,
    used_blocks,    \* super_block.used_blocks
    file_count,     \* super_block.file_count
    open_files,     \* fd -> entry, -1 when free
    current_fd,     \* the shell's open file, -1 when none
    current_filename,
    saved,          \* the metadata on disk
    grown,          \* history: writes that extended a file that had a start block
    negative        \* history: shrinks to a negative number of blocks

fs      == <<file_table, free_list, used_blocks, file_count>>
session == <<open_files, current_fd, current_filename>>
history == <<grown, negative>>
fs_vars == <<file_table, free_list, used_blocks, file_count, open_files,
             current_fd, current_filename, saved, grown, negative>>

\* An entry after memset(0).
ZeroEntry == [used |-> FALSE, name |-> NoName, size |-> 0, start |-> 0, count |-> 0]

\* C integer division truncates towards zero.
DivC(a, b) == IF a >= 0 THEN a \div b ELSE -((-a) \div b)

BlocksFor(size) == DivC(size + BLOCK_SIZE - 1, BLOCK_SIZE)

FileEntry ==
    [used : BOOLEAN, name : Names \cup {NoName}, size : Int, start : Int, count : Int]

FsTypeOK ==
    /\ file_table \in [Entries -> FileEntry]
    /\ free_list \in Seq([s : Int, e : Int])
    /\ used_blocks \in Int
    /\ file_count \in 0 .. MAX_FILES
    /\ open_files \in [Entries -> Entries \cup {-1}]
    /\ current_fd \in Entries \cup {-1}
    /\ current_filename \in Names \cup {NoName}
    /\ saved \in [files : [Entries -> FileEntry], count : 0 .. MAX_FILES, used : Int]
    /\ grown \in 0 .. MaxGrow
    /\ negative \in 0 .. MaxNegative

\* The used entries with a name, and the entry the loops over file_table stop
\* at: the first of them.
Named(n) == {i \in Entries : file_table[i].used /\ file_table[i].name = n}

First(S) == CHOOSE i \in S : \A j \in S : i <= j

\* save_metadata(), the last call of every operation that changes the tables.
Save == saved' = [files |-> file_table', count |-> file_count', used |-> used_blocks']

----------------------------------------------------------------------------
(* create and open                                                         *)

FreeEntries == {i \in Entries : ~file_table[i].used}

\* The body of fs_create() once the name is new and an entry is free.
CreateEntry(n) ==
    /\ file_table' = [file_table EXCEPT ![First(FreeEntries)] =
           [used |-> TRUE, name |-> StoredName[n], size |-> 0, start |-> -1, count |-> 0]]
    /\ file_count' = file_count + 1
    /\ UNCHANGED <<free_list, used_blocks>>
    /\ Save

Create(n) ==
    /\ Named(n) = {}
    /\ FreeEntries # {}
    /\ CreateEntry(n)
    /\ UNCHANGED <<session, history>>

\* fs_open() takes the first free descriptor; the shell remembers it.
OpenEntry(n, i) ==
    LET fd == First({f \in Entries : open_files[f] = -1}) IN
    /\ open_files' = [open_files EXCEPT ![fd] = i]
    /\ current_fd' = fd
    /\ current_filename' = StoredName[n]

Open(n) ==
    /\ current_fd = -1
    /\ Named(n) # {}
    /\ OpenEntry(n, First(Named(n)))
    /\ UNCHANGED <<fs, saved, history>>

\* open with flag c (O_CREAT) of a name that is not found.
OpenCreate(n) ==
    /\ current_fd = -1
    /\ Named(n) = {}
    /\ FreeEntries # {}
    /\ CreateEntry(n)
    /\ OpenEntry(n, First(FreeEntries))
    /\ UNCHANGED history

Close ==
    /\ current_fd # -1
    /\ open_files' = [open_files EXCEPT ![current_fd] = -1]
    /\ current_fd' = -1
    /\ current_filename' = NoName
    /\ UNCHANGED <<fs, saved, history>>

----------------------------------------------------------------------------
(* write and shrink, on the open file                                      *)

Idx == open_files[current_fd]

\* The size fs_write() leaves, after a complete fwrite().
NewSize(pos, n) == IF pos + n > file_table[Idx].size THEN pos + n ELSE file_table[Idx].size

\* The file has no block yet: allocate them all.
WriteFirst(pos, n) ==
    LET needed == BlocksFor(pos + n)
        start  == AllocStart(free_list, needed)
    IN
    /\ current_fd # -1
    /\ file_table[Idx].start = -1
    /\ start # -1
    /\ free_list' = AllocateBlocks(free_list, needed)
    /\ used_blocks' = used_blocks + needed
    /\ file_table' = [file_table EXCEPT ![Idx].start = start, ![Idx].count = needed,
                                        ![Idx].size = NewSize(pos, n)]
    /\ UNCHANGED <<file_count, session, history>>
    /\ Save

\* The file has enough blocks.
WriteInPlace(pos, n) ==
    /\ current_fd # -1
    /\ file_table[Idx].start # -1
    /\ BlocksFor(pos + n) <= file_table[Idx].count
    /\ file_table' = [file_table EXCEPT ![Idx].size = NewSize(pos, n)]
    /\ UNCHANGED <<free_list, used_blocks, file_count, session, history>>
    /\ Save

\* The file needs more blocks: they are allocated wherever they fit, and only
\* block_count says that the file has them.
WriteGrow(pos, n) ==
    LET needed     == BlocksFor(pos + n)
        additional == needed - file_table[Idx].count
    IN
    /\ current_fd # -1
    /\ file_table[Idx].start # -1
    /\ additional > 0
    /\ grown < MaxGrow
    /\ AllocStart(free_list, additional) # -1
    /\ free_list' = AllocateBlocks(free_list, additional)
    /\ used_blocks' = used_blocks + additional
    /\ file_table' = [file_table EXCEPT ![Idx].count = needed, ![Idx].size = NewSize(pos, n)]
    /\ grown' = grown + 1
    /\ UNCHANGED <<file_count, session, negative>>
    /\ Save

\* Mutant of WriteLost: fs_write() sets block_count before it looks at what
\* allocate_blocks() returned.
WriteLostCounted(pos, n) ==
    LET needed == BlocksFor(pos + n)
        count  == IF file_table[Idx].start = -1 THEN needed ELSE needed - file_table[Idx].count
    IN
    /\ current_fd # -1
    /\ file_table[Idx].start = -1 \/ count > 0
    /\ FirstFit(free_list, count) # 0
    /\ AllocStart(free_list, count) = -1
    /\ free_list' = AllocateBlocks(free_list, count)
    /\ used_blocks' = used_blocks + count
    /\ file_table' = [file_table EXCEPT ![Idx].count = needed]
    /\ UNCHANGED <<file_count, session, saved, history>>

\* A region that begins at block -1, on the list only after a shrink to a
\* negative size: fs_write() takes its blocks for "not enough space" and
\* returns, without them and without a save.
WriteLost(pos, n) ==
    LET needed == BlocksFor(pos + n)
        count  == IF file_table[Idx].start = -1 THEN needed ELSE needed - file_table[Idx].count
    IN
    /\ current_fd # -1
    /\ file_table[Idx].start = -1 \/ count > 0
    /\ FirstFit(free_list, count) # 0
    /\ AllocStart(free_list, count) = -1
    /\ free_list' = AllocateBlocks(free_list, count)
    /\ used_blocks' = used_blocks + count
    /\ UNCHANGED <<file_table, file_count, session, saved, history>>

\* cmd_shrink() passes on what atoi() returns: a size of a block or more below
\* zero frees blocks in front of the file.
Shrink(size) ==
    LET blocks == BlocksFor(size)
        f      == file_table[Idx]
        freed  == f.count - blocks
    IN
    /\ current_fd # -1
    /\ size < f.size
    /\ Len(free_list) <= MaxRegions
    /\ blocks < 0 => negative < MaxNegative
    /\ negative' = IF blocks < 0 THEN negative + 1 ELSE negative
    /\ \/ /\ freed > 0
          /\ free_list' = FreeBlocks(free_list, f.start + blocks, freed)
          /\ used_blocks' = used_blocks - freed
          /\ file_table' = [file_table EXCEPT ![Idx].count = blocks, ![Idx].size = size]
       \/ /\ freed <= 0
          /\ file_table' = [file_table EXCEPT ![Idx].size = size]
          /\ UNCHANGED <<free_list, used_blocks>>
    /\ UNCHANGED <<file_count, session, grown>>
    /\ Save

----------------------------------------------------------------------------
(* rm, format, restart                                                     *)

\* cmd_rm() refuses the open file; fs_delete() gives the blocks back and
\* closes every descriptor of the entry; its other fields stay.
Delete(n) ==
    LET i == First(Named(n))
        f == file_table[i]
    IN
    /\ Named(n) # {}
    /\ Len(free_list) <= MaxRegions
    /\ ~(current_fd # -1 /\ current_filename = n)
    /\ \/ /\ f.start # -1
          /\ free_list' = FreeBlocks(free_list, f.start, f.count)
          /\ used_blocks' = used_blocks - f.count
       \/ /\ f.start = -1
          /\ UNCHANGED <<free_list, used_blocks>>
    /\ file_table' = [file_table EXCEPT ![i].used = FALSE]
    /\ file_count' = file_count - 1
    /\ open_files' = [d \in Entries |-> IF open_files[d] = i THEN -1 ELSE open_files[d]]
    /\ UNCHANGED <<current_fd, current_filename, history>>
    /\ Save

\* cmd_format() closes the open file, then fs_format() clears the tables.
Format ==
    /\ open_files' = IF current_fd = -1 THEN open_files
                     ELSE [open_files EXCEPT ![current_fd] = -1]
    /\ current_fd' = -1
    /\ current_filename' = NoName
    /\ file_table' = [i \in Entries |-> ZeroEntry]
    /\ file_count' = 0
    /\ used_blocks' = META
    /\ free_list' = InitFreeList(META, TOTAL)
    /\ grown' = 0 /\ negative' = 0
    /\ Save

\* Mutant of Holders: load_metadata() does not look at is_used.
HoldersUnused(t) == {i \in Entries : t[i].start # -1 /\ t[i].count > 0}

\* load_metadata(): the entries whose blocks are taken off a fresh free list,
\* in table order, and counted as used.
Holders(t) == {i \in Entries : t[i].used /\ t[i].start # -1 /\ t[i].count > 0}

Loaded(t) ==
    LET load[k \in 0 .. MAX_FILES] ==
            IF k = 0 THEN InitFreeList(META, TOTAL)
            ELSE IF k - 1 \in Holders(t)
                 THEN RemoveRange(load[k - 1], t[k - 1].start, t[k - 1].count)
                 ELSE load[k - 1]
    IN load

LoadFreeList(t) == Loaded(t)[MAX_FILES]

\* The loop that adds up w[i] for each entry i.
PartialSums(w) ==
    LET sum[k \in 0 .. MAX_FILES] == IF k = 0 THEN 0 ELSE sum[k - 1] + w[k - 1]
    IN sum

Total(w) == PartialSums(w)[MAX_FILES]

SumCounts(t, S) == Total([i \in Entries |-> IF i \in S THEN t[i].count ELSE 0])

\* The shell ends, or is killed, and fs_init() loads the disk again.
Restart ==
    /\ file_table' = saved.files
    /\ file_count' = saved.count
    /\ free_list' = LoadFreeList(saved.files)
    /\ used_blocks' = META + SumCounts(saved.files, Holders(saved.files))
    /\ open_files' = [d \in Entries |-> -1]
    /\ current_fd' = -1
    /\ current_filename' = NoName
    /\ UNCHANGED <<saved, history>>

----------------------------------------------------------------------------
(* The specification                                                       *)

\* fs_init() on a disk that did not exist.
FsInit ==
    /\ file_table = [i \in Entries |-> ZeroEntry]
    /\ free_list = InitFreeList(META, TOTAL)
    /\ used_blocks = META
    /\ file_count = 0
    /\ open_files = [d \in Entries |-> -1]
    /\ current_fd = -1
    /\ current_filename = NoName
    /\ saved = [files |-> file_table, count |-> 0, used |-> META]
    /\ grown = 0 /\ negative = 0

FsNext ==
    \/ \E n \in Names : Create(n) \/ Open(n) \/ OpenCreate(n) \/ Delete(n)
    \/ \E w \in WriteArgs :
        \/ WriteFirst(w[1], w[2]) \/ WriteInPlace(w[1], w[2])
        \/ WriteGrow(w[1], w[2]) \/ WriteLost(w[1], w[2])
    \/ \E s \in ShrinkArgs : Shrink(s)
    \/ Close \/ Format \/ Restart

FsSpec == FsInit /\ [][FsNext]_fs_vars

----------------------------------------------------------------------------
(* Properties                                                              *)

Used == {i \in Entries : file_table[i].used}

\* The blocks an entry claims, as fs_read() and fs_write() compute them.
Extent(i) ==
    LET f == file_table[i] IN
    IF f.used /\ f.start # -1 THEN f.start .. f.start + f.count - 1 ELSE {}

Extents == UNION {Extent(i) : i \in Entries}

\* No block belongs to two files, or to a file and the free list.
NoOverlap ==
    /\ \A i, j \in Entries : i # j => Extent(i) \cap Extent(j) = {}
    /\ Extents \cap FreeSet(free_list) = {}

\* Until a write has extended a file or a shrink has gone below zero blocks, the
\* files and the free list partition the data blocks: nothing overlaps and
\* nothing leaks, whatever the mix of writes, shrinks, deletes, formats and
\* restarts.
Partition ==
    grown = 0 /\ negative = 0 =>
        NoOverlap /\ Extents \cup FreeSet(free_list) = META .. TOTAL - 1

\* Everything that has been done survives a restart: after every command the
\* file table and the number of files on the disk are those in memory, and so
\* is used_blocks until a shrink has gone below zero blocks.
Persisted ==
    /\ saved.files = file_table
    /\ saved.count = file_count
    /\ negative = 0 => saved.used = used_blocks

\* The statistics are exact, also after restarts: file_count counts the used
\* entries, and until a shrink has gone below zero blocks used_blocks counts
\* the metadata and the blocks of all files.
Accounting ==
    /\ Persisted
    /\ file_count = Cardinality(Used)
    /\ negative = 0 => used_blocks = META + SumCounts(file_table, Used)

\* The shell's open file is an entry in use, and descriptors do not leak.
OpenFileValid ==
    /\ current_fd # -1 => open_files[current_fd] \in Used
    /\ \A d \in Entries : open_files[d] # -1 => d = current_fd

\* "Free space management with block coalescing": two free regions that touch
\* are one region.
Coalesced ==
    LET regions == {i \in DOMAIN free_list : BlockCount(free_list[i]) > 0} IN
    \A i, j \in regions : free_list[i].e + 1 # free_list[j].s

\* fs_create() rejects a name that exists: no two files have the same name.
NamesUnique == \A i, j \in Used : file_table[i].name = file_table[j].name => i = j
=============================================================================
