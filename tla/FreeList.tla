------------------------------ MODULE FreeList ------------------------------
(***************************************************************************)
(* The free list of MyFileSystem (File-System/filesystem.c): a linked list *)
(* of regions of free blocks, here a sequence of records whose e is the    *)
(* last block of the region.  Each operator is the list a C function       *)
(* leaves behind.                                                          *)
(***************************************************************************)
EXTENDS Integers, SequencesExt

Region(s, e) == [s |-> s, e |-> e]

\* get_block_count()
BlockCount(r) == r.e - r.s + 1

\* init_free_list(): everything after the metadata.
InitFreeList(meta, total) == <<Region(meta, total - 1)>>

\* The region allocate_blocks() takes from: the first that is large enough, 0
\* when there is none.
FirstFit(fl, count) == SelectInSeq(fl, LAMBDA r : BlockCount(r) >= count)

\* What allocate_blocks() returns.
AllocStart(fl, count) ==
    LET i == FirstFit(fl, count) IN IF i = 0 THEN -1 ELSE fl[i].s

\* allocate_blocks(): a region that fits exactly is unlinked, a larger one
\* loses its head.
AllocateBlocks(fl, count) ==
    LET i == FirstFit(fl, count) IN
    IF i = 0 THEN fl
    ELSE IF BlockCount(fl[i]) = count THEN RemoveAt(fl, i)
    ELSE [fl EXCEPT ![i].s = @ + count]

\* The first region that does not start before start, 0 when there is none.
FirstFrom(fl, start) == SelectInSeq(fl, LAMBDA r : r.s >= start)

\* Mutant of FreeBlocks: when both neighbours merge, the blocks of the next one
\* are lost.
FreeBlocksLosesNext(fl, start, count) ==
    LET end   == start + count - 1
        found == FirstFrom(fl, start)
        curr  == IF found = 0 THEN Len(fl) + 1 ELSE found
        prev  == curr - 1
        mergePrev == prev > 0 /\ fl[prev].e + 1 = start
        mergeNext == found # 0 /\ end + 1 = fl[curr].s
    IN  CASE mergePrev /\ mergeNext  -> RemoveAt([fl EXCEPT ![prev].e = end], curr)
          [] mergePrev /\ ~mergeNext -> [fl EXCEPT ![prev].e = end]
          [] ~mergePrev /\ mergeNext -> [fl EXCEPT ![curr].s = start]
          [] OTHER                   -> InsertAt(fl, curr, Region(start, end))

\* free_blocks(): the position is the first region that does not start before
\* the freed one; it merges with the region before and the one after it when
\* they are adjacent.
FreeBlocks(fl, start, count) ==
    LET end   == start + count - 1
        found == FirstFrom(fl, start)
        curr  == IF found = 0 THEN Len(fl) + 1 ELSE found
        prev  == curr - 1
        mergePrev == prev > 0 /\ fl[prev].e + 1 = start
        mergeNext == found # 0 /\ end + 1 = fl[curr].s
    IN  CASE mergePrev /\ mergeNext  -> RemoveAt([fl EXCEPT ![prev].e = fl[curr].e], curr)
          [] mergePrev /\ ~mergeNext -> [fl EXCEPT ![prev].e = end]
          [] ~mergePrev /\ mergeNext -> [fl EXCEPT ![curr].s = start]
          [] OTHER                   -> InsertAt(fl, curr, Region(start, end))

\* What remove_range_from_freelist() makes of one region.
CutRegion(r, start, end) ==
    LET overlaps == r.e >= start /\ r.s <= end IN
    CASE ~overlaps                                -> <<r>>
      [] overlaps /\ start <= r.s /\ end >= r.e   -> << >>
      [] overlaps /\ start <= r.s /\ end < r.e    -> <<Region(end + 1, r.e)>>
      [] overlaps /\ start > r.s /\ end >= r.e    -> <<Region(r.s, start - 1)>>
      [] OTHER -> <<Region(r.s, start - 1), Region(end + 1, r.e)>>

\* The first k regions without the range start .. end.
Cut(fl, start, end) ==
    LET cut[k \in 0 .. Len(fl)] ==
            IF k = 0 THEN << >> ELSE cut[k - 1] \o CutRegion(fl[k], start, end)
    IN cut

RemoveRange(fl, start, count) == Cut(fl, start, start + count - 1)[Len(fl)]

\* The blocks on the list.
FreeSet(fl) == UNION {fl[i].s .. fl[i].e : i \in DOMAIN fl}
=============================================================================
