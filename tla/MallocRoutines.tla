--------------------------- MODULE MallocRoutines ---------------------------
(***************************************************************************)
(* The routines of dlmalloc.c that work on a malloc_state m under its      *)
(* lock: what each makes of m.  Those that take memory return the set of   *)
(* their outcomes, as the choice among chunks of one size and what the     *)
(* system gives are left open: m and the chunk, which is NULL if there is  *)
(* none.                                                                   *)
(***************************************************************************)
EXTENDS MallocState

-----------------------------------------------------------------------------
(* Releasing memory to the system. *)

\* Can unmap if the first chunk holds the entire segment and is not in use.
Unused(m, seg) ==
    /\ ~IsInuse(m, seg.base)
    /\ seg.base + ChunkSize(m, seg.base) >= seg.base + seg.size - TopFoot

ReleaseSegment(m, seg) ==
    LET size == ChunkSize(m, seg.base)
        unlinked == IF seg.base = m.dv THEN SetDv(m, NULL, 0)
                    ELSE UnlinkChunk(m, seg.base, size)
    IN IF ~Unused(m, seg) THEN m
       ELSE IF CanUnmap(m, seg.base, seg.size)
       THEN [Unmap(unlinked, seg.base, seg.size) EXCEPT
               !.segs = RemoveAt(@, CHOOSE k \in DOMAIN m.segs : m.segs[k] = seg)]
       ELSE InsertChunk(unlinked, seg.base, size)

\* release_unused_segments: all but the first are tried.
ReleaseUnusedSegments(m) ==
    LET nsegs == Len(m.segs) - 1
        tried[i \in 0..nsegs] ==
          IF i = 0 THEN m ELSE ReleaseSegment(tried[i - 1], m.segs[i + 1])
    IN [tried[nsegs] EXCEPT
          !.release_checks = IF nsegs > MaxReleaseCheckRate THEN nsegs ELSE MaxReleaseCheckRate]

\* How much of top sys_trim gives back, in granularity units, keeping one.
TrimExtra(topsize, pad) ==
    ((topsize - pad + (Granularity - 1)) \div Granularity - 1) * Granularity

\* The top of its segment is given back if nothing but top is there.
TrimTop(m, pad) ==
    LET extra == TrimExtra(m.topsize, pad)
        i == SegmentHolding(m, m.top)
        seg == m.segs[i]
        end == seg.base + seg.size
    IN IF /\ m.topsize > pad
          /\ seg.size >= extra
          /\ ~HasSegmentLink(m, seg)
          /\ CanUnmap(m, end - extra, extra)
          /\ extra > 0
       THEN InitTop([Unmap(m, end - extra, extra) EXCEPT !.segs[i].size = @ - extra],
                    m.top, m.topsize - extra)
       ELSE m

SysTrim(m, pad) ==
    IF ~IsInitialized(m) THEN m
    ELSE LET after == ReleaseUnusedSegments(TrimTop(m, pad + TopFoot))
         IN IF after.footprint = m.footprint /\ after.topsize > after.trim_check
            THEN [after EXCEPT !.trim_check = MaxSize] ELSE after

-----------------------------------------------------------------------------
(* Freeing. *)

\* Mutant: the fencepost behind the chunk is forgotten.
Mutant_FreeMmapped(m, p) ==
    LET base == p - HeaderAt(m, p).foot
        size == ChunkSize(m, p) + HeaderAt(m, p).foot
    IN IF CanUnmap(m, base, size) THEN Unmap(m, base, size) ELSE m

\* A directly mapped chunk's prev_foot is its offset in its region.
FreeMmapped(m, p) ==
    LET base == p - HeaderAt(m, p).foot
        size == ChunkSize(m, p) + HeaderAt(m, p).foot + MmapFootPad
    IN IF CanUnmap(m, base, size) THEN Unmap(m, base, size) ELSE m

\* The chunk before is taken out of its bin; the victim stays the victim.
Backward(m, p, s) ==
    IF HeaderAt(m, p).p THEN [m |-> m, at |-> p, size |-> s]
    ELSE LET prevsize == HeaderAt(m, p).foot
             prev == p - prevsize
             checked == Check(m, OkAddress(m, prev))
         IN [m |-> IF prev = m.dv THEN checked ELSE UnlinkChunk(checked, prev, prevsize),
             at |-> prev, size |-> s + prevsize]

\* What a chunk becomes, joined with what is behind it.

IntoTop(m, p, s) ==
    SetTop(IF p = m.dv THEN SetDv(m, NULL, 0) ELSE m, p, m.topsize + s)
IntoDv(m, p, s) == SetSizeAndPinuseOfFree(SetDv(m, p, m.dvsize + s), p, m.dvsize + s)
IntoFree(m, p, s, next) ==
    LET size == s + ChunkSize(m, next)
        joined == SetSizeAndPinuseOfFree(UnlinkChunk(m, next, ChunkSize(m, next)), p, size)
    IN IF p = m.dv THEN SetDv(joined, p, size) ELSE InsertChunk(joined, p, size)
Alone(m, p, s, next) ==
    LET free == SetFreeWithPinuse(m, p, s, next)
    IN IF p = m.dv THEN SetDv(free, p, s) ELSE InsertChunk(free, p, s)

Forward(m, p, s) ==
    LET next == p + s IN
      IF HeaderAt(m, next).c THEN Alone(m, p, s, next)
      ELSE IF next = m.top THEN IntoTop(m, p, s)
      ELSE IF next = m.dv THEN IntoDv(m, p, s)
      ELSE IntoFree(m, p, s, next)

\* dispose_chunk, and the part of dlfree that does the same.
DisposeChunk(m, p) ==
    IF IsMmapped(m, p) THEN FreeMmapped(m, p)
    ELSE LET b == Backward(m, p, ChunkSize(m, p))
         IN Forward(Check(b.m, OkAddress(b.m, b.at + b.size)), b.at, b.size)

ShouldTrim(m, s) == s > m.trim_check

\* What dlfree does when a chunk went to top, or to a treebin.
AfterFree(m, before) ==
    LET added == {b \in m.bins \ before.bins : ~IsSmall(b.size)} IN
      IF m.topsize # before.topsize
      THEN IF ShouldTrim(m, m.topsize) THEN SysTrim(m, 0) ELSE m
      ELSE IF added = {} THEN m
      ELSE IF m.release_checks = 1 THEN ReleaseUnusedSegments(m)
      ELSE [m EXCEPT !.release_checks = @ - 1]

\* dlfree
Free(m, p) ==
    LET next == p + ChunkSize(m, p)
        checked == Check(m, /\ OkAddress(m, p) /\ IsInuse(m, p)
                            /\ ~IsMmapped(m, p) => p < next /\ HeaderAt(m, next).p)
    IN IF IsMmapped(m, p) THEN FreeMmapped(checked, p)
       ELSE AfterFree(DisposeChunk(checked, p), m)

-----------------------------------------------------------------------------
(* Taking a chunk that is there. *)

Outcome(m, p) == [m |-> m, p |-> p]

\* What is left of a chunk of a bin becomes the victim, if the request is
\* small, or goes to a bin; too little to be a chunk stays with the request.
SplitChunk(m, b, nb) ==
    LET unlinked == UnlinkChunk(m, b.at, b.size)
        rest == b.size - nb
        split == SetSizeAndPinuseOfFree(SetSizeAndPinuseOfInuse(unlinked, b.at, nb), b.at + nb, rest)
    IN IF rest < MinChunk THEN SetInuseAndPinuse(unlinked, b.at, b.size)
       ELSE IF IsSmall(nb) THEN ReplaceDv(split, b.at + nb, rest)
       ELSE InsertChunk(split, b.at + nb, rest)

\* The chunks of a bin that dlmalloc may take: those of the least size that
\* fits.  A small request takes one that fits without a remainder, and any
\* other only if the victim is too small; a large request, only if the victim
\* does not fit better.
Picks(m, nb) ==
    LET fits == {b \in m.bins : b.size >= nb}
        best == {b \in fits : \A other \in fits : b.size <= other.size}
    IN IF IsSmall(nb)
       THEN {b \in best : (IsSmall(b.size) /\ b.size <= nb + NextBin) \/ nb > m.dvsize}
       ELSE {b \in best : b.size < m.dvsize \/ m.dvsize < nb}

\* Split dv, or exhaust it.
FromDv(m, nb) ==
    LET p == m.dv
        rest == m.dvsize - nb
    IN IF rest >= MinChunk
       THEN SetSizeAndPinuseOfInuse(
              SetSizeAndPinuseOfFree(SetDv(m, p + nb, rest), p + nb, rest), p, nb)
       ELSE SetInuseAndPinuse(SetDv(m, NULL, 0), p, m.dvsize)

\* Split top, which is never used up.
FromTop(m, nb) ==
    SetSizeAndPinuseOfInuse(SetTop(m, m.top + nb, m.topsize - nb), m.top, nb)

-----------------------------------------------------------------------------
(* Memory from the system. *)

\* Mutant: only the first region counts.
Mutant_LeastAddr(m, a) == [m EXCEPT !.least_addr = IF @ = 0 THEN a ELSE @]

LeastAddr(m, a) == [m EXCEPT !.least_addr = IF @ = 0 \/ a < @ THEN a ELSE @]

\* mmap_alloc: a region for this chunk alone, with a fencepost behind it.
MmapAlloc(m, nb) ==
    LET mmsize == GranularityAlign(nb + 4)
        psize == mmsize - MmapFootPad
        chunk(a) == Put(Put(LeastAddr(Map(m, a, mmsize), a), a, Header(psize, FALSE, FALSE)),
                        a + psize, Fence)
    IN IF mmsize > nb /\ WithinLimit(m, mmsize)
       THEN {Outcome(chunk(a), a) : a \in Places(m, mmsize)} ELSE {}

\* prepend_alloc: the chunk is taken from the start of the new space, and the
\* rest joins what was first in the segment.
PrependAlloc(m, newbase, oldbase, nb) ==
    LET q == newbase + nb
        qsize == oldbase - q
        inuse == SetSizeAndPinuseOfInuse(
                   Check(m, oldbase > q /\ HeaderAt(m, oldbase).p /\ qsize >= MinChunk), newbase, nb)
        oldsize == ChunkSize(m, oldbase)
    IN Outcome(IF oldbase = m.top THEN SetTop(inuse, q, m.topsize + qsize)
               ELSE IF oldbase = m.dv THEN IntoDv(inuse, q, qsize)
               ELSE IF IsInuse(m, oldbase)
               THEN InsertChunk(SetFreeWithPinuse(inuse, q, qsize, oldbase), q, qsize)
               ELSE InsertChunk(SetFreeWithPinuse(UnlinkChunk(inuse, oldbase, oldsize), q,
                                                  qsize + oldsize, oldbase + oldsize),
                                q, qsize + oldsize),
               newbase)

\* add_segment: the record of the segment that was the first goes to the end
\* of the old top, with fenceposts behind it; the rest of the old top is
\* binned.
AddSegment(m, tbase, tsize) ==
    LET oldTop == m.top
        oldSeg == m.segs[SegmentHolding(m, oldTop)]
        asp == oldSeg.base + oldSeg.size - TopFoot
        csp == IF asp < oldTop + MinChunk THEN oldTop ELSE asp
        recorded == Put(SetSizeAndPinuseOfInuse(InitTop(m, tbase, tsize - TopFoot), csp, SegmentSize),
                        csp + SegmentSize, Fence)
        pushed == [recorded EXCEPT !.segs =
                     <<[base |-> tbase, size |-> tsize, record |-> NULL],
                       [Head(m.segs) EXCEPT !.record = csp]>> \o Tail(m.segs)]
    IN IF csp = oldTop THEN pushed
       ELSE InsertChunk(SetFreeWithPinuse(pushed, oldTop, csp - oldTop, csp), oldTop, csp - oldTop)

\* What sys_alloc does with a new region: the first is the heap; another one is
\* appended to the segment it follows, if that holds top, or prepended to the
\* one it precedes, or is a segment of its own.
Extend(m, nb, tbase, tsize) ==
    LET mapped == Map(m, tbase, tsize)
        lower == LeastAddr(mapped, tbase)
        before == {i \in DOMAIN m.segs : m.segs[i].base + m.segs[i].size = tbase}
        after == {i \in DOMAIN m.segs : m.segs[i].base = tbase + tsize}
        take(x) == IF nb < x.topsize THEN Outcome(FromTop(x, nb), x.top) ELSE Outcome(x, NULL)
    IN IF ~IsInitialized(m)
       THEN take(InitTop([lower EXCEPT !.segs = <<[base |-> tbase, size |-> tsize, record |-> NULL]>>,
                                       !.release_checks = MaxReleaseCheckRate],
                         tbase, tsize - TopFoot))
       ELSE IF \E i \in before : Holds(m.segs[i], m.top)
       THEN LET i == CHOOSE i \in before : TRUE
            IN take(InitTop([mapped EXCEPT !.segs[i].size = @ + tsize], m.top, m.topsize + tsize))
       ELSE IF after # {}
       THEN LET i == CHOOSE i \in after : TRUE
            IN PrependAlloc([lower EXCEPT !.segs[i].base = tbase, !.segs[i].size = @ + tsize],
                            tbase, tbase + tsize, nb)
       ELSE take(AddSegment(lower, tbase, tsize))

\* sys_alloc.  The system may refuse, even if it has room.
SysAlloc(m, nb) ==
    LET asize == GranularityAlign(nb + TopFoot + 1)
        direct == IF m.use_mmap /\ nb >= MmapThreshold /\ m.topsize # 0
                  THEN MmapAlloc(m, nb) ELSE {}
        extended == IF asize > nb /\ WithinLimit(m, asize)
                    THEN {Extend(m, nb, a, asize) : a \in Places(m, asize)} ELSE {}
    IN direct \cup extended \cup {Outcome(m, NULL)}

\* dlmalloc
Malloc(m, nb) ==
    IF Picks(m, nb) # {} THEN {Outcome(SplitChunk(m, b, nb), b.at) : b \in Picks(m, nb)}
    ELSE IF nb <= m.dvsize THEN {Outcome(FromDv(m, nb), m.dv)}
    ELSE IF nb < m.topsize THEN {Outcome(FromTop(m, nb), m.top)}
    ELSE SysAlloc(m, nb)

-----------------------------------------------------------------------------
(* Changing a chunk. *)

\* The chunk is cut to nb, and the rest of its size is given back.
CutTo(m, p, size, nb) ==
    DisposeChunk(SetInuse(SetInuse(m, p, nb), p + nb, size - nb), p + nb)

\* mmap_resize: a mapped chunk stays if it is big enough but not too big.
FitsMapped(m, p, nb) ==
    /\ ~IsSmall(nb)
    /\ ChunkSize(m, p) > nb
    /\ ChunkSize(m, p) - nb <= 2 * Granularity

\* try_realloc_chunk: p if the chunk can be given the size nb where it is.
TryRealloc(m, p, nb) ==
    LET oldsize == ChunkSize(m, p)
        next == p + oldsize
        nextsize == IF next = m.dv THEN m.dvsize ELSE ChunkSize(m, next)
        size == oldsize + nextsize
        rest == size - nb
        checked == Check(m, /\ OkAddress(m, p) /\ IsInuse(m, p)
                            /\ p < next /\ HeaderAt(m, next).p)
        unlinked == UnlinkChunk(checked, next, nextsize)
        no == Outcome(checked, NULL)
        yes(x) == Outcome(x, p)
    IN IF IsMmapped(m, p) THEN IF FitsMapped(m, p, nb) THEN yes(checked) ELSE no
       ELSE IF oldsize >= nb
       THEN yes(IF oldsize - nb >= MinChunk THEN CutTo(checked, p, oldsize, nb) ELSE checked)
       ELSE IF next = m.top
       THEN IF oldsize + m.topsize > nb
            THEN yes(SetTop(SetInuse(checked, p, nb), p + nb, oldsize + m.topsize - nb)) ELSE no
       ELSE IF HeaderAt(m, next).c \/ size < nb THEN no
       ELSE IF next = m.dv
       THEN yes(IF rest >= MinChunk
                THEN SetDv(ClearPinuse(SetSizeAndPinuseOfFree(SetInuse(checked, p, nb), p + nb, rest),
                                       p + size), p + nb, rest)
                ELSE SetDv(SetInuse(checked, p, size), NULL, 0))
       ELSE yes(IF rest < MinChunk THEN SetInuse(unlinked, p, size)
                ELSE CutTo(unlinked, p, size, nb))

\* The place in a chunk whose memory is aligned, with room for a chunk before.
AlignedAt(p, alignment) ==
    LET br == alignment * ((p + alignment) \div alignment) - 1
    IN IF br - p >= MinChunk THEN br ELSE br + alignment

\* Mutant: the size of the leader is not taken off.
Mutant_Carve(m, p, alignment, nb) ==
    LET aligned == (p + 1) % alignment = 0
        newp == IF aligned THEN p ELSE AlignedAt(p, alignment)
        lead == newp - p
        newsize == ChunkSize(m, p)
        moved == IF aligned THEN m
                 ELSE IF IsMmapped(m, p)
                 THEN Put(Forget(m, {p}), newp, [HeaderAt(m, p) EXCEPT !.size = newsize, !.foot = @ + lead])
                 ELSE DisposeChunk(SetInuse(SetInuse(m, newp, newsize), p, lead), p)
    IN Outcome(IF ~IsMmapped(moved, newp) /\ newsize > nb + MinChunk
               THEN CutTo(moved, newp, newsize, nb) ELSE moved,
               newp)

\* The second half of internal_memalign: the leader and the spare room at the
\* end are given back; a mapped chunk only moves within its region.
Carve(m, p, alignment, nb) ==
    LET aligned == (p + 1) % alignment = 0
        newp == IF aligned THEN p ELSE AlignedAt(p, alignment)
        lead == newp - p
        newsize == ChunkSize(m, p) - lead
        moved == IF aligned THEN m
                 ELSE IF IsMmapped(m, p)
                 THEN Put(Forget(m, {p}), newp, [HeaderAt(m, p) EXCEPT !.size = newsize, !.foot = @ + lead])
                 ELSE DisposeChunk(SetInuse(SetInuse(m, newp, newsize), p, lead), p)
    IN Outcome(IF ~IsMmapped(moved, newp) /\ newsize > nb + MinChunk
               THEN CutTo(moved, newp, newsize, nb) ELSE moved,
               newp)

SumUpTo(sizes, n) ==
    LET sum[i \in 0..n] == IF i = 0 THEN 0 ELSE sum[i - 1] + sizes[i] IN sum[n]

\* contents_size of ialloc, a size_t.
ContentsSize(sizes) == Wrap(SumUpTo(sizes, Len(sizes)))

\* What internal_malloc makes of contents_size less CHUNK_OVERHEAD: that of
\* nothing is larger than any request.
RequestOf(sizes) ==
    IF ContentsSize(sizes) = 0 THEN MaxSize ELSE Max({ContentsSize(sizes), MinChunk})

\* Where the parts of a chunk begin; beyond MaxSize there is no memory, and an
\* address there is left as it is.
Starts(p, sizes) == [i \in DOMAIN sizes |-> p + SumUpTo(sizes, i - 1)]

\* What is left of n, a size_t: taking more than there is wraps.
Remaining(n) == IF n < 0 THEN Wrap(n) ELSE n

\* The second half of ialloc: the chunk is divided into one for each size, of
\* which the last takes what is left.
Divide(m, p, sizes) ==
    LET starts == Starts(p, sizes)
        end == p + ChunkSize(m, p)
        sizeOf(i) == IF i = Len(sizes) THEN Remaining(end - starts[i]) ELSE sizes[i]
        divided[i \in 0..Len(sizes)] ==
          IF i = 0 THEN Check(m, ~IsMmapped(m, p))
          ELSE SetSizeAndPinuseOfInuse(divided[i - 1], starts[i], sizeOf(i))
    IN divided[Len(sizes)]

\* internal_bulk_free: chunks that follow each other in the array and in memory
\* are joined before they are disposed of.
BulkFree(m, array) ==
    LET step(acc, i) ==
          LET p == IF acc.joined # NULL THEN acc.joined ELSE array[i]
              next == p + ChunkSize(acc.m, p)
              checked == Check(acc.m, OkAddress(acc.m, p) /\ IsInuse(acc.m, p))
          IN IF i < Len(array) /\ array[i + 1] = next
             THEN [m |-> SetInuse(checked, p, next - p + ChunkSize(acc.m, next)), joined |-> p]
             ELSE [m |-> DisposeChunk(checked, p), joined |-> NULL]
        freed[i \in 0..Len(array)] ==
          IF i = 0 THEN [m |-> m, joined |-> NULL] ELSE step(freed[i - 1], i)
        after == freed[Len(array)].m
    IN IF ShouldTrim(after, after.topsize) THEN SysTrim(after, 0) ELSE after
=============================================================================
