------------------------------ MODULE DlMalloc ------------------------------
(***************************************************************************)
(* The allocator of the program (dlmalloc.c) with the threads that use it. *)
(* What a call does under the lock is one step; realloc, memalign and      *)
(* ialloc take the lock more than once, and the calls of other threads may *)
(* come between their steps.  Callers free and resize only blocks they     *)
(* hold.  Threads have no names: calls has what each is in the middle of.  *)
(*                                                                         *)
(* The program itself calls malloc and free only (operator new and delete  *)
(* of CUniqueEvent and CRegKeyValue); the rest is the library's interface. *)
(***************************************************************************)
EXTENDS MallocRoutines

CONSTANTS Requests,     \* sizes of chunks asked for, after request2size
          Aligned,      \* pairs of an alignment, in units, and a size
          Elements,     \* sequences of sizes given to ialloc
          Pads,         \* arguments of dlmalloc_trim
          Limits,       \* arguments of dlmalloc_set_footprint_limit
          IallocAlone,  \* whether other threads wait while one is in ialloc
          MaxBlocks,    \* bound: blocks held
          MaxPending    \* bound: calls that are in the middle

\* request2size gives at least MIN_CHUNK_SIZE, unless it wraps: that of an
\* element is not asked for as it is, and may.
ASSUME RequestsAssumption ==
    /\ Requests \subseteq MinChunk..MaxSize
    /\ \A request \in Aligned : /\ request = <<request[1], request[2]>>
                                /\ request[1] \in Nat \ {0}
                                /\ request[2] \in MinChunk..MaxSize
    /\ \A sizes \in Elements : sizes \in Seq(0..MaxSize) /\ sizes # <<>>
ASSUME ArgumentsAssumption ==
    Pads \subseteq Nat /\ Limits \subseteq 0..MaxSize /\ IallocAlone \in BOOLEAN

\* No array has a size, or a sum of its sizes, that wraps.  ialloc does not
\* ask: of other arrays it allocates what is left of the sum and divides more
\* than that.
ArraysFit ==
    \A sizes \in Elements :
      sizes \in Seq(MinChunk..MaxSize) /\ SumUpTo(sizes, Len(sizes)) <= MaxSize

VARIABLES
    gm,     \* the malloc_state
    owned,  \* the chunks callers hold, and the size each was asked to have
    calls   \* the calls between two of their steps

vars == <<gm, owned, calls>>

Enter(call) == calls' = calls \cup {call} /\ Cardinality(calls) < MaxPending
Return(c) == calls' = calls \ {c}

\* A block a call is working on is nobody else's.
Held == DOMAIN owned \ UNION {{c.p, c.new} : c \in calls}

\* A program that has aborted makes no more calls.
InIalloc(c) == c.op \in {"disabled", "taken"}
OthersWait(c) == IallocAlone => \A d \in calls \ {c} : ~InIalloc(d)
MayCall == ~gm.aborted /\ (IallocAlone => \A c \in calls : ~InIalloc(c))

Own(p, nb) == owned' = IF p = NULL THEN owned ELSE With(owned, p, nb)
Disown(addresses) == owned' = Restrict(owned, DOMAIN owned \ addresses)

Room == Cardinality(DOMAIN owned) < MaxBlocks

dlmalloc(nb) ==
    /\ MayCall /\ Room
    /\ \E o \in Malloc(gm, nb) : gm' = o.m /\ Own(o.p, nb)
    /\ UNCHANGED calls

dlfree(p) ==
    /\ MayCall
    /\ gm' = Free(gm, p)
    /\ Disown({p})
    /\ UNCHANGED calls

\* dlrealloc tries to keep the chunk; failing that, it has given up the lock
\* before it takes a new one, and again before it frees the old one.
dlrealloc(p, nb) ==
    /\ MayCall /\ Room
    /\ LET o == TryRealloc(gm, p, nb) IN
         /\ gm' = o.m
         /\ IF o.p # NULL THEN owned' = [owned EXCEPT ![p] = nb] /\ UNCHANGED calls
            ELSE UNCHANGED owned /\ Enter([op |-> "move", p |-> p, new |-> NULL, nb |-> nb])

ReallocMove(c) ==
    /\ c.op = "move" /\ OthersWait(c)
    /\ \E o \in Malloc(gm, c.nb) :
         /\ gm' = o.m
         /\ Own(o.p, c.nb)
         /\ IF o.p = NULL THEN Return(c)
            ELSE calls' = (calls \ {c}) \cup {[c EXCEPT !.op = "moved", !.new = o.p]}

ReallocFree(c) ==
    /\ c.op = "moved" /\ OthersWait(c)
    /\ gm' = Free(gm, c.p)
    /\ Disown({c.p})
    /\ Return(c)

dlrealloc_in_place(p, nb) ==
    /\ MayCall
    /\ LET o == TryRealloc(gm, p, nb) IN
         gm' = o.m /\ owned' = IF o.p = p THEN [owned EXCEPT ![p] = nb] ELSE owned
    /\ UNCHANGED calls

\* internal_memalign takes a chunk with room to spare, and the lock again to
\* cut it.
dlmemalign(alignment, nb) ==
    /\ MayCall /\ Room
    /\ LET size == nb + alignment + MinChunk IN
         \E o \in Malloc(gm, size) :
           /\ gm' = o.m
           /\ Own(o.p, size)
           /\ IF o.p = NULL THEN UNCHANGED calls
              ELSE Enter([op |-> "align", p |-> o.p, new |-> NULL,
                          alignment |-> alignment, nb |-> nb])

MemalignCarve(c) ==
    /\ c.op = "align" /\ OthersWait(c)
    /\ LET o == Carve(gm, c.p, c.alignment, c.nb) IN
         gm' = o.m /\ owned' = With(Restrict(owned, DOMAIN owned \ {c.p}), o.p, c.nb)
    /\ Return(c)

\* ialloc changes a flag of the malloc_state without the lock, so that the
\* chunk to divide is not mapped.
ialloc(sizes) ==
    /\ MayCall
    /\ Cardinality(DOMAIN owned) + Len(sizes) <= MaxBlocks
    /\ gm' = [gm EXCEPT !.use_mmap = FALSE]
    /\ Enter([op |-> "disabled", p |-> NULL, new |-> NULL, sizes |-> sizes,
               was_enabled |-> gm.use_mmap])
    /\ UNCHANGED owned

IallocMalloc(c) ==
    /\ c.op = "disabled"
    /\ \E o \in Malloc(gm, RequestOf(c.sizes)) :
         /\ gm' = [o.m EXCEPT !.use_mmap = c.was_enabled \/ @]
         /\ Own(o.p, RequestOf(c.sizes))
         /\ IF o.p = NULL THEN Return(c)
            ELSE calls' = (calls \ {c}) \cup {[c EXCEPT !.op = "taken", !.p = o.p]}

IallocDivide(c) ==
    /\ c.op = "taken"
    /\ gm' = Divide(gm, c.p, c.sizes)
    /\ LET starts == Starts(c.p, c.sizes) IN
         owned' = [q \in (DOMAIN owned \ {c.p}) \cup Range(starts) |->
                     IF q \in Range(starts)
                     THEN c.sizes[CHOOSE i \in DOMAIN starts : starts[i] = q] ELSE owned[q]]
    /\ Return(c)

dlbulk_free(array) ==
    /\ MayCall /\ Len(array) > 1
    /\ gm' = BulkFree(gm, array)
    /\ Disown(Range(array))
    /\ UNCHANGED calls

dlmalloc_trim(pad) ==
    /\ MayCall
    /\ gm' = SysTrim(gm, pad)
    /\ UNCHANGED <<owned, calls>>

\* Bound: the limit is set before the heap is used.
dlmalloc_set_footprint_limit(bytes) ==
    /\ MayCall /\ ~IsInitialized(gm)
    /\ gm' = [gm EXCEPT !.footprint_limit = IF bytes = MaxSize THEN 0 ELSE GranularityAlign(bytes)]
    /\ UNCHANGED <<owned, calls>>

Init == gm = EmptyState /\ owned = <<>> /\ calls = {}

Next ==
    \/ \E nb \in Requests \cup {MaxSize} : dlmalloc(nb)
    \/ \E p \in Held : dlfree(p)
    \/ \E p \in Held, nb \in Requests : dlrealloc(p, nb) \/ dlrealloc_in_place(p, nb)
    \/ \E c \in calls : ReallocMove(c) \/ ReallocFree(c)
    \/ \E request \in Aligned : dlmemalign(request[1], request[2])
    \/ \E c \in calls : MemalignCarve(c)
    \/ \E sizes \in Elements : ialloc(sizes)
    \/ \E c \in calls : IallocMalloc(c) \/ IallocDivide(c)
    \/ \E array \in SetToAllKPermutations(Held) : dlbulk_free(array)
    \/ \E pad \in Pads : dlmalloc_trim(pad)
    \/ \E bytes \in Limits : dlmalloc_set_footprint_limit(bytes)

Spec == Init /\ [][Next]_vars

-----------------------------------------------------------------------------
(* Properties. *)

\* No check of the heap's integrity and no assertion fails, whatever the
\* callers ask for and wherever the system puts its regions: the program is
\* never aborted for a block it was right to free or resize.
NeverAborts == ~gm.aborted

Chunks == DOMAIN gm.chunks
EndOf(p) == p + gm.chunks[p].size
FreeChunks == {p \in Chunks : ~IsInuse(gm, p)}
Mapped == {p \in Chunks : IsMmapped(gm, p)}
Records == {seg.record : seg \in Range(gm.segs)} \ {NULL}

\* One chunk behind the other, up to top or to the fenceposts, and nothing
\* between them.  The header behind a chunk says whether it is in use, and its
\* size if it is free; the word for the size is the caller's if it is in use.
Tiled(seg) ==
    LET within == {p \in Chunks : Holds(seg, p)}
        fences == {p \in within : gm.chunks[p] = Fence}
        last == IF Holds(seg, gm.top) THEN gm.top ELSE Min(fences)
        walked == {p \in within : p <= last}
    IN /\ seg.base \in walked /\ gm.chunks[seg.base].p
       /\ \A p \in walked \ {last} :
            /\ EndOf(p) \in walked
            /\ \A q \in walked : q <= p \/ q >= EndOf(p)
            /\ gm.chunks[EndOf(p)].p <=> gm.chunks[p].c
            /\ gm.chunks[EndOf(p)].foot = IF gm.chunks[p].c THEN 0 ELSE gm.chunks[p].size

\* No free chunk borders another one, as the comment on chunks says.
FreeChunksApart == \A p, q \in FreeChunks : EndOf(p) # q

\* Each segment can be walked from its start and, through free chunks, back.
\* Top is at the end of its segment, with room for a segment record behind it,
\* and the record of any other segment is in that segment, at its end.
BoundaryTags ==
    /\ \A seg \in Range(gm.segs) :
         /\ Tiled(seg)
         /\ IF seg.record = NULL
            THEN Holds(seg, gm.top) /\ EndOf(gm.top) = seg.base + seg.size - TopFoot
            ELSE Holds(seg, seg.record) /\ gm.chunks[seg.record].c
    /\ FreeChunksApart

\* The bins hold exactly the free chunks that are neither top nor the victim,
\* each by its own size; the victim and top are free chunks of the size that is
\* kept of them, and top is never empty.
BinsExact ==
    /\ gm.bins = {[at |-> p, size |-> gm.chunks[p].size] : p \in FreeChunks \ {gm.top, gm.dv}}
    /\ IF gm.dv = NULL THEN gm.dvsize = 0
       ELSE gm.dv \in FreeChunks /\ gm.chunks[gm.dv].size = gm.dvsize /\ gm.dvsize > 0
    /\ IsInitialized(gm) =>
         gm.top \in FreeChunks /\ gm.chunks[gm.top].size = gm.topsize /\ gm.topsize > 0

\* The heap is what do_check_malloc_state expects of it, between any two
\* sections under the lock.
HeapSound == BoundaryTags /\ BinsExact

\* What is in use is held by a caller or is the record of a segment; what the
\* system gave is in a segment or in the region of a mapped chunk, which are
\* whole regions; and the footprint is what the system gave.
NothingLeaks ==
    LET direct == {[base |-> p - gm.chunks[p].foot, end |-> EndOf(p) + MmapFootPad] : p \in Mapped}
        spaces == direct \cup {[base |-> s.base, end |-> s.base + s.size] : s \in Range(gm.segs)}
        given == MapThenSumSet(LAMBDA r : gm.regions[r], DOMAIN gm.regions)
    IN /\ Chunks \ FreeChunks = DOMAIN owned \cup Records \cup {p \in Chunks : gm.chunks[p] = Fence}
       /\ \A r \in DOMAIN gm.regions :
            \E x \in spaces : x.base <= r /\ r + gm.regions[r] <= x.end
       /\ MapThenSumSet(LAMBDA x : x.end - x.base, spaces) = given
       /\ gm.footprint = given

\* The blocks of the abstract heap.  A mapped chunk has one word less to give.
Blocks == {[at |-> p, size |-> ChunkSize(gm, p),
            need |-> owned[p] + (IF IsMmapped(gm, p) THEN 1 ELSE 0)] : p \in DOMAIN owned}

HeapSpec == INSTANCE Heap WITH blocks <- Blocks

\* The allocator keeps the promise of Heap: every step of every call gives,
\* takes back, resizes or divides blocks of that call, apart from all others.
KeepsPromise == HeapSpec!Spec
=============================================================================
