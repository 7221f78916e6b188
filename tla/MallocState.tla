----------------------------- MODULE MallocState ----------------------------
(***************************************************************************)
(* The heap of dlmalloc.c as the record m of its malloc_state and of the   *)
(* headers in the memory it manages, and what each internal routine makes  *)
(* of it.  The unit of addresses and sizes is MALLOC_ALIGNMENT, which is   *)
(* two words; a chunk's header is its first unit.  A bin is the set of its *)
(* chunks (TreeBins has the tries of the larger ones), and the foot of a   *)
(* chunk is kept with the header behind it, as in the code.                *)
(*                                                                         *)
(* The build is that of Windows: memory comes from VirtualAlloc only       *)
(* (HAVE_MORECORE is 0), there is no mremap, and a failed check of the     *)
(* heap's integrity aborts (PROCEED_ON_ERROR is 0).                        *)
(***************************************************************************)
EXTENDS Integers, Sequences, FiniteSets, FiniteSetsExt, SequencesExt, Functions

CONSTANTS Granularity,      \* of system memory; mparams.granularity
          MmapThreshold,    \* mparams.mmap_threshold
          TrimThreshold,    \* mparams.trim_threshold
          MaxReleaseCheckRate,
          MinLarge,         \* MIN_LARGE_SIZE: chunks from there on are in treebins
          NextBin,          \* 1 if bins are as close as chunk sizes (Win32), else 0 (x64)
          MaxSize,          \* the largest size_t
          MemoryEnd         \* end of the address space; it begins at Granularity

ASSUME GranularityAssumption ==
    /\ Granularity \in Nat /\ MinLarge \in Nat /\ MinLarge > 2
    /\ Granularity >= MinLarge + 5
    /\ NextBin \in {0, 1}
    /\ MaxReleaseCheckRate \in Nat \ {0}
ASSUME SizeAssumption ==
    /\ {MmapThreshold, TrimThreshold, MemoryEnd} \subseteq Nat
    /\ MaxSize \in Nat /\ (MaxSize + 1) % Granularity = 0
    /\ MaxSize >= 2 * MemoryEnd + 2 * Granularity

NULL == 0
MinChunk == 2         \* MIN_CHUNK_SIZE: four words
SegmentSize == 3      \* a chunk for a malloc_segment
TopFoot == SegmentSize + MinChunk    \* TOP_FOOT_SIZE
MmapFootPad == 2      \* MMAP_FOOT_PAD

\* Arithmetic of size_t.
Wrap(n) == n % (MaxSize + 1)

GranularityAlign(n) == Granularity * (Wrap(n + Granularity - 1) \div Granularity)

-----------------------------------------------------------------------------
(* Headers. *)

\* A header: the size, CINUSE_BIT, PINUSE_BIT and prev_foot, which is nothing
\* unless the chunk before is free.
Header(size, c, p) == [size |-> size, c |-> c, p |-> p, foot |-> 0]

\* A fencepost is in use and has no size.
Fence == Header(0, TRUE, TRUE)

\* What is read where no header was written.
HeaderAt(m, a) == IF a \in DOMAIN m.chunks THEN m.chunks[a] ELSE Header(0, FALSE, FALSE)

ChunkSize(m, a) == HeaderAt(m, a).size
IsInuse(m, a) == HeaderAt(m, a).c \/ ~HeaderAt(m, a).p
IsMmapped(m, a) == ~HeaderAt(m, a).c /\ ~HeaderAt(m, a).p

\* The function f with y at x.
With(f, x, y) == [z \in DOMAIN f \cup {x} |-> IF z = x THEN y ELSE f[z]]

Forget(m, addresses) ==
    [m EXCEPT !.chunks = Restrict(m.chunks, DOMAIN m.chunks \ addresses)]

\* Setting a header ends what was in the chunk.
Put(m, a, header) ==
    LET inside == (a + 1)..(a + header.size - 1)
    IN [m EXCEPT !.chunks =
          [x \in (DOMAIN m.chunks \ inside) \cup {a} |-> IF x = a THEN header ELSE m.chunks[x]]]

\* next->head |= PINUSE_BIT, and clear_pinuse
MarkPinuse(m, a) == Put(m, a, [HeaderAt(m, a) EXCEPT !.p = TRUE, !.foot = 0])
ClearPinuse(m, a) == Put(m, a, [HeaderAt(m, a) EXCEPT !.p = FALSE])

SetInuse(m, a, s) ==
    MarkPinuse(Put(m, a, [HeaderAt(m, a) EXCEPT !.size = s, !.c = TRUE]), a + s)

\* Mutant: the chunk behind is not told.
Mutant_SetInuseAndPinuse(m, a, s) == Put(m, a, Header(s, TRUE, TRUE))

SetInuseAndPinuse(m, a, s) == MarkPinuse(Put(m, a, Header(s, TRUE, TRUE)), a + s)
SetSizeAndPinuseOfInuse(m, a, s) == Put(m, a, Header(s, TRUE, TRUE))
SetSizeAndPinuseOfFree(m, a, s) ==
    LET marked == Put(m, a, Header(s, FALSE, TRUE))
    IN Put(marked, a + s, [HeaderAt(marked, a + s) EXCEPT !.foot = s])
SetFreeWithPinuse(m, a, s, next) == SetSizeAndPinuseOfFree(ClearPinuse(m, next), a, s)

-----------------------------------------------------------------------------
(* The state, and its bins. *)

EmptyState ==
    [chunks |-> <<>>,           \* the headers, by address
     bins |-> {},               \* smallbins and treebins
     dv |-> NULL, dvsize |-> 0, \* the designated victim
     top |-> NULL, topsize |-> 0,
     segs |-> <<>>,             \* seg and its list; the first has no record chunk
     footprint |-> 0,
     footprint_limit |-> 0,
     least_addr |-> 0,
     trim_check |-> 0,
     release_checks |-> 0,
     use_mmap |-> TRUE,         \* USE_MMAP_BIT
     regions |-> <<>>,          \* sizes of what VirtualAlloc gave, by address
     aborted |-> FALSE]

IsInitialized(m) == m.top # NULL

\* RTCHECK and assert: the program aborts unless the condition holds.
Check(m, condition) == IF condition THEN m ELSE [m EXCEPT !.aborted = TRUE]

OkAddress(m, a) == a >= m.least_addr

IsSmall(s) == s < MinLarge

InsertChunk(m, a, s) == [m EXCEPT !.bins = @ \cup {[at |-> a, size |-> s]}]

\* A bin finds its chunk by the chunk's size.
UnlinkChunk(m, a, s) ==
    LET b == [at |-> a, size |-> s]
    IN Check([m EXCEPT !.bins = @ \ {b}], b \in m.bins)

SetDv(m, a, s) == [m EXCEPT !.dv = a, !.dvsize = s]

\* The old victim is small, and goes to its smallbin.
ReplaceDv(m, a, s) ==
    SetDv(IF m.dvsize # 0 THEN InsertChunk(Check(m, IsSmall(m.dvsize)), m.dv, m.dvsize) ELSE m, a, s)

\* The top chunk's header is written with it.
SetTop(m, a, s) == Put([m EXCEPT !.top = a, !.topsize = s], a, Header(s, FALSE, TRUE))

InitTop(m, a, s) == [SetTop(m, a, s) EXCEPT !.trim_check = TrimThreshold]

Holds(seg, a) == seg.base <= a /\ a < seg.base + seg.size

\* segment_holding: the place of the segment in the list.
SegmentHolding(m, a) == CHOOSE i \in DOMAIN m.segs : Holds(m.segs[i], a)

\* has_segment_link
HasSegmentLink(m, seg) == \E other \in Range(m.segs) : other.record # NULL /\ Holds(seg, other.record)

-----------------------------------------------------------------------------
(* The system: VirtualAlloc and win32munmap. *)

\* Where VirtualAlloc may place a region.
Places(m, size) ==
    {a \in {Granularity * k : k \in 1..(MemoryEnd \div Granularity)} :
       /\ a + size <= MemoryEnd
       /\ \A r \in DOMAIN m.regions : a + size <= r \/ r + m.regions[r] <= a}

Map(m, a, size) == [m EXCEPT !.regions = With(@, a, size), !.footprint = @ + size]

\* Only whole regions are given back, from the start of one.
CanUnmap(m, a, size) ==
    LET within == {r \in DOMAIN m.regions : a <= r /\ r < a + size}
    IN /\ size > 0 => a \in within
       /\ MapThenSumSet(LAMBDA r : m.regions[r], within) = size

Unmap(m, a, size) ==
    LET gone == a..(a + size - 1)
    IN [Forget(m, gone) EXCEPT !.regions = Restrict(@, DOMAIN @ \ gone), !.footprint = @ - size]

\* The limit of the footprint; 0 is none.
WithinLimit(m, size) ==
    m.footprint_limit # 0 =>
      LET fp == Wrap(m.footprint + size) IN fp > m.footprint /\ fp <= m.footprint_limit

=============================================================================
