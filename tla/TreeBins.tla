------------------------------ MODULE TreeBins ------------------------------
(***************************************************************************)
(* The treebins of dlmalloc.c: the tries that hold the large free chunks.  *)
(* A trie has one chunk of each size, the branch at each of its levels is  *)
(* a bit of the size, and the other chunks of a size are in a ring with    *)
(* it.  DlMalloc has only the set of the chunks of all bins; here is what  *)
(* it leaves out.  Chunks come and go as the rest of the allocator frees   *)
(* and joins them; sizes are in bytes, with SizeBits bits.                 *)
(***************************************************************************)
EXTENDS Naturals, FiniteSets, Sequences, FiniteSetsExt, SequencesExt, Functions

CONSTANTS Chunks,       \* names of chunks; it bounds how many are free
          NULL, BIN,    \* no chunk, and the parent of a root
          SizeBits,     \* SIZE_T_BITSIZE
          TreeBinShift, \* TREEBIN_SHIFT
          NTreeBins,    \* NTREEBINS
          FreeSizes,    \* sizes of the chunks the allocator puts into a bin
          Requests,     \* sizes of chunks asked for
          DvSizes       \* sizes of the designated victim

ASSUME WidthAssumption ==
    /\ {SizeBits, TreeBinShift, NTreeBins} \subseteq Nat \ {0, 1}
    /\ NTreeBins % 2 = 0 /\ NTreeBins \div 2 + TreeBinShift <= SizeBits

\* The powers of two that a word has, and n >> k: a bit of n is lost k times.
Pow2[k \in 0..SizeBits] == IF k = 0 THEN 1 ELSE 2 * Pow2[k - 1]

ShiftRight(n, k) ==
    LET shifted[j \in 0..SizeBits] == IF j = 0 THEN n ELSE shifted[j - 1] \div 2 IN shifted[k]

MinLarge == Pow2[TreeBinShift]
Words == 0..(Pow2[SizeBits] - 1)
LargeSizes == {n \in Words : n >= MinLarge}
Bins == 0..(NTreeBins - 1)

ASSUME ChunkSizesAssumption ==
    /\ NULL \notin Chunks /\ BIN \notin Chunks \cup {NULL}
    /\ FreeSizes \subseteq LargeSizes
    /\ Requests \subseteq Words \ {0} /\ DvSizes \subseteq Words

VARIABLES
    bins,   \* treebins and treemap, and the malloc_tree_chunks in them
    answer  \* of the last search: its request, the victim's size, the chunk it took

vars == <<bins, answer>>

NoAnswer == [nb |-> 0, elsewhere |-> 0, chunk |-> NULL]

Answer(nb, dvsize, chunk) == [nb |-> nb, elsewhere |-> dvsize, chunk |-> chunk]

-----------------------------------------------------------------------------
(* Arithmetic. *)

Wrap(n) == n % Pow2[SizeBits]
Minus(a, b) == Wrap(a + Pow2[SizeBits] - b)

Bit(n, k) == ShiftRight(n, k) % 2

\* compute_tree_index: two bins for each power of two, and one for the rest.
TreeIndex(s) ==
    LET x == ShiftRight(s, TreeBinShift) IN
      IF x = 0 THEN 0
      ELSE IF ShiftRight(x, NTreeBins \div 2) # 0 THEN NTreeBins - 1
      ELSE LET k == CHOOSE j \in 0..SizeBits : ShiftRight(x, j) = 1     \* _BitScanReverse
           IN 2 * k + Bit(s, k + TreeBinShift - 1)

\* leftshift_for_tree_index: it makes the highest bit that sizes of a bin may
\* differ in the highest of the word.
LeftShift(i) == IF i = NTreeBins - 1 THEN 0
                ELSE SizeBits - 1 - (i \div 2 + TreeBinShift - 2)

\* The child towards a size at a depth of bin i: the top bit of the shifted size.
Branch(s, i, depth) ==
    LET k == LeftShift(i) + depth IN
      IF k >= SizeBits THEN 0 ELSE Bit(s, SizeBits - 1 - k)

-----------------------------------------------------------------------------
(* Walks. *)

SizeOf(b, t) == b.node[t].size

\* What is reached in each of n rounds from the first, where round d goes on
\* to next[d] of what it has reached.
Walk(first, next, n) ==
    LET at[d \in 0..n] ==
          IF d = 0 THEN first
          ELSE LET x == at[d - 1] IN IF x = NULL THEN NULL ELSE next[d - 1][x]
    IN at

Nodes(walk) == Range(walk) \ {NULL}

\* The round after which nothing is reached any more.
End(walk) ==
    CHOOSE d \in DOMAIN walk : walk[d] # NULL /\ (d + 1 \in DOMAIN walk => walk[d + 1] = NULL)

\* From the root of bin i towards size s: it ends with that size, or where
\* there is no child.
Path(b, i, s) ==
    Walk(b.head[i],
         [d \in 0..SizeBits |-> [t \in DOMAIN b.node |->
            IF SizeOf(b, t) = s THEN NULL ELSE b.node[t].child[Branch(s, i, d)]]],
         SizeBits)

\* leftmost_child
LeftmostChild(b, t) ==
    IF b.node[t].child[0] # NULL THEN b.node[t].child[0] ELSE b.node[t].child[1]

LeftmostPath(b, root) ==
    Walk(root, [d \in 0..SizeBits |-> [t \in DOMAIN b.node |-> LeftmostChild(b, t)]], SizeBits)

RightmostChild(b, t) ==
    IF b.node[t].child[1] # NULL THEN b.node[t].child[1] ELSE b.node[t].child[0]

\* The end of the rightmost path, which is a leaf.
RightmostLeaf(b, root) ==
    LET next == [t \in DOMAIN b.node |-> RightmostChild(b, t)]
        path == Walk(root, [d \in 0..SizeBits |-> next], SizeBits)
    IN path[End(path)]

-----------------------------------------------------------------------------
(* Changes. *)

NoChild == [d \in {0, 1} |-> NULL]

Node(s, fd, bk, parent) ==
    [size |-> s, index |-> TreeIndex(s), fd |-> fd, bk |-> bk, parent |-> parent, child |-> NoChild]

AddNode(b, x, n) ==
    [b EXCEPT !.node = [y \in DOMAIN b.node \cup {x} |-> IF y = x THEN n ELSE b.node[y]]]

\* insert_large_chunk
InsertLargeChunk(b, x, s) ==
    LET i == TreeIndex(s)
        path == Path(b, i, s)
        depth == End(path)
        t == path[depth]
        f == b.node[t].fd
    IN IF i \notin b.treemap
       THEN [AddNode(b, x, Node(s, x, x, BIN)) EXCEPT !.treemap = @ \cup {i}, !.head[i] = x]
       ELSE IF SizeOf(b, t) # s
       THEN [AddNode(b, x, Node(s, x, x, t))
               EXCEPT !.node[t].child[Branch(s, i, depth)] = x]
       ELSE [AddNode(b, x, Node(s, f, t, NULL)) EXCEPT !.node[t].fd = x, !.node[f].bk = x]

\* A chunk's parent, or its bin, points to r instead.
Redirect(b, x, r) ==
    LET p == b.node[x].parent
        i == b.node[x].index
    IN IF b.head[i] = x
       THEN [b EXCEPT !.head[i] = r, !.treemap = IF r = NULL THEN @ \ {i} ELSE @]
       ELSE [b EXCEPT !.node[p].child[IF b.node[p].child[0] = x THEN 0 ELSE 1] = r]

\* The children of x become those of r, which had none.
Adopt(b, x, r) ==
    [b EXCEPT !.node = [t \in DOMAIN b.node |->
        IF t = r THEN [b.node[r] EXCEPT !.parent = b.node[x].parent, !.child = b.node[x].child]
        ELSE IF t \in Range(b.node[x].child) THEN [b.node[t] EXCEPT !.parent = r]
        ELSE b.node[t]]]

\* Mutant: a chunk without others of its size is replaced by its child, which
\* may have children itself.
Mutant_Replacement(b, x) ==
    IF b.node[x].bk # x THEN b.node[x].bk
    ELSE IF b.node[x].child[1] # NULL THEN b.node[x].child[1] ELSE b.node[x].child[0]

\* What comes in a chunk's place: its neighbour in the ring, or a leaf below it.
Replacement(b, x) ==
    IF b.node[x].bk # x THEN b.node[x].bk
    ELSE IF RightmostLeaf(b, x) = x THEN NULL ELSE RightmostLeaf(b, x)

\* unlink_large_chunk.  A ring that is broken aborts the program.
UnlinkLargeChunk(b, x) ==
    LET r == Replacement(b, x)
        fd == b.node[x].fd
        freed ==    \* r, out of its ring or off its parent
          IF b.node[x].bk # x
          THEN [b EXCEPT !.node[fd].bk = r, !.node[r].fd = fd,
                         !.aborted = @ \/ b.node[fd].bk # x \/ b.node[r].fd # x]
          ELSE IF r # NULL THEN Redirect(b, r, NULL) ELSE b
        relinked ==
          IF b.node[x].parent = NULL THEN freed
          ELSE LET moved == Redirect(freed, x, r) IN IF r # NULL THEN Adopt(moved, x, r) ELSE moved
    IN [relinked EXCEPT !.node = Restrict(@, DOMAIN @ \ {x})]

-----------------------------------------------------------------------------
(* Searches. *)

\* How much of a chunk a request leaves; a chunk too small leaves a lot.
Rest(b, t, nb) == Minus(SizeOf(b, t), nb)

Fitting(b, seen, nb) == {t \in seen : Rest(b, t, nb) < Minus(0, nb)}

\* The chunk that leaves least of those a search has seen.
Smallest(b, seen, nb) ==
    IF Fitting(b, seen, nb) = {} THEN NULL
    ELSE CHOOSE t \in Fitting(b, seen, nb) :
           \A u \in Fitting(b, seen, nb) : Rest(b, t, nb) <= Rest(b, u, nb)

\* rst: the deepest right child beside a path that went left.
DeepestUntaken(b, path, i, nb) ==
    LET left == {d \in 0..SizeBits :
                   path[d] # NULL /\ Branch(nb, i, d) = 0 /\ b.node[path[d]].child[1] # NULL}
    IN IF left = {} THEN NULL ELSE b.node[path[Max(left)]].child[1]

\* The root of the first bin of a set, if there is one.
FirstRoot(b, indices) == IF indices = {} THEN NULL ELSE b.head[Min(indices)]

\* Mutant: the bins of larger sizes are only looked at if the request's own
\* bin is empty.
Mutant_BestLarge(b, nb) ==
    LET i == TreeIndex(nb)
        path == Path(b, i, nb)
        t == IF i \notin b.treemap THEN FirstRoot(b, {j \in b.treemap : j > i})
             ELSE DeepestUntaken(b, path, i, nb)
    IN Smallest(b, Nodes(path) \cup Nodes(LeftmostPath(b, t)), nb)

\* The searches of tmalloc_large: a path in the request's bin, then the
\* leftmost path of what is beside it, or else of the next bin.
BestLarge(b, nb) ==
    LET i == TreeIndex(nb)
        path == Path(b, i, nb)
        exact == Nodes(path) # {} /\ SizeOf(b, path[End(path)]) = nb
        rst == DeepestUntaken(b, path, i, nb)
        t == IF exact THEN path[End(path)]
             ELSE IF rst = NULL /\ Smallest(b, Nodes(path), nb) = NULL
             THEN FirstRoot(b, {j \in b.treemap : j > i})   \* left_bits
             ELSE rst
    IN Smallest(b, Nodes(path) \cup Nodes(LeftmostPath(b, t)), nb)

\* tmalloc_small searches the first bin there is.
BestSmall(b, nb) == Smallest(b, Nodes(LeftmostPath(b, FirstRoot(b, b.treemap))), nb)

-----------------------------------------------------------------------------

Init ==
    /\ bins = [head |-> [i \in Bins |-> NULL], treemap |-> {}, node |-> <<>>, aborted |-> FALSE]
    /\ answer = NoAnswer

InBins == DOMAIN bins.node

\* The allocator frees a chunk, and joins a free chunk with another.
insert_large_chunk(x, s) ==
    /\ x \notin InBins
    /\ bins' = InsertLargeChunk(bins, x, s)
    /\ answer' = NoAnswer

unlink_large_chunk(x) ==
    /\ x \in InBins
    /\ bins' = UnlinkLargeChunk(bins, x)
    /\ answer' = NoAnswer

\* The request is large; it is left to the victim if that fits as well.  What
\* remains of the chunk goes into a bin; a small one is not in the treebins.
tmalloc_large(nb, dvsize) ==
    LET v == BestLarge(bins, nb) IN
      /\ nb >= MinLarge
      /\ IF v = NULL \/ Rest(bins, v, nb) >= Minus(dvsize, nb)
         THEN answer' = Answer(nb, dvsize, NULL) /\ UNCHANGED bins
         ELSE LET rest == Rest(bins, v, nb)
                  without == UnlinkLargeChunk(bins, v)
              IN /\ answer' = Answer(nb, dvsize, v)
                 /\ IF rest < MinLarge THEN bins' = without
                    ELSE \E r \in Chunks \ DOMAIN without.node :
                           bins' = InsertLargeChunk(without, r, rest)

\* The request is small, no smallbin has it and some treebin does.  The rest
\* becomes the victim.
tmalloc_small(nb) ==
    LET v == BestSmall(bins, nb) IN
      /\ nb < MinLarge
      /\ bins.treemap # {}
      /\ answer' = Answer(nb, 0, v)
      /\ bins' = UnlinkLargeChunk(bins, v)

Next ==
    \/ \E x \in Chunks, s \in FreeSizes : insert_large_chunk(x, s)
    \/ \E x \in Chunks : unlink_large_chunk(x)
    \/ \E nb \in Requests, dvsize \in DvSizes : tmalloc_large(nb, dvsize)
    \/ \E nb \in Requests : tmalloc_small(nb)

Spec == Init /\ [][Next]_vars

-----------------------------------------------------------------------------
(* Properties. *)

\* The chunks below a child, with the child itself.
Below(root) ==
    LET level[d \in 0..SizeBits] ==
          IF d = 0 THEN {root} \ {NULL}
          ELSE (UNION {Range(bins.node[t].child) : t \in level[d - 1]}) \ {NULL}
    IN UNION Range(level)

\* The tries are what do_check_tree expects, and what the comment on tree
\* chunks says of them: a trie holds the sizes of its bin, each once; all
\* that is left of a chunk is smaller than all that is right of it; parents
\* and children agree, and so do the neighbours in the rings; the treemap
\* marks the bins that have chunks, and no chunk is lost or left behind.
TriesSound ==
    /\ ~bins.aborted
    /\ bins.treemap = {i \in Bins : bins.head[i] # NULL}
    /\ \A i \in bins.treemap :
         LET trie == Below(bins.head[i]) IN
           /\ trie \subseteq InBins
           /\ bins.node[bins.head[i]].parent = BIN
           /\ \A t \in trie :
                /\ bins.node[t].index = i
                /\ \A u \in trie \ {t} : SizeOf(bins, u) # SizeOf(bins, t)
                /\ \A d \in {0, 1} : LET c == bins.node[t].child[d] IN
                     c # NULL => bins.node[c].parent = t
                /\ \A u \in Below(bins.node[t].child[0]), w \in Below(bins.node[t].child[1]) :
                     SizeOf(bins, u) < SizeOf(bins, w)
    /\ \A t \in InBins :
         /\ bins.node[bins.node[t].fd].bk = t /\ bins.node[bins.node[t].bk].fd = t
         /\ SizeOf(bins, bins.node[t].fd) = SizeOf(bins, t)
         /\ bins.node[t].parent = NULL <=> t \notin UNION {Below(bins.head[i]) : i \in Bins}

\* The chunks of a size in the order of their ring, from the one in the trie on.
Queue(b, s) ==
    LET ring == {t \in DOMAIN b.node : SizeOf(b, t) = s} IN
      CHOOSE q \in [1..Cardinality(ring) -> ring] :
        /\ Range(q) = ring
        /\ b.node[q[1]].parent # NULL
        /\ \A k \in 2..Cardinality(ring) : q[k] = b.node[q[k - 1]].bk

Promise == INSTANCE BestFit WITH
             free <- [s \in {SizeOf(bins, t) : t \in InBins} |-> Queue(bins, s)],
             Sizes <- LargeSizes

\* A request gets the oldest of the smallest chunks that fit, whatever the
\* shape of the tries, and inserting and unlinking a chunk moves no other.
TakesBestFit == Promise!Spec
=============================================================================
