--------------------------- MODULE HeapChunkProofs ---------------------------
(****************************************************************************)
(* Chunks of the heap, for any sizes: what a header is, how chunks are laid *)
(* out in segments and regions, and that freeing, taking, resizing,         *)
(* dividing, mapping and cutting a chunk keep a heap sound and leave the    *)
(* other chunks to those who hold them.                                     *)
(****************************************************************************)
EXTENDS DlMalloc, NaturalsInduction, WellFoundedInduction, SequenceTheorems,
        FiniteSetTheorems, TLAPS

-----------------------------------------------------------------------------
(* The layout of chunks in segments. *)

\* A header of a chunk: typed, with no foot behind a chunk in use, and a fencepost only as one in use.
HeaderOk(h) ==
    /\ h = [f \in {"size", "c", "p", "foot"} |-> h[f]]
    /\ h.size \in Nat /\ h.c \in BOOLEAN /\ h.p \in BOOLEAN /\ h.foot \in Nat
    /\ h.p => h.foot = 0
    /\ h.size = 0 => h.c /\ h.p

\* The chunks of segments, the free chunks among them, the mapped ones, and where a chunk ends.
Ord(ch) == {p \in DOMAIN ch : (ch[p].c \/ ch[p].p) /\ ch[p].size > 0}
FreeAt(ch) == {p \in DOMAIN ch : ~ch[p].c /\ ch[p].p}
Direct(ch) == {p \in DOMAIN ch : ~ch[p].c /\ ~ch[p].p}
After(ch, p) == p + ch[p].size

\* q is behind the chunk p, and its header says so.
Tagged(ch, p, q) ==
    /\ q \in DOMAIN ch /\ (ch[q].c \/ ch[q].p)
    /\ ch[q].p <=> ch[p].c
    /\ ch[q].foot = IF ch[p].c THEN 0 ELSE ch[p].size

\* The chunks of segments do not overlap, and each one's bits are what the header behind it says.
Layout(ch, top) ==
    /\ \A p \in DOMAIN ch : p \in Nat \ {0} /\ HeaderOk(ch[p])
    /\ \A p \in Ord(ch), q \in DOMAIN ch : q <= p \/ After(ch, p) <= q
    /\ \A p \in Ord(ch) \ {top} : Tagged(ch, p, After(ch, p))
    /\ \A q \in Ord(ch) : ~ch[q].p => \E p \in Ord(ch) \ {top} : After(ch, p) = q
    /\ top # NULL => top \in FreeAt(ch)

\* The chunks from x up to y.
Run(ch, x, y) ==
    /\ x \in Ord(ch) /\ y \in Nat /\ x < y
    /\ \A q \in DOMAIN ch : x <= q /\ q < y => q \in Ord(ch) /\ After(ch, q) <= y
    /\ y \in DOMAIN ch => ch[y].c \/ ch[y].p

\* ch2 is ch with other chunks, N, between x and y.
Other(ch, ch2, x, y, N) ==
    /\ N \subseteq x..(y - 1) /\ x \in N
    /\ DOMAIN ch2 = (DOMAIN ch \ (x..(y - 1))) \cup N
    /\ \A q \in DOMAIN ch : q < x \/ q > y => ch2[q] = ch[q]
    /\ y \in DOMAIN ch => /\ HeaderOk(ch2[y])
                          /\ ch2[y].size = ch[y].size /\ ch2[y].c = ch[y].c
    /\ ch2[x].p = ch[x].p /\ ch2[x].foot = ch[x].foot

\* The chunks in the place of others do not overlap either, and are followed as Layout says.
Pieces(ch2, N, y, top) ==
    /\ \A p \in N : /\ HeaderOk(ch2[p]) /\ ch2[p].size > 0 /\ (ch2[p].c \/ ch2[p].p)
                    /\ After(ch2, p) <= y
                    /\ \A q \in N : q <= p \/ After(ch2, p) <= q
                    /\ p # top => Tagged(ch2, p, After(ch2, p))

\* A piece is not taken to follow a free chunk unless it does.
Backs(ch2, x, y, N, top) ==
    \A q \in (N \cup {y}) \ {x} : q \in DOMAIN ch2 /\ ~ch2[q].p =>
       \E p \in N \ {top} : After(ch2, p) = q

\* Chunks may be replaced by others that fill the same space.
LEMMA Retile ==
    ASSUME NEW ch, NEW top, Layout(ch, top),
           NEW x \in Nat, NEW y, NEW N, NEW ch2, NEW top2,
           Run(ch, x, y), Other(ch, ch2, x, y, N), Pieces(ch2, N, y, top2), Backs(ch2, x, y, N, top2),
           \/ top2 = top /\ top \notin x..(y - 1)
           \/ top2 \in N /\ ~ch2[top2].c /\ top \in x..(y - 1)
    PROVE  Layout(ch2, top2)
<1>. DEFINE D == DOMAIN ch
            D2 == DOMAIN ch2
            In == x..(y - 1)
            Out == D \ In
<1>1. /\ \A p \in D : p \in Nat \ {0} /\ HeaderOk(ch[p]) /\ ch[p].size \in Nat
      /\ \A p \in Ord(ch), q \in D : q <= p \/ After(ch, p) <= q
  BY DEF Layout, HeaderOk
<1>2. x \in Ord(ch) /\ x \in D /\ x \in Nat /\ y \in Nat /\ x < y
  BY DEF Run, Ord
<1>3. D2 = Out \cup N /\ N \subseteq In /\ x \in N
  BY DEF Other
<1>4. \A q \in Out : /\ q < x \/ q >= y
                     /\ ch2[q].size = ch[q].size /\ ch2[q].c = ch[q].c /\ HeaderOk(ch2[q])
                     /\ q # y => ch2[q] = ch[q]
  <2>1. \A q \in Out : q \in Nat /\ q \in D /\ (q < x \/ q > y \/ q = y)
    BY <1>1, <1>2
  <2>. QED
    BY <2>1, <1>1, <1>2 DEF Other
<1>5. \A q \in N : q \in Nat /\ x <= q /\ q < y
  BY <1>2, <1>3
<1>6. ASSUME NEW q \in Out PROVE q \in Ord(ch2) <=> q \in Ord(ch)
  <2>1. q \in D2
    BY <1>3
  <2>2. CASE q = y
    <3>1. Tagged(ch2, 0, y) \/ TRUE
      OBVIOUS
    <3>2. ch[y].c \/ ch[y].p
      BY <1>2, <2>2 DEF Run
    <3>3. ch2[y].c \/ ch2[y].p
      <4>1. CASE ~ch2[y].p
        <5>1. \E p \in N \ {top2} : After(ch2, p) = y
          BY <1>2, <2>1, <2>2, <4>1 DEF Backs
        <5>2. PICK p \in N \ {top2} : After(ch2, p) = y
          BY <5>1
        <5>. QED
          BY <5>2 DEF Pieces, Tagged
      <4>. QED
        BY <4>1
    <3>. QED
      BY <1>4, <2>1, <2>2, <3>2, <3>3 DEF Ord
  <2>3. CASE q # y
    BY <1>4, <2>1, <2>3 DEF Ord
  <2>. QED
    BY <2>2, <2>3
<1>7. \A p \in N : /\ p \in Ord(ch2) /\ p \in D2 /\ HeaderOk(ch2[p]) /\ ch2[p].size \in Nat
                   /\ After(ch2, p) \in Nat /\ After(ch2, p) <= y
  BY <1>3, <1>5 DEF Pieces, Ord, HeaderOk, After
<1>8. \A p \in Ord(ch2) : p \in N \/ (p \in Out /\ p \in Ord(ch) /\ After(ch2, p) = After(ch, p) /\ After(ch, p) \in Nat)
  <2>1. \A p \in Ord(ch2) : p \in D2
    BY DEF Ord
  <2>. QED
    BY <1>1, <1>3, <1>4, <1>6, <2>1 DEF After
<1>9. \A p \in Out : p < x /\ p \in Ord(ch) => After(ch, p) <= x
  BY <1>1, <1>2
<1>10. \A p \in D2 : p \in Nat \ {0} /\ HeaderOk(ch2[p])
  <2>1. \A p \in N : p \in Nat \ {0}
    BY <1>1, <1>2, <1>5
  <2>. QED
    BY <1>1, <1>3, <1>4, <1>7, <2>1
<1>11. ASSUME NEW p \in Ord(ch2), NEW q \in D2 PROVE q <= p \/ After(ch2, p) <= q
  <2>1. CASE p \in N
    <3>1. CASE q \in N
      BY <2>1, <3>1 DEF Pieces
    <3>2. CASE q \in Out
      <4>1. q \in Nat /\ (q < x \/ q >= y)
        BY <1>1, <1>4, <3>2
      <4>. QED
        BY <1>2, <1>5, <1>7, <2>1, <4>1
    <3>. QED
      BY <1>3, <3>1, <3>2
  <2>2. CASE p \in Out /\ p \in Ord(ch) /\ After(ch2, p) = After(ch, p) /\ After(ch, p) \in Nat
    <3>1. CASE q \in Out
      BY <1>1, <2>2, <3>1
    <3>2. CASE q \in N
      <4>1. q \in Nat /\ x <= q /\ q < y /\ p \in Nat
        BY <1>1, <1>5, <2>2, <3>2
      <4>2. CASE p < x
        BY <1>2, <1>9, <2>2, <4>1, <4>2
      <4>3. CASE p >= y
        BY <1>2, <4>1, <4>3
      <4>. QED
        BY <1>4, <2>2, <4>2, <4>3
    <3>. QED
      BY <1>3, <3>1, <3>2
  <2>. QED
    BY <1>8, <2>1, <2>2
<1>12. ASSUME NEW p \in Ord(ch2) \ {top2} PROVE Tagged(ch2, p, After(ch2, p))
  <2>1. CASE p \in N
    BY <2>1 DEF Pieces
  <2>2. CASE p \in Out /\ p \in Ord(ch) /\ After(ch2, p) = After(ch, p) /\ After(ch, p) \in Nat
    <3>. DEFINE q == After(ch, p)
    <3>1. p # top
      BY <2>2, <1>3
    <3>2. Tagged(ch, p, q)
      BY <2>2, <3>1 DEF Layout
    <3>3. p \in Nat /\ ch[p].size > 0 /\ ch[p].size \in Nat /\ q = p + ch[p].size
      BY <1>1, <2>2 DEF Ord, After
    <3>4. q < x \/ q = x \/ q > y
      BY <1>2, <1>4, <1>9, <2>2, <3>3
    <3>. HIDE DEF q
    <3>5. CASE q = x
      <4>1. x \in N /\ x \in D2 /\ ch2[x].p = ch[x].p /\ ch2[x].foot = ch[x].foot
        BY <1>3 DEF Other
      <4>2. ch2[x].c \/ ch2[x].p
        BY <4>1 DEF Pieces
      <4>3. ch2[p].c = ch[p].c /\ ch2[p].size = ch[p].size
        BY <1>4, <2>2
      <4>4. (ch[x].p <=> ch[p].c) /\ ch[x].foot = IF ch[p].c THEN 0 ELSE ch[p].size
        BY <3>2, <3>5 DEF Tagged
      <4>5. Tagged(ch2, p, x)
        BY <4>1, <4>2, <4>3, <4>4 DEF Tagged
      <4>. QED
        BY <2>2, <3>5, <4>5 DEF q
    <3>6. CASE q < x \/ q > y
      <4>1. q \in D /\ q \in D2 /\ ch2[q] = ch[q]
        <5>1. q \in D
          BY <3>2 DEF Tagged
        <5>2. q \notin In
          BY <1>2, <3>6, <5>1, <1>1
        <5>. QED
          BY <1>3, <3>6, <5>1, <5>2 DEF Other
      <4>. QED
        BY <1>4, <2>2, <3>2, <4>1 DEF Tagged, q
    <3>. QED
      BY <3>4, <3>5, <3>6
  <2>. QED
    BY <1>8, <2>1, <2>2
<1>13. ASSUME NEW q \in Ord(ch2), ~ch2[q].p
       PROVE  \E p \in Ord(ch2) \ {top2} : After(ch2, p) = q
  <2>1. CASE q \in (N \cup {y}) \ {x}
    <3>1. q \in D2
      BY DEF Ord
    <3>2. PICK p \in N \ {top2} : After(ch2, p) = q
      BY <2>1, <3>1, <1>13 DEF Backs
    <3>. QED
      BY <1>7, <3>2
  <2>2. CASE q \notin (N \cup {y}) \ {x}
    <3>1. q \in Nat /\ q \in D /\ q \in Ord(ch) /\ ~ch[q].p /\ (q <= x \/ q > y)
      <4>1. CASE q = x
        BY <1>2, <1>13, <4>1 DEF Other
      <4>2. CASE q # x
        <5>1. q \notin N /\ q # y
          BY <2>2, <4>2
        <5>2. q \in Out /\ q \in Ord(ch)
          BY <1>8, <5>1
        <5>3. ch2[q] = ch[q] /\ (q < x \/ q > y) /\ q \in Nat
          BY <1>1, <1>2, <1>4, <5>1, <5>2
        <5>. QED
          BY <1>13, <5>2, <5>3
      <4>. QED
        BY <4>1, <4>2
    <3>2. PICK p \in Ord(ch) \ {top} : After(ch, p) = q
      BY <3>1 DEF Layout
    <3>3. p \in D /\ p \in Nat /\ ch[p].size \in Nat /\ ch[p].size > 0 /\ q = p + ch[p].size
      BY <1>1, <3>2 DEF Ord, After
    <3>4. p \in Out
      <4>1. CASE q <= x
        BY <1>2, <3>1, <3>3, <4>1
      <4>2. CASE q > y
        <5>1. ~(x <= p /\ p < y)
          BY <1>2, <3>1, <3>2, <3>3, <4>2 DEF Run
        <5>. QED
          BY <1>2, <3>3, <5>1
      <4>. QED
        BY <3>1, <4>1, <4>2
    <3>5. p \in Ord(ch2) /\ After(ch2, p) = q
      BY <1>4, <1>6, <3>2, <3>4 DEF After
    <3>6. p # top2
      BY <1>3, <3>2, <3>4
    <3>. QED
      BY <3>5, <3>6
  <2>. QED
    BY <2>1, <2>2
<1>14. top2 # NULL => top2 \in FreeAt(ch2)
  <2>1. CASE top2 = top /\ top \notin In
    <3>. SUFFICES ASSUME top # NULL PROVE top \in FreeAt(ch2)
      BY <2>1
    <3>1. top \in FreeAt(ch) /\ top \in D /\ top \in Out
      BY <2>1 DEF Layout, FreeAt
    <3>2. ~ch2[top].c /\ top \in D2
      BY <1>3, <1>4, <3>1 DEF FreeAt
    <3>3. top \in Ord(ch)
      BY <1>1, <3>1 DEF FreeAt, Ord, HeaderOk
    <3>4. top \in Ord(ch2)
      BY <1>6, <3>1, <3>3
    <3>. QED
      BY <3>2, <3>4 DEF FreeAt, Ord
  <2>2. CASE top2 \in N /\ ~ch2[top2].c
    BY <1>7, <2>2 DEF FreeAt, Ord
  <2>. QED
    BY <2>1, <2>2
<1>. QED
  BY <1>10, <1>11, <1>12, <1>13, <1>14 DEF Layout

\* What stays as it was.
LEMMA RetileSets ==
    ASSUME NEW ch, NEW top, Layout(ch, top),
           NEW x \in Nat, NEW y, NEW N, NEW ch2, NEW top2,
           Run(ch, x, y), Other(ch, ch2, x, y, N), Pieces(ch2, N, y, top2), Backs(ch2, x, y, N, top2)
    PROVE  /\ \A q \in DOMAIN ch \ (x..(y - 1)) :
                 q \in DOMAIN ch2 /\ ch2[q].size = ch[q].size /\ ch2[q].c = ch[q].c
           /\ Ord(ch2) = (Ord(ch) \ (x..(y - 1))) \cup N
           /\ FreeAt(ch2) = (FreeAt(ch) \ (x..(y - 1))) \cup {p \in N : ~ch2[p].c}
           /\ Direct(ch2) = Direct(ch)
           /\ \A p \in Direct(ch) : ch2[p] = ch[p]
<1>. DEFINE In == x..(y - 1)
            Out == DOMAIN ch \ In
<1>1. \A p \in DOMAIN ch : p \in Nat \ {0} /\ HeaderOk(ch[p])
  BY DEF Layout
<1>2. x \in Ord(ch) /\ x \in DOMAIN ch /\ y \in Nat /\ x < y
  BY DEF Run, Ord
<1>3. DOMAIN ch2 = Out \cup N /\ N \subseteq In /\ x \in N
  BY DEF Other
<1>4. \A q \in Out : /\ q \in Nat /\ (q < x \/ q >= y) /\ q \in DOMAIN ch2 /\ q \notin N
                     /\ ch2[q].size = ch[q].size /\ ch2[q].c = ch[q].c
                     /\ q # y => ch2[q] = ch[q]
  <2>1. \A q \in Out : q \in Nat /\ q \in DOMAIN ch /\ (q < x \/ q > y \/ q = y)
    BY <1>1, <1>2
  <2>. QED
    BY <2>1, <1>1, <1>2, <1>3 DEF Other
<1>5. y \in DOMAIN ch => /\ y \in Out
                         /\ ch[y].c \/ ch[y].p
                         /\ ch2[y].c \/ ch2[y].p
  <2>. SUFFICES ASSUME y \in DOMAIN ch
                PROVE  y \in Out /\ (ch[y].c \/ ch[y].p) /\ (ch2[y].c \/ ch2[y].p)
    OBVIOUS
  <2>1. y \in Out /\ (ch[y].c \/ ch[y].p)
    BY <1>2 DEF Run
  <2>2. CASE ~ch2[y].p
    <3>1. PICK p \in N \ {top2} : After(ch2, p) = y
      BY <1>2, <1>3, <2>1, <2>2 DEF Backs
    <3>. QED
      BY <2>1, <3>1 DEF Pieces, Tagged
  <2>. QED
    BY <2>1, <2>2
<1>6. \A p \in N : p \in DOMAIN ch2 /\ ch2[p].size > 0 /\ (ch2[p].c \/ ch2[p].p)
  BY <1>3 DEF Pieces
<1>7. \A q \in DOMAIN ch \cap In : q \in Ord(ch)
  BY <1>1, <1>2 DEF Run
<1>. HIDE DEF In
<1>8. Ord(ch2) = (Ord(ch) \ In) \cup N
  <2>1. ASSUME NEW q \in Out PROVE q \in Ord(ch2) <=> q \in Ord(ch)
    <3>1. CASE q = y
      BY <1>4, <1>5, <3>1 DEF Ord
    <3>2. CASE q # y
      BY <1>4, <3>2 DEF Ord
    <3>. QED
      BY <3>1, <3>2
  <2>2. \A q \in N : q \in Ord(ch2)
    BY <1>6 DEF Ord
  <2>3. Ord(ch2) \subseteq Out \cup N /\ Ord(ch) \subseteq DOMAIN ch
    BY <1>3 DEF Ord
  <2>. QED
    BY <2>1, <2>2, <2>3
<1>9. FreeAt(ch2) = (FreeAt(ch) \ In) \cup {p \in N : ~ch2[p].c}
  <2>1. ASSUME NEW q \in Out PROVE q \in FreeAt(ch2) <=> q \in FreeAt(ch)
    <3>1. CASE q = y
      BY <1>4, <1>5, <3>1 DEF FreeAt
    <3>2. CASE q # y
      BY <1>4, <3>2 DEF FreeAt
    <3>. QED
      BY <3>1, <3>2
  <2>2. \A q \in N : q \in FreeAt(ch2) <=> ~ch2[q].c
    BY <1>6 DEF FreeAt
  <2>3. FreeAt(ch2) \subseteq Out \cup N /\ FreeAt(ch) \subseteq DOMAIN ch
    BY <1>3 DEF FreeAt
  <2>. QED
    BY <1>4, <2>1, <2>2, <2>3
<1>10. \A q \in Out : q \in Direct(ch2) <=> q \in Direct(ch)
  <2>. TAKE q \in Out
  <2>1. CASE q = y
    BY <1>4, <1>5, <2>1 DEF Direct
  <2>2. CASE q # y
    BY <1>4, <2>2 DEF Direct
  <2>. QED
    BY <2>1, <2>2
<1>11. Direct(ch) \subseteq Out
  BY <1>7 DEF Direct, Ord
<1>12. Direct(ch2) \subseteq Out
  BY <1>3, <1>6 DEF Direct
<1>13. \A p \in Direct(ch) : ch2[p] = ch[p]
  BY <1>4, <1>5, <1>11 DEF Direct
<1>. QED
  BY <1>4, <1>8, <1>9, <1>10, <1>11, <1>12, <1>13 DEF In

-----------------------------------------------------------------------------
(* Segments, regions of direct chunks, and what the system gave.           *)

\* The chunk that a segment's walk ends with: top, or the fencepost.
Limit(seg, top) == IF seg.record = NULL THEN top ELSE seg.record + SegmentSize

\* A segment is chunks from its base to top, or to the record of it with the fenceposts behind.
SegmentOk(ch, top, seg) ==
    /\ seg.base \in Ord(ch) /\ ch[seg.base].p
    /\ Limit(seg, top) \in DOMAIN ch /\ Holds(seg, Limit(seg, top))
    /\ \A q \in DOMAIN ch : Holds(seg, q) =>
         q <= Limit(seg, top) /\ (q < Limit(seg, top) => q \in Ord(ch))
    /\ IF seg.record = NULL THEN After(ch, top) + TopFoot = seg.base + seg.size
       ELSE /\ seg.record \in Ord(ch) /\ Holds(seg, seg.record)
            /\ seg.record + TopFoot <= seg.base + seg.size
            /\ ch[seg.record].c /\ ch[seg.record].size = SegmentSize
            /\ ch[Limit(seg, top)].size = 0

\* The first segment has top, and the others a record.
SegmentsOk(ch, top, segs) ==
    /\ segs \in Seq([base : Nat \ {0}, size : Nat \ {0}, record : Nat])
    /\ top # NULL <=> Len(segs) > 0
    /\ \A i \in 1..Len(segs) : SegmentOk(ch, top, segs[i]) /\ (segs[i].record = NULL <=> i = 1)
    /\ \A i, j \in 1..Len(segs) : segs[i].base = segs[j].base => i = j

\* A mapped chunk is alone in its region, with a fencepost behind it.
DirectOk(ch, p) ==
    /\ ch[p].foot < p
    /\ After(ch, p) \in DOMAIN ch /\ ch[After(ch, p)].size = 0
    /\ \A q \in DOMAIN ch : p - ch[p].foot <= q /\ q < After(ch, p) + MmapFootPad
                               => q = p \/ q = After(ch, p)

\* The addresses a segment takes, and those a mapped chunk takes.
SegmentSpace(seg) == [base |-> seg.base, end |-> seg.base + seg.size]
DirectSpace(ch, p) == [base |-> p - ch[p].foot, end |-> After(ch, p) + MmapFootPad]

Spaces(ch, segs) ==
    {DirectSpace(ch, p) : p \in Direct(ch)} \cup {SegmentSpace(segs[i]) : i \in 1..Len(segs)}

\* Nothing is outside of them.
Homes(ch, segs) ==
    /\ \A p \in Ord(ch) : \E i \in 1..Len(segs) : Holds(segs[i], p)
    /\ \A q \in DOMAIN ch : ch[q].size = 0 =>
         \/ \E i \in 1..Len(segs) : segs[i].record # NULL /\ q = segs[i].record + SegmentSize
         \/ \E p \in Direct(ch) : q = After(ch, p)

\* Two spaces apart.
Separate(s, t) == s.end <= t.base \/ t.end <= s.base

\* The spaces are apart, and are whole regions of the system.
SpacesOk(spaces, rg) ==
    /\ \A s \in spaces : s.base \in Nat \ {0} /\ s.end \in Nat /\ s.base < s.end
    /\ \A s, t \in spaces : s # t => Separate(s, t)
    /\ \A r \in DOMAIN rg : /\ r \in Nat \ {0} /\ rg[r] \in Nat \ {0}
                            /\ \E s \in spaces : s.base <= r /\ r + rg[r] <= s.end
    /\ \A r, q \in DOMAIN rg : r # q => r + rg[r] <= q \/ q + rg[q] <= r
    /\ \A s \in spaces : \A a \in s.base..(s.end - 1) :
         \E r \in DOMAIN rg : r <= a /\ a < r + rg[r]

\* What holds of the chunks, the segments and the regions of the system together.
Structure(ch, top, segs, rg) ==
    /\ Layout(ch, top)
    /\ SegmentsOk(ch, top, segs)
    /\ \A p \in Direct(ch) : DirectOk(ch, p)
    /\ Homes(ch, segs)
    /\ SpacesOk(Spaces(ch, segs), rg)

\* The types of segments.
LEMMA SegmentTypes ==
    ASSUME NEW ch, NEW top, NEW segs, SegmentsOk(ch, top, segs)
    PROVE  /\ Len(segs) \in Nat
           /\ \A i \in 1..Len(segs) : /\ segs[i].base \in Nat \ {0} /\ segs[i].size \in Nat \ {0}
                                      /\ segs[i].record \in Nat
           /\ DOMAIN segs = 1..Len(segs)
<1>1. segs \in Seq([base : Nat \ {0}, size : Nat \ {0}, record : Nat])
  BY DEF SegmentsOk
<1>. DEFINE T == [base : Nat \ {0}, size : Nat \ {0}, record : Nat]
<1>2. Len(segs) \in Nat /\ DOMAIN segs = 1..Len(segs) /\ \A i \in 1..Len(segs) : segs[i] \in T
  <2>. HIDE DEF T
  <2>. QED
    BY <1>1, LenProperties, ElementOfSeq DEF T
<1>. QED
  BY <1>2

\* Spaces that have an address in common are the same.
LEMMA SameSpace ==
    ASSUME NEW S, NEW rg, SpacesOk(S, rg), NEW s \in S, NEW t \in S,
           NEW q \in Nat, s.base <= q, q < s.end, t.base <= q, q < t.end
    PROVE  s = t
<1>1. s.base \in Nat /\ s.end \in Nat /\ t.base \in Nat /\ t.end \in Nat
  BY DEF SpacesOk
<1>2. ~Separate(s, t)
  BY <1>1 DEF Separate
<1>. QED
  BY <1>2 DEF SpacesOk

\* An address is held by one segment only, and not by a direct chunk's region.
LEMMA OneHolds ==
    ASSUME NEW ch, NEW top, NEW segs, NEW rg, Structure(ch, top, segs, rg),
           NEW i \in 1..Len(segs), NEW q \in Nat, Holds(segs[i], q)
    PROVE  /\ \A j \in 1..Len(segs) : Holds(segs[j], q) => i = j
           /\ \A p \in Direct(ch) : ~(p - ch[p].foot <= q /\ q < After(ch, p) + MmapFootPad)
<1>1. SegmentsOk(ch, top, segs) /\ SpacesOk(Spaces(ch, segs), rg)
  BY DEF Structure
<1>2. \A j \in 1..Len(segs) : /\ SegmentSpace(segs[j]) \in Spaces(ch, segs)
                              /\ SegmentSpace(segs[j]).base = segs[j].base
                              /\ SegmentSpace(segs[j]).end = segs[j].base + segs[j].size
  BY DEF Spaces, SegmentSpace
<1>3. ASSUME NEW j \in 1..Len(segs), Holds(segs[j], q) PROVE i = j
  <2>1. SegmentSpace(segs[i]) = SegmentSpace(segs[j])
    BY <1>1, <1>2, <1>3, SameSpace DEF Holds
  <2>2. segs[i].base = segs[j].base
    BY <1>2, <2>1
  <2>. QED
    BY <1>1, <2>2 DEF SegmentsOk
<1>4. ASSUME NEW p \in Direct(ch), p - ch[p].foot <= q, q < After(ch, p) + MmapFootPad PROVE FALSE
  <2>. DEFINE d == DirectSpace(ch, p)
  <2>1. d \in Spaces(ch, segs) /\ d.base = p - ch[p].foot /\ d.end = After(ch, p) + MmapFootPad
    BY DEF Spaces, DirectSpace
  <2>. HIDE DEF d
  <2>2. d = SegmentSpace(segs[i])
    <3>. DEFINE s == SegmentSpace(segs[i])
    <3>1. d.base <= q /\ q < d.end
      BY <1>4, <2>1
    <3>2. s \in Spaces(ch, segs) /\ s.base <= q /\ q < s.end
      BY <1>2 DEF Holds
    <3>. HIDE DEF s
    <3>3. d = s
      BY <1>1, <2>1, <3>1, <3>2, SameSpace
    <3>. QED
      BY <3>3 DEF s
  <2>3. /\ segs[i].base \in DOMAIN ch /\ segs[i].base \in Ord(ch)
        /\ segs[i].base \in Nat /\ segs[i].size \in Nat \ {0}
    <3>1. SegmentOk(ch, top, segs[i])
      BY <1>1 DEF SegmentsOk
    <3>. QED
      BY <1>1, <3>1, SegmentTypes DEF SegmentOk, Ord
  <2>4. segs[i].base = p - ch[p].foot /\ segs[i].base < After(ch, p) + MmapFootPad
    <3>1. segs[i].base = p - ch[p].foot /\ segs[i].base + segs[i].size = After(ch, p) + MmapFootPad
      BY <1>2, <2>1, <2>2
    <3>. QED
      BY <2>3, <3>1
  <2>5. segs[i].base = p \/ segs[i].base = After(ch, p)
    BY <2>3, <2>4 DEF Structure, DirectOk
  <2>6. ch[After(ch, p)].size = 0
    BY DEF Structure, DirectOk
  <2>. QED
    BY <2>3, <2>5, <2>6 DEF Ord, Direct
<1>. QED
  BY <1>3, <1>4

\* The same replacement inside one segment, with the segments and regions in view.
LEMMA RetileStructure ==
    ASSUME NEW ch, NEW top, NEW segs, NEW rg, Structure(ch, top, segs, rg),
           NEW x \in Nat, NEW y, NEW N, NEW ch2, NEW top2,
           Run(ch, x, y), Other(ch, ch2, x, y, N), Pieces(ch2, N, y, top2), Backs(ch2, x, y, N, top2),
           \/ top2 = top /\ top \notin x..(y - 1)
           \/ /\ top2 \in N /\ ~ch2[top2].c /\ top \in x..(y - 1)
              /\ After(ch2, top2) = After(ch, top) /\ After(ch, top) = y,
           NEW k \in 1..Len(segs), segs[k].base <= x, y < segs[k].base + segs[k].size,
           \A i \in 1..Len(segs) : segs[i].record \notin x..(y - 1)
    PROVE  Structure(ch2, top2, segs, rg)
<1>. DEFINE In == x..(y - 1)
            Out == DOMAIN ch \ In
<1>1. Layout(ch, top) /\ SegmentsOk(ch, top, segs) /\ Homes(ch, segs)
      /\ SpacesOk(Spaces(ch, segs), rg) /\ \A p \in Direct(ch) : DirectOk(ch, p)
  BY DEF Structure
<1>2. Layout(ch2, top2)
  BY <1>1, Retile
<1>3. /\ \A q \in Out : q \in DOMAIN ch2 /\ ch2[q].size = ch[q].size /\ ch2[q].c = ch[q].c
      /\ Ord(ch2) = (Ord(ch) \ In) \cup N
      /\ Direct(ch2) = Direct(ch)
      /\ \A p \in Direct(ch) : ch2[p] = ch[p]
  BY <1>1, RetileSets
<1>4. DOMAIN ch2 = Out \cup N /\ N \subseteq In /\ x \in N
  BY DEF Other
<1>5. \A p \in DOMAIN ch : p \in Nat \ {0} /\ HeaderOk(ch[p]) /\ ch[p].size \in Nat
  BY <1>1 DEF Layout, HeaderOk
<1>6. x \in Ord(ch) /\ x \in DOMAIN ch /\ y \in Nat /\ x < y /\ \A q \in In : q \in Nat /\ x <= q /\ q < y
  BY DEF Run, Ord
<1>7. /\ Len(segs) \in Nat
      /\ \A i \in 1..Len(segs) : /\ segs[i].base \in Nat \ {0} /\ segs[i].size \in Nat \ {0}
                                 /\ segs[i].record \in Nat
  BY <1>1, SegmentTypes
<1>8. ASSUME NEW i \in 1..Len(segs), NEW q \in In \cup {y}, Holds(segs[i], q) PROVE i = k
  <2>1. Holds(segs[k], q) /\ q \in Nat
    BY <1>6, <1>7 DEF Holds
  <2>. QED
    BY <1>8, <2>1, OneHolds
<1>9. top # NULL <=> top2 # NULL
  <2>1. CASE top2 = top
    BY <2>1
  <2>2. CASE top2 \in N /\ top \in In
    BY <1>4, <1>6, <2>2, <1>5 DEF NULL
  <2>. QED
    BY <2>1, <2>2
<1>10. ASSUME NEW i \in 1..Len(segs) PROVE SegmentOk(ch2, top2, segs[i])
  <2>. DEFINE seg == segs[i]
              l == Limit(seg, top)
              l2 == Limit(seg, top2)
  <2>1. SegmentOk(ch, top, seg) /\ (seg.record = NULL <=> i = 1)
    BY <1>1 DEF SegmentsOk
  <2>2. /\ seg.base \in Nat \ {0} /\ seg.size \in Nat \ {0} /\ seg.record \in Nat
        /\ seg.base \in Ord(ch) /\ ch[seg.base].p
        /\ l \in DOMAIN ch /\ l \in Nat /\ Holds(seg, l)
        /\ \A q \in DOMAIN ch : Holds(seg, q) => q <= l /\ (q < l => q \in Ord(ch))
    BY <1>5, <1>7, <2>1 DEF SegmentOk
  <2>3. seg.base \in Ord(ch2) /\ ch2[seg.base].p
    <3>1. Holds(seg, seg.base) /\ seg.base \in DOMAIN ch
      BY <2>2 DEF Holds, Ord
    <3>2. CASE seg.base \in In
      <4>1. seg.base = x
        BY SMTT(30), <1>6, <1>7, <1>8, <3>1, <3>2
      <4>. QED
        BY <1>3, <1>4, <2>2, <4>1 DEF Other
    <3>3. CASE seg.base \notin In
      <4>1. seg.base \in Ord(ch2) /\ seg.base \in DOMAIN ch2
        BY <1>3, <2>2, <3>1, <3>3
      <4>2. CASE seg.base = y
        <5>1. i = k
          BY <1>8, <3>1, <4>2
        <5>. QED
          BY <1>6, <1>7, <4>2, <5>1
      <4>3. CASE seg.base # y
        <5>1. seg.base < x \/ seg.base > y
          BY <1>6, <2>2, <3>3, <4>3
        <5>. QED
          BY <2>2, <3>1, <4>1, <5>1 DEF Other
      <4>. QED
        BY <4>1, <4>2, <4>3
    <3>. QED
      BY <3>2, <3>3
  <2>4. CASE seg.record # NULL
    <3>1. l2 = l
      BY <2>4 DEF Limit
    <3>2. seg.record \in Ord(ch) /\ Holds(seg, seg.record) /\ seg.record \notin In
          /\ ch[seg.record].c /\ ch[seg.record].size = SegmentSize /\ ch[l].size = 0
          /\ seg.record + TopFoot <= seg.base + seg.size
      BY <2>1, <2>4 DEF SegmentOk
    <3>3. seg.record \in Ord(ch2) /\ ch2[seg.record].c /\ ch2[seg.record].size = SegmentSize
      BY <1>3, <3>2 DEF Ord
    <3>4. l \notin In
      <4>1. l \notin Ord(ch)
        BY <3>2 DEF Ord
      <4>. QED
        BY <1>6, <2>2, <4>1 DEF Run
    <3>5. l \in DOMAIN ch2 /\ ch2[l].size = 0
      BY <1>3, <2>2, <3>2, <3>4
    <3>6. ASSUME NEW q \in DOMAIN ch2, Holds(seg, q) PROVE q <= l /\ (q < l => q \in Ord(ch2))
      <4>1. CASE q \in N
        <5>1. i = k /\ q \in Nat /\ q \in Ord(ch2) /\ q < y
          BY <1>3, <1>4, <1>6, <1>8, <3>6, <4>1
        <5>2. y <= l
          <6>1. x <= l
            BY SMTT(30), <1>6, <1>7, <2>2, <5>1 DEF Holds
          <6>. QED
            BY <1>6, <2>2, <3>4, <6>1
        <5>. QED
          BY <1>6, <2>2, <5>1, <5>2
      <4>2. CASE q \in Out
        BY <1>3, <2>2, <3>6, <4>2
      <4>. QED
        BY <1>4, <4>1, <4>2
    <3>. QED
      BY <2>2, <2>3, <2>4, <3>1, <3>2, <3>3, <3>5, <3>6 DEF SegmentOk
  <2>5. CASE seg.record = NULL
    <3>1. l2 = top2 /\ l = top /\ After(ch, top) + TopFoot = seg.base + seg.size
      BY <2>1, <2>5 DEF Limit, SegmentOk
    <3>2. CASE top2 = top /\ top \notin In
      <4>1. top \in DOMAIN ch2 /\ After(ch2, top) = After(ch, top)
        BY <1>3, <2>2, <3>1, <3>2 DEF After
      <4>2. ASSUME NEW q \in DOMAIN ch2, Holds(seg, q) PROVE q <= top /\ (q < top => q \in Ord(ch2))
        <5>1. CASE q \in N
          <6>1. i = k /\ q \in Nat /\ q \in Ord(ch2) /\ q < y
            BY <1>3, <1>4, <1>6, <1>8, <4>2, <5>1
          <6>2. x <= top
            BY SMTT(30), <1>6, <1>7, <2>2, <3>1, <6>1 DEF Holds
          <6>3. y <= top
            BY <1>6, <2>2, <3>1, <3>2, <6>2
          <6>. QED
            BY <1>6, <2>2, <3>1, <6>1, <6>3
        <5>2. CASE q \in Out
          BY <1>3, <2>2, <3>1, <4>2, <5>2
        <5>. QED
          BY <1>4, <5>1, <5>2
      <4>. QED
        BY <2>2, <2>3, <2>5, <3>1, <3>2, <4>1, <4>2 DEF SegmentOk
    <3>3. CASE top2 \in N /\ top \in In /\ After(ch2, top2) = After(ch, top) /\ After(ch, top) = y
      <4>1. i = k
        BY <1>8, <2>2, <3>1, <3>3
      <4>2. top2 \in DOMAIN ch2 /\ top2 \in Nat /\ Holds(seg, top2)
        BY <1>4, <1>6, <1>7, <3>3, <4>1 DEF Holds
      <4>3. After(ch2, top2) + TopFoot = seg.base + seg.size
        BY <3>1, <3>3
      <4>4. ASSUME NEW q \in DOMAIN ch2, Holds(seg, q) PROVE q <= top2 /\ (q < top2 => q \in Ord(ch2))
        <5>1. CASE q \in N
          <6>1. q <= top2 \/ y <= q
            BY <3>3, <5>1 DEF Pieces
          <6>2. q \in Nat /\ q < y /\ q \in Ord(ch2)
            BY <1>3, <1>4, <1>6, <5>1
          <6>. QED
            BY <1>6, <6>1, <6>2
        <5>2. CASE q \in Out
          <6>1. q \in Nat /\ q <= top /\ (q < top => q \in Ord(ch))
            BY <1>5, <2>2, <3>1, <4>4, <5>2
          <6>2. q < x
            BY <1>6, <2>2, <3>1, <3>3, <5>2, <6>1
          <6>3. x <= top2 /\ x <= top
            BY <1>4, <1>6, <3>3
          <6>. QED
            BY <1>3, <1>6, <4>2, <5>2, <6>1, <6>2, <6>3, <2>2, <3>1
        <5>. QED
          BY <1>4, <5>1, <5>2
      <4>. QED
        BY <2>3, <2>5, <3>1, <4>2, <4>3, <4>4 DEF SegmentOk
    <3>. QED
      BY <3>2, <3>3
  <2>. QED
    BY <2>4, <2>5
<1>11. SegmentsOk(ch2, top2, segs)
  BY <1>1, <1>9, <1>10 DEF SegmentsOk
<1>12. ASSUME NEW p \in Direct(ch) PROVE DirectOk(ch2, p) /\ DirectSpace(ch2, p) = DirectSpace(ch, p)
  <2>1. DirectOk(ch, p) /\ p \in DOMAIN ch /\ ch2[p] = ch[p] /\ After(ch2, p) = After(ch, p)
    BY <1>1, <1>3 DEF Direct, After
  <2>2. DirectSpace(ch2, p) = DirectSpace(ch, p)
    BY <2>1 DEF DirectSpace
  <2>3. After(ch, p) \notin In
    <3>1. After(ch, p) \in DOMAIN ch /\ ch[After(ch, p)].size = 0
      BY <2>1 DEF DirectOk
    <3>. QED
      BY <1>6, <3>1 DEF Run, Ord
  <2>4. After(ch, p) \in DOMAIN ch2 /\ ch2[After(ch, p)].size = 0
    BY <1>3, <2>1, <2>3 DEF DirectOk
  <2>5. ASSUME NEW q \in N, p - ch[p].foot <= q, q < After(ch, p) + MmapFootPad PROVE FALSE
    <3>1. q \in Nat /\ Holds(segs[k], q)
      BY <1>4, <1>6, <1>7 DEF Holds
    <3>. QED
      BY <2>5, <3>1, OneHolds
  <2>6. \A q \in DOMAIN ch2 : p - ch[p].foot <= q /\ q < After(ch, p) + MmapFootPad
                               => q = p \/ q = After(ch, p)
    BY <1>4, <2>1, <2>5 DEF DirectOk
  <2>. QED
    BY <2>1, <2>2, <2>4, <2>6 DEF DirectOk
<1>13. Spaces(ch2, segs) = Spaces(ch, segs)
  BY <1>3, <1>12 DEF Spaces
<1>14. Homes(ch2, segs)
  <2>1. ASSUME NEW p \in Ord(ch2) PROVE \E i \in 1..Len(segs) : Holds(segs[i], p)
    <3>1. CASE p \in N
      BY <1>4, <1>6, <1>7, <3>1 DEF Holds
    <3>2. CASE p \in Ord(ch)
      BY <1>1, <3>2 DEF Homes
    <3>. QED
      BY <1>3, <3>1, <3>2
  <2>2. ASSUME NEW q \in DOMAIN ch2, ch2[q].size = 0
        PROVE  \/ \E i \in 1..Len(segs) : segs[i].record # NULL /\ q = segs[i].record + SegmentSize
               \/ \E p \in Direct(ch2) : q = After(ch2, p)
    <3>1. q \notin N
      BY <2>2 DEF Pieces
    <3>2. q \in DOMAIN ch /\ ch[q].size = 0
      BY <1>3, <1>4, <2>2, <3>1
    <3>3. \/ \E i \in 1..Len(segs) : segs[i].record # NULL /\ q = segs[i].record + SegmentSize
          \/ \E p \in Direct(ch) : q = After(ch, p)
      BY <1>1, <3>2 DEF Homes
    <3>4. \A p \in Direct(ch) : After(ch2, p) = After(ch, p)
      BY <1>3 DEF After
    <3>. QED
      BY <1>3, <3>3, <3>4
  <2>. QED
    BY <2>1, <2>2 DEF Homes
<1>. QED
  BY <1>1, <1>2, <1>3, <1>11, <1>12, <1>13, <1>14 DEF Structure

-----------------------------------------------------------------------------
(* Writing headers. *)

\* The fields of malloc_state, and routines that change some of them only.
Fields == {"chunks", "bins", "dv", "dvsize", "top", "topsize", "segs", "footprint",
           "footprint_limit", "least_addr", "trim_check", "release_checks", "use_mmap",
           "regions", "aborted"}
IsState(m) == m = [f \in Fields |-> m[f]]

SameBins(n, m) == n.bins = m.bins /\ n.dv = m.dv /\ n.dvsize = m.dvsize
SameTop(n, m) == n.top = m.top /\ n.topsize = m.topsize
SameRest(n, m) ==
    /\ IsState(n)
    /\ n.segs = m.segs /\ n.regions = m.regions /\ n.least_addr = m.least_addr
    /\ n.use_mmap = m.use_mmap /\ n.aborted = m.aborted /\ n.footprint = m.footprint

\* A header written at an address: what was inside of the new chunk is no header any more.
Placed(ch, a, h) ==
    [x \in (DOMAIN ch \ ((a + 1)..(a + h.size - 1))) \cup {a} |-> IF x = a THEN h ELSE ch[x]]

\* The headers a routine writes where there was none, and the one it finds there.
FreeHeader(s) == Header(s, FALSE, TRUE)
InuseHeader(s) == Header(s, TRUE, TRUE)
NoHeader == Header(0, FALSE, FALSE)

At(ch, a) == IF a \in DOMAIN ch THEN ch[a] ELSE NoHeader

\* A routine writes headers only.
Writes(n, m, ch) == SameRest(n, m) /\ SameBins(n, m) /\ SameTop(n, m) /\ n.chunks = ch

\* Put writes one header and nothing else.
LEMMA PutIs ==
    ASSUME NEW m, IsState(m), NEW a, NEW h
    PROVE  Writes(Put(m, a, h), m, Placed(m.chunks, a, h))
<1>1. Put(m, a, h) = [m EXCEPT !.chunks = Placed(m.chunks, a, h)]
  BY DEF Put, Placed
<1>2. ASSUME NEW ch PROVE Writes([m EXCEPT !.chunks = ch], m, ch)
  BY DEF IsState, Fields, SameBins, SameTop, SameRest, Writes
<1>. QED
  BY <1>1, <1>2

\* Two writes, one after another.
LEMMA WritesTwice ==
    ASSUME NEW m, NEW n, NEW o, NEW c, NEW d, Writes(n, m, c), Writes(o, n, d)
    PROVE  Writes(o, m, d)
  BY DEF Writes, SameRest, SameBins, SameTop

\* A header with some fields.
Headed(h, size, c, p, foot) ==
    /\ HeaderOk(h) /\ h.size = size /\ (h.c <=> c) /\ (h.p <=> p) /\ h.foot = foot

\* What is said at y of the chunk before it, the size of which is s.
Told(ch, ch2, y, c, s) ==
    y \in DOMAIN ch => Headed(ch2[y], ch[y].size, ch[y].c, c, IF c THEN 0 ELSE s)

\* Elsewhere nothing differs.
Else(ch, ch2, x, y, N) ==
    /\ DOMAIN ch2 = (DOMAIN ch \ (x..(y - 1))) \cup N
    /\ \A q \in DOMAIN ch : q < x \/ q > y => ch2[q] = ch[q]

\* The chunks with one, or with two in the place of those from x up to y.
One(ch, ch2, x, y, c) ==
    /\ Else(ch, ch2, x, y, {x})
    /\ Headed(ch2[x], y - x, c, ch[x].p, ch[x].foot)
    /\ Told(ch, ch2, y, c, y - x)
Two(ch, ch2, x, z, y, c) ==
    /\ Else(ch, ch2, x, y, {x, z})
    /\ Headed(ch2[x], z - x, TRUE, ch[x].p, ch[x].foot)
    /\ Headed(ch2[z], y - z, c, TRUE, 0)
    /\ Told(ch, ch2, y, c, y - z)

\* x and y are headers, and nothing is in the chunk at y.
Ends(ch, x, y) ==
    /\ \A q \in DOMAIN ch : q \in Nat /\ HeaderOk(ch[q])
    /\ x \in DOMAIN ch /\ x \in Nat /\ y \in Nat /\ x < y
    /\ y \in DOMAIN ch => \A q \in DOMAIN ch : q <= y \/ y + ch[y].size <= q

\* The same with any headers.
Pair(ch, x, y, hx, hy) ==
    [q \in (DOMAIN ch \ ((x + 1)..(y - 1))) \cup {x} |->
       IF q = x THEN hx ELSE IF q = y THEN hy ELSE ch[q]]
Triple(ch, x, z, y, hx, hz, hy) ==
    [q \in (DOMAIN ch \ ((x + 1)..(y - 1))) \cup {x, z} |->
       IF q = x THEN hx ELSE IF q = z THEN hz ELSE IF q = y THEN hy ELSE ch[q]]

\* The headers at both ends of a stretch of chunks.
LEMMA EndHeaders ==
    ASSUME NEW ch, NEW x, NEW y, Ends(ch, x, y)
    PROVE  /\ x \in DOMAIN ch /\ x \in Nat /\ y \in Nat /\ x < y /\ x + (y - x) = y
           /\ HeaderOk(ch[x])
           /\ y \in DOMAIN ch => HeaderOk(ch[y])
           /\ At(ch, x) = ch[x]
           /\ y \in DOMAIN ch => At(ch, y) = ch[y]
<1>1. x \in DOMAIN ch /\ x \in Nat /\ y \in Nat /\ x < y
  BY DEF Ends
<1>2. x + (y - x) = y
  BY <1>1
<1>3. HeaderOk(ch[x]) /\ (y \in DOMAIN ch => HeaderOk(ch[y]))
  BY DEF Ends
<1>. QED
  BY <1>1, <1>2, <1>3 DEF At

\* One header for a stretch.
LEMMA PlacedOne ==
    ASSUME NEW ch, NEW x, NEW y, Ends(ch, x, y), NEW hx, hx.size = y - x
    PROVE  /\ Placed(ch, x, hx) = Pair(ch, x, y, hx, ch[y])
           /\ y \in DOMAIN ch => At(Placed(ch, x, hx), y) = ch[y]
           /\ Ends(ch, x, y)
<1>1. x \in DOMAIN ch /\ x \in Nat /\ y \in Nat /\ x < y
  BY DEF Ends
<1>2. Placed(ch, x, hx) = Pair(ch, x, y, hx, ch[y])
  <2>1. (x + 1)..(x + hx.size - 1) = (x + 1)..(y - 1)
    BY <1>1
  <2>. QED
    BY <1>1, <2>1 DEF Placed, Pair
<1>3. ASSUME y \in DOMAIN ch PROVE At(Pair(ch, x, y, hx, ch[y]), y) = ch[y]
  <2>1. y \in (DOMAIN ch \ ((x + 1)..(y - 1))) \cup {x} /\ y # x
    BY <1>1, <1>3
  <2>. QED
    BY <2>1 DEF Pair, At
<1>. QED
  BY <1>2, <1>3

\* The header behind a stretch, written after the one that starts it.
LEMMA PlacedEnd ==
    ASSUME NEW ch, NEW x, NEW y, Ends(ch, x, y), y \in DOMAIN ch, NEW hx, NEW g, NEW h, h.size = ch[y].size
    PROVE  /\ Placed(Pair(ch, x, y, hx, g), y, h) = Pair(ch, x, y, hx, h)
           /\ At(Pair(ch, x, y, hx, g), y) = g
           /\ At(Pair(ch, x, y, hx, g), x) = hx
<1>1. x \in DOMAIN ch /\ x \in Nat /\ y \in Nat /\ x < y /\ ch[y].size \in Nat
  BY DEF Ends, HeaderOk
<1>. DEFINE c1 == Pair(ch, x, y, hx, g)
<1>2. /\ DOMAIN c1 = (DOMAIN ch \ ((x + 1)..(y - 1))) \cup {x}
      /\ \A q \in DOMAIN c1 : c1[q] = IF q = x THEN hx ELSE IF q = y THEN g ELSE ch[q]
  BY DEF Pair
<1>. HIDE DEF c1
<1>3. (DOMAIN c1 \ ((y + 1)..(y + h.size - 1))) \cup {y} = (DOMAIN ch \ ((x + 1)..(y - 1))) \cup {x}
  BY <1>1, <1>2 DEF Ends
<1>4. Placed(c1, y, h) = Pair(ch, x, y, hx, h)
  BY <1>1, <1>2, <1>3 DEF Placed, Pair
<1>5. At(c1, y) = g /\ At(c1, x) = hx
  <2>1. y \in DOMAIN c1 /\ x \in DOMAIN c1 /\ x # y
    BY <1>1, <1>2
  <2>. QED
    BY <1>2, <2>1 DEF At
<1>. QED
  BY <1>4, <1>5 DEF c1

\* The header behind a stretch, written before the one that starts it.
LEMMA PlacedEndFirst ==
    ASSUME NEW ch, NEW x, NEW y, Ends(ch, x, y), y \in DOMAIN ch, NEW hx, hx.size = y - x,
           NEW g, g.size = ch[y].size
    PROVE  /\ Placed(Placed(ch, y, g), x, hx) = Pair(ch, x, y, hx, g)
<1>1. x \in DOMAIN ch /\ x \in Nat /\ y \in Nat /\ x < y /\ ch[y].size \in Nat
  BY DEF Ends, HeaderOk
<1>. DEFINE c1 == Placed(ch, y, g)
<1>2. DOMAIN c1 = DOMAIN ch /\ \A q \in DOMAIN c1 : c1[q] = IF q = y THEN g ELSE ch[q]
  BY <1>1 DEF Placed, Ends
<1>. HIDE DEF c1
<1>3. (x + 1)..(x + hx.size - 1) = (x + 1)..(y - 1)
  BY <1>1
<1>4. Placed(c1, x, hx) = Pair(ch, x, y, hx, g)
  BY <1>1, <1>2, <1>3 DEF Placed, Pair
<1>. QED
  BY <1>4 DEF c1

\* The middle of a chunk, before or after its start.
LEMMA PlacedMiddle ==
    ASSUME NEW ch, NEW x, NEW y, NEW z \in Nat, Ends(ch, x, y), x < z, z < y, z \notin DOMAIN ch,
           NEW hx, hx.size = z - x, NEW hz, hz.size = y - z
    PROVE  /\ Placed(Placed(ch, x, hx), z, hz) = Triple(ch, x, z, y, hx, hz, ch[y])
           /\ Placed(Placed(ch, z, hz), x, hx) = Triple(ch, x, z, y, hx, hz, ch[y])
           /\ At(Placed(ch, x, hx), z) = NoHeader
           /\ \A g : g.size = 0 => Placed(Placed(Placed(ch, x, hx), z, g), z, hz) = Triple(ch, x, z, y, hx, hz, ch[y])
           /\ \A g : g.size = 0 => At(Placed(Placed(ch, x, hx), z, g), z) = g
<1>1. x \in DOMAIN ch /\ x \in Nat /\ y \in Nat /\ x < y
  BY DEF Ends
<1>2. (x + 1)..(x + hx.size - 1) = (x + 1)..(z - 1) /\ (z + 1)..(z + hz.size - 1) = (z + 1)..(y - 1)
  BY <1>1
<1>. DEFINE c1 == Placed(ch, x, hx)
            c2 == Placed(ch, z, hz)
<1>3. /\ DOMAIN c1 = DOMAIN ch \ ((x + 1)..(z - 1))
      /\ \A q \in DOMAIN c1 : c1[q] = IF q = x THEN hx ELSE ch[q]
  BY <1>1, <1>2 DEF Placed
<1>4. /\ DOMAIN c2 = (DOMAIN ch \ ((z + 1)..(y - 1))) \cup {z}
      /\ \A q \in DOMAIN c2 : c2[q] = IF q = z THEN hz ELSE ch[q]
  BY <1>1, <1>2 DEF Placed
<1>. HIDE DEF c1, c2
<1>5. Placed(c1, z, hz) = Triple(ch, x, z, y, hx, hz, ch[y])
  <2>1. (DOMAIN c1 \ ((z + 1)..(z + hz.size - 1))) \cup {z} = (DOMAIN ch \ ((x + 1)..(y - 1))) \cup {x, z}
    BY <1>1, <1>2, <1>3
  <2>. QED
    BY <1>1, <1>3, <2>1 DEF Placed, Triple
<1>6. Placed(c2, x, hx) = Triple(ch, x, z, y, hx, hz, ch[y])
  <2>1. (DOMAIN c2 \ ((x + 1)..(x + hx.size - 1))) \cup {x} = (DOMAIN ch \ ((x + 1)..(y - 1))) \cup {x, z}
    BY <1>1, <1>2, <1>4
  <2>. QED
    BY <1>1, <1>4, <2>1 DEF Placed, Triple
<1>7. At(c1, z) = NoHeader
  BY <1>3 DEF At
<1>8. ASSUME NEW g, g.size = 0
      PROVE  /\ Placed(Placed(c1, z, g), z, hz) = Triple(ch, x, z, y, hx, hz, ch[y])
             /\ At(Placed(c1, z, g), z) = g
  <2>. DEFINE c3 == Placed(c1, z, g)
  <2>1. DOMAIN c3 = DOMAIN c1 \cup {z} /\ \A q \in DOMAIN c3 : c3[q] = IF q = z THEN g ELSE c1[q]
    BY <1>8 DEF Placed
  <2>. HIDE DEF c3
  <2>2. (DOMAIN c3 \ ((z + 1)..(z + hz.size - 1))) \cup {z} = (DOMAIN ch \ ((x + 1)..(y - 1))) \cup {x, z}
    BY <1>1, <1>2, <1>3, <2>1
  <2>3. Placed(c3, z, hz) = Triple(ch, x, z, y, hx, hz, ch[y])
    BY <1>1, <1>3, <2>1, <2>2 DEF Placed, Triple
  <2>. QED
    BY <2>1, <2>3 DEF c3, At
<1>. QED
  BY <1>5, <1>6, <1>7, <1>8 DEF c1, c2

\* The header behind a stretch that has become two.
LEMMA TripleEnd ==
    ASSUME NEW ch, NEW x, NEW y, NEW z \in Nat, Ends(ch, x, y), x < z, z < y, y \in DOMAIN ch,
           NEW hx, NEW hz, NEW g, NEW h, h.size = ch[y].size
    PROVE  /\ Placed(Triple(ch, x, z, y, hx, hz, g), y, h) = Triple(ch, x, z, y, hx, hz, h)
           /\ At(Triple(ch, x, z, y, hx, hz, g), y) = g
<1>1. x \in DOMAIN ch /\ x \in Nat /\ y \in Nat /\ x < y /\ ch[y].size \in Nat
  BY DEF Ends, HeaderOk
<1>. DEFINE c1 == Triple(ch, x, z, y, hx, hz, g)
<1>2. /\ DOMAIN c1 = (DOMAIN ch \ ((x + 1)..(y - 1))) \cup {x, z}
      /\ \A q \in DOMAIN c1 : c1[q] = IF q = x THEN hx ELSE IF q = z THEN hz ELSE IF q = y THEN g ELSE ch[q]
  BY DEF Triple
<1>. HIDE DEF c1
<1>3. (DOMAIN c1 \ ((y + 1)..(y + h.size - 1))) \cup {y} = (DOMAIN ch \ ((x + 1)..(y - 1))) \cup {x, z}
  BY <1>1, <1>2 DEF Ends
<1>4. Placed(c1, y, h) = Triple(ch, x, z, y, hx, hz, h)
  BY <1>1, <1>2, <1>3 DEF Placed, Triple
<1>5. At(c1, y) = g
  <2>1. y \in DOMAIN c1 /\ x # y
    BY <1>1, <1>2
  <2>. QED
    BY <1>2, <2>1 DEF At
<1>. QED
  BY <1>4, <1>5 DEF c1

\* One more write after others.
LEMMA WritesPut ==
    ASSUME NEW m, NEW n, NEW c, Writes(n, m, c), NEW a
    PROVE  /\ IsState(n) /\ n.chunks = c
           /\ HeaderAt(n, a) = At(c, a)
           /\ \A h : Writes(Put(n, a, h), m, Placed(c, a, h))
<1>1. IsState(n) /\ n.chunks = c
  BY DEF Writes, SameRest
<1>. QED
  BY <1>1, PutIs, WritesTwice DEF HeaderAt, At, NoHeader

\* No write at all.
LEMMA WritesNothing ==
    ASSUME NEW m, IsState(m)
    PROVE  Writes(m, m, m.chunks)
  BY DEF Writes, SameRest, SameBins, SameTop

\* The two headers at the ends of a stretch make it one chunk.
LEMMA PairOne ==
    ASSUME NEW ch, NEW x, NEW y, Ends(ch, x, y), NEW c \in BOOLEAN, NEW hx, NEW hy,
           Headed(hx, y - x, c, ch[x].p, ch[x].foot),
           y \in DOMAIN ch => Headed(hy, ch[y].size, ch[y].c, c, IF c THEN 0 ELSE y - x)
    PROVE  One(ch, Pair(ch, x, y, hx, hy), x, y, c)
<1>1. x \in DOMAIN ch /\ x \in Nat /\ y \in Nat /\ x < y /\ \A q \in DOMAIN ch : q \in Nat
  BY DEF Ends
<1>. DEFINE ch2 == Pair(ch, x, y, hx, hy)
<1>2. /\ DOMAIN ch2 = (DOMAIN ch \ ((x + 1)..(y - 1))) \cup {x}
      /\ \A q \in DOMAIN ch2 : ch2[q] = IF q = x THEN hx ELSE IF q = y THEN hy ELSE ch[q]
  BY DEF Pair
<1>. HIDE DEF ch2
<1>3. DOMAIN ch2 = (DOMAIN ch \ (x..(y - 1))) \cup {x}
  BY <1>1, <1>2
<1>4. ch2[x] = hx /\ (y \in DOMAIN ch => ch2[y] = hy)
  BY <1>1, <1>2
<1>5. \A q \in DOMAIN ch : q < x \/ q > y => ch2[q] = ch[q]
  BY <1>1, <1>2
<1>6. One(ch, ch2, x, y, c)
  BY <1>3, <1>4, <1>5 DEF One, Else, Told
<1>. QED
  BY <1>6 DEF ch2

\* Three headers make it two.
LEMMA TripleTwo ==
    ASSUME NEW ch, NEW x, NEW y, NEW z \in Nat, Ends(ch, x, y), x < z, z < y,
           NEW c \in BOOLEAN, NEW hx, NEW hz, NEW hy,
           Headed(hx, z - x, TRUE, ch[x].p, ch[x].foot), Headed(hz, y - z, c, TRUE, 0),
           y \in DOMAIN ch => Headed(hy, ch[y].size, ch[y].c, c, IF c THEN 0 ELSE y - z)
    PROVE  Two(ch, Triple(ch, x, z, y, hx, hz, hy), x, z, y, c)
<1>1. x \in DOMAIN ch /\ x \in Nat /\ y \in Nat /\ x < y /\ \A q \in DOMAIN ch : q \in Nat
  BY DEF Ends
<1>. DEFINE ch2 == Triple(ch, x, z, y, hx, hz, hy)
<1>2. /\ DOMAIN ch2 = (DOMAIN ch \ ((x + 1)..(y - 1))) \cup {x, z}
      /\ \A q \in DOMAIN ch2 : ch2[q] = IF q = x THEN hx ELSE IF q = z THEN hz ELSE IF q = y THEN hy ELSE ch[q]
  BY DEF Triple
<1>. HIDE DEF ch2
<1>3. DOMAIN ch2 = (DOMAIN ch \ (x..(y - 1))) \cup {x, z}
  BY <1>1, <1>2
<1>4. ch2[x] = hx /\ ch2[z] = hz /\ (y \in DOMAIN ch => ch2[y] = hy)
  BY <1>1, <1>2
<1>5. \A q \in DOMAIN ch : q < x \/ q > y => ch2[q] = ch[q]
  BY <1>1, <1>2
<1>6. Two(ch, ch2, x, z, y, c)
  BY <1>3, <1>4, <1>5 DEF Two, Else, Told
<1>. QED
  BY <1>6 DEF ch2

\* What the routines make of a header.
LEMMA InuseHead ==
    ASSUME NEW h, HeaderOk(h), NEW s \in Nat, s > 0
    PROVE  /\ Headed([h EXCEPT !.size = s, !.c = TRUE], s, TRUE, h.p, h.foot)
           /\ Headed([h EXCEPT !.p = TRUE, !.foot = 0], h.size, h.c, TRUE, 0)
<1>. DEFINE Shape(g) == g = [f \in {"size", "c", "p", "foot"} |-> g[f]]
<1>1. Shape(h) /\ (h.p => h.foot = 0)
      /\ h.p \in BOOLEAN /\ h.c \in BOOLEAN /\ h.size \in Nat /\ h.foot \in Nat
      /\ (h.size = 0 => h.c /\ h.p)
  BY DEF HeaderOk
<1>2. ASSUME NEW b, b = TRUE PROVE Headed([h EXCEPT !.size = s, !.c = b], s, TRUE, h.p, h.foot)
  <2>. DEFINE a == [h EXCEPT !.size = s, !.c = b]
  <2>1. a.size = s /\ a.c = b /\ a.p = h.p /\ a.foot = h.foot /\ Shape(a)
    BY <1>1
  <2>. HIDE DEF a
  <2>2. Headed(a, s, TRUE, h.p, h.foot)
    BY <1>1, <1>2, <2>1 DEF Headed, HeaderOk
  <2>. QED
    BY <2>2 DEF a
<1>3. ASSUME NEW b, b = TRUE PROVE Headed([h EXCEPT !.p = b, !.foot = 0], h.size, h.c, TRUE, 0)
  <2>. DEFINE a == [h EXCEPT !.p = b, !.foot = 0]
  <2>1. a.size = h.size /\ a.c = h.c /\ a.p = b /\ a.foot = 0 /\ Shape(a)
    BY <1>1
  <2>. HIDE DEF a
  <2>2. Headed(a, h.size, h.c, TRUE, 0)
    BY <1>1, <1>3, <2>1 DEF Headed, HeaderOk
  <2>. QED
    BY <2>2 DEF a
<1>. QED
  BY <1>2, <1>3, Zenon

\* A header written where nothing was.
LEMMA NewHead ==
    ASSUME NEW s \in Nat, s > 0, NEW c, c \in BOOLEAN
    PROVE  Headed(Header(s, c, TRUE), s, c, TRUE, 0)
<1>1. ASSUME NEW b, b = TRUE PROVE Headed(Header(s, c, b), s, c, TRUE, 0)
  <2>. DEFINE a == Header(s, c, b)
  <2>1. a = [f \in {"size", "c", "p", "foot"} |-> a[f]] /\ a.size = s /\ a.c = c /\ a.p = b /\ a.foot = 0
    BY DEF Header
  <2>. HIDE DEF a
  <2>2. a.p /\ a.p \in BOOLEAN
    BY <1>1, <2>1
  <2>3. a.c \in BOOLEAN
    BY <2>1
  <2>4. a.c <=> c
    BY <2>1
  <2>5. HeaderOk(a)
    BY <2>1, <2>2, <2>3 DEF HeaderOk
  <2>6. Headed(a, s, c, TRUE, 0)
    BY <2>1, <2>2, <2>4, <2>5 DEF Headed
  <2>. QED
    BY <2>6 DEF a
<1>. QED
  BY <1>1, Zenon

\* The header behind a chunk that is made free.
LEMMA FreeHead ==
    ASSUME NEW h, HeaderOk(h), h.size > 0, NEW s \in Nat
    PROVE  /\ ~h.p => Headed([h EXCEPT !.foot = s], h.size, h.c, FALSE, s)
           /\ Headed([[h EXCEPT !.p = FALSE] EXCEPT !.foot = s], h.size, h.c, FALSE, s)
           /\ Headed([[h EXCEPT !.foot = s] EXCEPT !.p = FALSE], h.size, h.c, FALSE, s)
           /\ [h EXCEPT !.p = FALSE].size = h.size
           /\ [h EXCEPT !.foot = s].size = h.size
<1>. DEFINE Shape(g) == g = [f \in {"size", "c", "p", "foot"} |-> g[f]]
<1>1. Shape(h) /\ (h.p => h.foot = 0)
      /\ h.p \in BOOLEAN /\ h.c \in BOOLEAN /\ h.size \in Nat /\ h.foot \in Nat
  BY DEF HeaderOk
<1>2. ASSUME ~h.p PROVE Headed([h EXCEPT !.foot = s], h.size, h.c, FALSE, s)
  <2>. DEFINE a == [h EXCEPT !.foot = s]
  <2>1. a.size = h.size /\ a.c = h.c /\ a.p = h.p /\ a.foot = s /\ Shape(a)
    BY <1>1
  <2>. HIDE DEF a
  <2>2. Headed(a, h.size, h.c, FALSE, s)
    BY <1>1, <1>2, <2>1 DEF Headed, HeaderOk
  <2>. QED
    BY <2>2 DEF a
<1>3. ASSUME NEW b \in BOOLEAN, ~b PROVE Headed([[h EXCEPT !.p = b] EXCEPT !.foot = s], h.size, h.c, FALSE, s)
  <2>. DEFINE a == [[h EXCEPT !.p = b] EXCEPT !.foot = s]
  <2>1. a.size = h.size /\ a.c = h.c /\ a.p = b /\ a.foot = s /\ Shape(a)
    BY <1>1
  <2>. HIDE DEF a
  <2>2. Headed(a, h.size, h.c, FALSE, s)
    BY <1>1, <1>3, <2>1 DEF Headed, HeaderOk
  <2>. QED
    BY <2>2 DEF a
<1>4. ASSUME NEW b \in BOOLEAN, ~b PROVE Headed([[h EXCEPT !.foot = s] EXCEPT !.p = b], h.size, h.c, FALSE, s)
  <2>. DEFINE a == [[h EXCEPT !.foot = s] EXCEPT !.p = b]
  <2>1. a.size = h.size /\ a.c = h.c /\ a.p = b /\ a.foot = s /\ Shape(a)
    BY <1>1
  <2>. HIDE DEF a
  <2>2. Headed(a, h.size, h.c, FALSE, s)
    BY <1>1, <1>4, <2>1 DEF Headed, HeaderOk
  <2>. QED
    BY <2>2 DEF a
<1>5. ASSUME NEW b PROVE [h EXCEPT !.p = b].size = h.size /\ [h EXCEPT !.foot = s].size = h.size
  BY <1>1
<1>. QED
  BY <1>2, <1>3, <1>4, <1>5, Zenon

\* What every routine below starts from.
LEMMA EndsOf ==
    ASSUME NEW m, NEW x, NEW y, Ends(m.chunks, x, y)
    PROVE  /\ x + (y - x) = y /\ x \in Nat /\ y \in Nat /\ x < y /\ y - x \in Nat /\ y - x > 0
           /\ HeaderOk(m.chunks[x]) /\ HeaderAt(m, x) = m.chunks[x]
           /\ y \in DOMAIN m.chunks => HeaderOk(m.chunks[y]) /\ HeaderAt(m, y) = m.chunks[y]
<1>1. /\ x \in DOMAIN m.chunks /\ x \in Nat /\ y \in Nat /\ x < y /\ x + (y - x) = y
      /\ HeaderOk(m.chunks[x]) /\ (y \in DOMAIN m.chunks => HeaderOk(m.chunks[y]))
  BY EndHeaders
<1>2. y - x \in Nat /\ y - x > 0
  BY <1>1
<1>. QED
  BY <1>1, <1>2 DEF HeaderAt

\* A routine writes headers only, and what it writes comes from two Puts.
Wrote(n, m) == SameRest(n, m) /\ SameBins(n, m) /\ SameTop(n, m)

\* A header and the one behind it.
LEMMA TwoPuts ==
    ASSUME NEW m, IsState(m), NEW x, NEW y, Ends(m.chunks, x, y), y \in DOMAIN m.chunks,
           NEW hx, hx.size = y - x
    PROVE  /\ HeaderAt(Put(m, x, hx), y) = m.chunks[y]
           /\ \A hy : hy.size = m.chunks[y].size =>
                Writes(Put(Put(m, x, hx), y, hy), m, Pair(m.chunks, x, y, hx, hy))
<1>. DEFINE ch == m.chunks
            n == Put(m, x, hx)
<1>. HIDE DEF ch
<1>1. Writes(n, m, Pair(ch, x, y, hx, ch[y]))
  BY PutIs, PlacedOne DEF ch
<1>. HIDE DEF n
<1>2. HeaderAt(n, y) = ch[y]
  BY <1>1, WritesPut, PlacedEnd DEF ch
<1>3. ASSUME NEW hy, hy.size = ch[y].size PROVE Writes(Put(n, y, hy), m, Pair(ch, x, y, hx, hy))
  BY <1>1, <1>3, WritesPut, PlacedEnd DEF ch
<1>. QED
  BY <1>2, <1>3 DEF ch, n

\* set_inuse makes the stretch one chunk in use.
LEMMA SetInuseIs ==
    ASSUME NEW m, IsState(m), NEW x, NEW y, Ends(m.chunks, x, y), y \in DOMAIN m.chunks
    PROVE  LET n == SetInuse(m, x, y - x) IN Wrote(n, m) /\ One(m.chunks, n.chunks, x, y, TRUE)
<1>. DEFINE ch == m.chunks
            hx == [ch[x] EXCEPT !.size = y - x, !.c = TRUE]
            hy == [ch[y] EXCEPT !.p = TRUE, !.foot = 0]
            n == SetInuse(m, x, y - x)
<1>1. /\ x + (y - x) = y /\ y - x \in Nat /\ y - x > 0
      /\ HeaderOk(m.chunks[x]) /\ HeaderOk(m.chunks[y]) /\ HeaderAt(m, x) = m.chunks[x]
  <2>1. HeaderOk(m.chunks[x]) /\ HeaderAt(m, x) = m.chunks[x] /\ HeaderOk(m.chunks[y])
    BY EndsOf
  <2>2. x \in Nat /\ y \in Nat /\ x < y
    BY EndsOf
  <2>. QED
    BY <2>1, <2>2
<1>2. Headed(hx, y - x, TRUE, ch[x].p, ch[x].foot) /\ Headed(hy, ch[y].size, ch[y].c, TRUE, 0)
  BY <1>1, InuseHead
<1>3. hx.size = y - x /\ hy.size = ch[y].size
  BY <1>2 DEF Headed
<1>4. n = MarkPinuse(Put(m, x, hx), y)
  BY <1>1 DEF SetInuse
<1>. HIDE DEF hx, hy, n
<1>5. n = Put(Put(m, x, hx), y, hy)
  <2>1. HeaderAt(Put(m, x, hx), y) = ch[y]
    BY <1>3, TwoPuts
  <2>. QED
    BY <1>4, <2>1 DEF MarkPinuse, hy
<1>6. Writes(n, m, Pair(ch, x, y, hx, hy))
  BY <1>3, <1>5, TwoPuts
<1>7. One(ch, Pair(ch, x, y, hx, hy), x, y, TRUE)
  BY <1>2, PairOne
<1>8. Wrote(n, m) /\ One(m.chunks, n.chunks, x, y, TRUE)
  BY <1>6, <1>7 DEF Writes, Wrote
<1>. QED
  BY <1>8 DEF n

\* set_inuse_and_pinuse does, behind a chunk in use.
LEMMA SetInuseAndPinuseIs ==
    ASSUME NEW m, IsState(m), NEW x, NEW y, Ends(m.chunks, x, y), y \in DOMAIN m.chunks, m.chunks[x].p
    PROVE  LET n == SetInuseAndPinuse(m, x, y - x) IN Wrote(n, m) /\ One(m.chunks, n.chunks, x, y, TRUE)
<1>. DEFINE ch == m.chunks
            hx == Header(y - x, TRUE, TRUE)
            hy == [ch[y] EXCEPT !.p = TRUE, !.foot = 0]
            n == SetInuseAndPinuse(m, x, y - x)
<1>1. /\ x + (y - x) = y /\ y - x \in Nat /\ y - x > 0
      /\ HeaderOk(m.chunks[x]) /\ HeaderOk(m.chunks[y]) /\ HeaderAt(m, x) = m.chunks[x]
  <2>1. HeaderOk(m.chunks[x]) /\ HeaderAt(m, x) = m.chunks[x] /\ HeaderOk(m.chunks[y])
    BY EndsOf
  <2>2. x \in Nat /\ y \in Nat /\ x < y
    BY EndsOf
  <2>. QED
    BY <2>1, <2>2
<1>2. Headed(hx, y - x, TRUE, ch[x].p, ch[x].foot) /\ Headed(hy, ch[y].size, ch[y].c, TRUE, 0)
  <2>1. m.chunks[x].foot = 0
    BY <1>1 DEF HeaderOk
  <2>2. Headed(hx, y - x, TRUE, TRUE, 0)
    BY <1>1, NewHead
  <2>3. Headed(hx, y - x, TRUE, ch[x].p, ch[x].foot)
    BY <2>1, <2>2 DEF Headed
  <2>4. Headed(hy, ch[y].size, ch[y].c, TRUE, 0)
    BY <1>1, InuseHead
  <2>. QED
    BY <2>3, <2>4
<1>3. hx.size = y - x /\ hy.size = ch[y].size
  BY <1>2 DEF Headed
<1>4. n = MarkPinuse(Put(m, x, hx), y)
  BY <1>1 DEF SetInuseAndPinuse
<1>. HIDE DEF hx, hy, n
<1>5. n = Put(Put(m, x, hx), y, hy)
  <2>1. HeaderAt(Put(m, x, hx), y) = ch[y]
    BY <1>3, TwoPuts
  <2>. QED
    BY <1>4, <2>1 DEF MarkPinuse, hy
<1>6. Writes(n, m, Pair(ch, x, y, hx, hy))
  BY <1>3, <1>5, TwoPuts
<1>7. One(ch, Pair(ch, x, y, hx, hy), x, y, TRUE)
  BY <1>2, PairOne
<1>8. Wrote(n, m) /\ One(m.chunks, n.chunks, x, y, TRUE)
  BY <1>6, <1>7 DEF Writes, Wrote
<1>. QED
  BY <1>8 DEF n

\* set_size_and_pinuse_of_free_chunk makes the stretch one free chunk.
LEMMA SetFreeIs ==
    ASSUME NEW m, IsState(m), NEW x, NEW y, Ends(m.chunks, x, y), y \in DOMAIN m.chunks,
           m.chunks[x].p, ~m.chunks[y].p, m.chunks[y].size > 0
    PROVE  LET n == SetSizeAndPinuseOfFree(m, x, y - x) IN Wrote(n, m) /\ One(m.chunks, n.chunks, x, y, FALSE)
<1>. DEFINE ch == m.chunks
            hx == Header(y - x, FALSE, TRUE)
            hy == [ch[y] EXCEPT !.foot = y - x]
            n == SetSizeAndPinuseOfFree(m, x, y - x)
<1>1. /\ x + (y - x) = y /\ y - x \in Nat /\ y - x > 0
      /\ HeaderOk(m.chunks[x]) /\ HeaderOk(m.chunks[y]) /\ HeaderAt(m, x) = m.chunks[x]
  <2>1. HeaderOk(m.chunks[x]) /\ HeaderAt(m, x) = m.chunks[x] /\ HeaderOk(m.chunks[y])
    BY EndsOf
  <2>2. x \in Nat /\ y \in Nat /\ x < y
    BY EndsOf
  <2>. QED
    BY <2>1, <2>2
<1>2. Headed(hx, y - x, FALSE, ch[x].p, ch[x].foot) /\ Headed(hy, ch[y].size, ch[y].c, FALSE, y - x)
  <2>1. m.chunks[x].foot = 0
    BY <1>1 DEF HeaderOk
  <2>2. Headed(hx, y - x, FALSE, TRUE, 0)
    BY <1>1, NewHead
  <2>3. Headed(hx, y - x, FALSE, ch[x].p, ch[x].foot)
    BY <2>1, <2>2 DEF Headed
  <2>4. Headed(hy, ch[y].size, ch[y].c, FALSE, y - x)
    BY <1>1, FreeHead
  <2>. QED
    BY <2>3, <2>4
<1>3. hx.size = y - x /\ hy.size = ch[y].size
  BY <1>2 DEF Headed
<1>4. n = Put(Put(m, x, hx), y, [HeaderAt(Put(m, x, hx), y) EXCEPT !.foot = y - x])
  BY <1>1 DEF SetSizeAndPinuseOfFree
<1>. HIDE DEF hx, hy, n
<1>5. n = Put(Put(m, x, hx), y, hy)
  <2>1. HeaderAt(Put(m, x, hx), y) = ch[y]
    BY <1>3, TwoPuts
  <2>. QED
    BY <1>4, <2>1 DEF hy
<1>6. Writes(n, m, Pair(ch, x, y, hx, hy))
  BY <1>3, <1>5, TwoPuts
<1>7. One(ch, Pair(ch, x, y, hx, hy), x, y, FALSE)
  BY <1>2, PairOne
<1>8. Wrote(n, m) /\ One(m.chunks, n.chunks, x, y, FALSE)
  BY <1>6, <1>7 DEF Writes, Wrote
<1>. QED
  BY <1>8 DEF n

\* set_free_with_pinuse does, where a chunk in use was behind it.
LEMMA SetFreeWithPinuseIs ==
    ASSUME NEW m, IsState(m), NEW x, NEW y, Ends(m.chunks, x, y), y \in DOMAIN m.chunks,
           m.chunks[x].p, m.chunks[y].size > 0
    PROVE  LET n == SetFreeWithPinuse(m, x, y - x, y) IN Wrote(n, m) /\ One(m.chunks, n.chunks, x, y, FALSE)
<1>. DEFINE ch == m.chunks
            hx == Header(y - x, FALSE, TRUE)
            hy == [[ch[y] EXCEPT !.p = FALSE] EXCEPT !.foot = y - x]
            n == SetFreeWithPinuse(m, x, y - x, y)
<1>1. /\ x + (y - x) = y /\ y - x \in Nat /\ y - x > 0
      /\ HeaderOk(m.chunks[x]) /\ HeaderOk(m.chunks[y]) /\ HeaderAt(m, x) = m.chunks[x]
      /\ HeaderAt(m, y) = m.chunks[y]
  <2>1. HeaderOk(m.chunks[x]) /\ HeaderAt(m, x) = m.chunks[x] /\ HeaderOk(m.chunks[y])
        /\ HeaderAt(m, y) = m.chunks[y]
    BY ZenonT(60), EndsOf
  <2>2. x \in Nat /\ y \in Nat /\ x < y
    BY EndsOf
  <2>. QED
    BY <2>1, <2>2
<1>2. Headed(hx, y - x, FALSE, ch[x].p, ch[x].foot) /\ Headed(hy, ch[y].size, ch[y].c, FALSE, y - x)
  <2>1. m.chunks[x].foot = 0
    BY <1>1 DEF HeaderOk
  <2>2. Headed(hx, y - x, FALSE, TRUE, 0)
    BY <1>1, NewHead
  <2>3. Headed(hx, y - x, FALSE, ch[x].p, ch[x].foot)
    BY <2>1, <2>2 DEF Headed
  <2>4. Headed(hy, ch[y].size, ch[y].c, FALSE, y - x)
    BY <1>1, FreeHead
  <2>. QED
    BY <2>3, <2>4
<1>3. hx.size = y - x /\ hy.size = ch[y].size
  BY <1>2 DEF Headed
<1>. DEFINE h0 == [ch[y] EXCEPT !.p = FALSE]
            o == Put(Put(m, y, h0), x, hx)
<1>4. n = Put(o, y, [HeaderAt(o, y) EXCEPT !.foot = y - x]) /\ h0.size = ch[y].size
  <2>1. HeaderAt(m, y) = ch[y]
    BY <1>1
  <2>2. n = Put(o, y, [HeaderAt(o, y) EXCEPT !.foot = y - x])
    BY <1>1, <2>1 DEF SetSizeAndPinuseOfFree, SetFreeWithPinuse, ClearPinuse
  <2>3. h0.size = ch[y].size
    BY <1>1, FreeHead
  <2>. QED
    BY <2>2, <2>3
<1>4a. hy = [h0 EXCEPT !.foot = y - x]
  OBVIOUS
<1>. HIDE DEF hx, hy, n, h0
<1>4b. Writes(o, m, Pair(ch, x, y, hx, h0))
  <2>1. Writes(Put(m, y, h0), m, Placed(ch, y, h0))
    BY PutIs
  <2>2. Writes(o, m, Placed(Placed(ch, y, h0), x, hx))
    BY <2>1, WritesPut
  <2>3. Placed(Placed(ch, y, h0), x, hx) = Pair(ch, x, y, hx, h0)
    BY <1>3, <1>4, PlacedEndFirst
  <2>. QED
    BY <2>2, <2>3
<1>. HIDE DEF o
<1>4c. n = Put(o, y, hy)
  <2>1. HeaderAt(o, y) = h0
    BY <1>4b, WritesPut, PlacedEnd
  <2>. QED
    BY <1>4, <1>4a, <2>1
<1>6. Writes(n, m, Pair(ch, x, y, hx, hy))
  BY <1>3, <1>4b, <1>4c, WritesPut, PlacedEnd
<1>7. One(ch, Pair(ch, x, y, hx, hy), x, y, FALSE)
  BY <1>2, PairOne
<1>8. Wrote(n, m) /\ One(m.chunks, n.chunks, x, y, FALSE)
  BY <1>6, <1>7 DEF Writes, Wrote
<1>. QED
  BY <1>8 DEF n

\* SetTop writes the header of the new top chunk.
Topped(n, m, a, s) == SameRest(n, m) /\ SameBins(n, m) /\ n.top = a /\ n.topsize = s

\* The two headers that replace nothing.
LEMMA NewHeads ==
    ASSUME NEW s \in Nat, s > 0
    PROVE  Headed(FreeHeader(s), s, FALSE, TRUE, 0) /\ Headed(InuseHeader(s), s, TRUE, TRUE, 0)
<1>1. FALSE \in BOOLEAN /\ TRUE \in BOOLEAN
  OBVIOUS
<1>. QED
  BY <1>1, NewHead, Zenon DEF FreeHeader, InuseHeader

\* The header of top is written like any other.
LEMMA SetTopPut ==
    ASSUME NEW m, NEW n, NEW c, Writes(n, m, c), NEW a, NEW s
    PROVE  Topped(SetTop(n, a, s), m, a, s) /\ SetTop(n, a, s).chunks = Placed(c, a, FreeHeader(s))
<1>. DEFINE t == [n EXCEPT !.top = a, !.topsize = s]
<1>1. IsState(n) /\ n.chunks = c /\ SameRest(n, m) /\ SameBins(n, m)
  BY DEF Writes, SameRest
<1>2. IsState(t) /\ SameRest(t, n) /\ SameBins(t, n) /\ t.chunks = n.chunks /\ t.top = a /\ t.topsize = s
  BY <1>1 DEF IsState, Fields, SameRest, SameBins
<1>3. SetTop(n, a, s) = Put(t, a, FreeHeader(s))
  BY DEF SetTop, FreeHeader
<1>. HIDE DEF t
<1>4. Writes(SetTop(n, a, s), t, Placed(c, a, FreeHeader(s)))
  BY <1>1, <1>2, <1>3, PutIs
<1>. QED
  BY <1>1, <1>2, <1>4 DEF Writes, Topped, SameRest, SameBins, SameTop

\* The header of what begins where a free or a mapped chunk did not.
LEMMA HeadAt ==
    ASSUME NEW ch, NEW x, HeaderOk(ch[x]), ch[x].p, NEW s, NEW c, NEW h, Headed(h, s, c, TRUE, 0)
    PROVE  Headed(h, s, c, ch[x].p, ch[x].foot)
  BY DEF Headed, HeaderOk

\* A stretch becomes the top chunk.
LEMMA SetTopIs ==
    ASSUME NEW m, IsState(m), NEW x, NEW y, Ends(m.chunks, x, y), y \notin DOMAIN m.chunks,
           m.chunks[x].p
    PROVE  LET n == SetTop(m, x, y - x) IN Topped(n, m, x, y - x) /\ One(m.chunks, n.chunks, x, y, FALSE)
<1>. DEFINE ch == m.chunks
            hx == FreeHeader(y - x)
            n == SetTop(m, x, y - x)
<1>1. HeaderOk(ch[x]) /\ y - x \in Nat /\ y - x > 0
  <2>1. x \in Nat /\ y \in Nat /\ x < y /\ HeaderOk(ch[x])
    BY EndsOf
  <2>. QED
    BY <2>1
<1>2. Headed(hx, y - x, FALSE, ch[x].p, ch[x].foot)
  <2>1. Headed(hx, y - x, FALSE, TRUE, 0)
    BY <1>1, NewHeads
  <2>. QED
    BY <1>1, <2>1, HeadAt
<1>3. Topped(n, m, x, y - x) /\ n.chunks = Placed(ch, x, hx)
  <2>1. Writes(m, m, ch)
    BY WritesNothing
  <2>. QED
    BY <2>1, SetTopPut
<1>. HIDE DEF hx, n
<1>4. Placed(ch, x, hx) = Pair(ch, x, y, hx, ch[y])
  BY <1>2, PlacedOne DEF Headed
<1>5. One(ch, Pair(ch, x, y, hx, ch[y]), x, y, FALSE)
  BY <1>2, PairOne
<1>6. Topped(n, m, x, y - x) /\ One(m.chunks, n.chunks, x, y, FALSE)
  BY <1>3, <1>4, <1>5
<1>. QED
  BY <1>6 DEF n

\* z is inside the chunk, or the chunks, from x up to y.
Inside(ch, x, z, y) ==
    Ends(ch, x, y) /\ z \in Nat /\ x < z /\ z < y /\ z \notin DOMAIN ch

\* What that says of the ends.
LEMMA InsideOf ==
    ASSUME NEW ch, NEW x, NEW y, NEW z, Inside(ch, x, z, y)
    PROVE  /\ Ends(ch, x, y) /\ z \in Nat /\ x \in Nat /\ y \in Nat /\ x < z /\ z < y
           /\ z \notin DOMAIN ch /\ x \in DOMAIN ch /\ HeaderOk(ch[x])
           /\ y \in DOMAIN ch => HeaderOk(ch[y])
<1>1. Ends(ch, x, y) /\ z \in Nat /\ x < z /\ z < y /\ z \notin DOMAIN ch
  BY DEF Inside
<1>. QED
  BY <1>1, EndHeaders

\* And of the sizes of the two parts.
LEMMA InsideSizes ==
    ASSUME NEW ch, NEW x, NEW y, NEW z, Inside(ch, x, z, y)
    PROVE  /\ x \in Nat /\ z \in Nat /\ y \in Nat /\ x < z /\ z < y
           /\ x + (z - x) = z /\ z + (y - z) = y
           /\ z - x \in Nat /\ z - x > 0 /\ y - z \in Nat /\ y - z > 0
<1>1. x \in Nat /\ z \in Nat /\ y \in Nat /\ x < z /\ z < y
  BY InsideOf
<1>. QED
  BY <1>1

\* The headers of two chunks, the second with or without what a mark left.
LEMMA MiddlePuts ==
    ASSUME NEW m, NEW n, NEW ch, Writes(n, m, ch), NEW x, NEW y, NEW z, Inside(ch, x, z, y),
           NEW hx, hx.size = z - x, NEW hz, hz.size = y - z
    PROVE  /\ Writes(Put(Put(n, x, hx), z, hz), m, Triple(ch, x, z, y, hx, hz, ch[y]))
           /\ Writes(Put(Put(n, z, hz), x, hx), m, Triple(ch, x, z, y, hx, hz, ch[y]))
           /\ HeaderAt(Put(n, x, hx), z) = NoHeader
           /\ \A g : g.size = 0 => /\ Writes(Put(Put(Put(n, x, hx), z, g), z, hz), m,
                                             Triple(ch, x, z, y, hx, hz, ch[y]))
                                   /\ HeaderAt(Put(Put(n, x, hx), z, g), z) = g
<1>1. Ends(ch, x, y) /\ z \in Nat /\ x < z /\ z < y /\ z \notin DOMAIN ch /\ hx.size = z - x /\ hz.size = y - z
  BY InsideOf
<1>2. /\ Placed(Placed(ch, x, hx), z, hz) = Triple(ch, x, z, y, hx, hz, ch[y])
      /\ Placed(Placed(ch, z, hz), x, hx) = Triple(ch, x, z, y, hx, hz, ch[y])
      /\ At(Placed(ch, x, hx), z) = NoHeader
  BY ONLY <1>1, PlacedMiddle
<1>3. ASSUME NEW g, g.size = 0
      PROVE  /\ Placed(Placed(Placed(ch, x, hx), z, g), z, hz) = Triple(ch, x, z, y, hx, hz, ch[y])
             /\ At(Placed(Placed(ch, x, hx), z, g), z) = g
  BY ONLY <1>1, <1>3, PlacedMiddle
<1>4. Writes(Put(n, x, hx), m, Placed(ch, x, hx)) /\ Writes(Put(n, z, hz), m, Placed(ch, z, hz))
  BY WritesPut
<1>5. /\ Writes(Put(Put(n, x, hx), z, hz), m, Placed(Placed(ch, x, hx), z, hz))
      /\ Writes(Put(Put(n, z, hz), x, hx), m, Placed(Placed(ch, z, hz), x, hx))
      /\ HeaderAt(Put(n, x, hx), z) = At(Placed(ch, x, hx), z)
  BY <1>4, WritesPut
<1>6. ASSUME NEW g, g.size = 0
      PROVE  /\ Writes(Put(Put(Put(n, x, hx), z, g), z, hz), m, Placed(Placed(Placed(ch, x, hx), z, g), z, hz))
             /\ HeaderAt(Put(Put(n, x, hx), z, g), z) = At(Placed(Placed(ch, x, hx), z, g), z)
  <2>1. Writes(Put(Put(n, x, hx), z, g), m, Placed(Placed(ch, x, hx), z, g))
    BY <1>4, WritesPut
  <2>. DEFINE o == Put(Put(n, x, hx), z, g)
              c == Placed(Placed(ch, x, hx), z, g)
  <2>. HIDE DEF o, c
  <2>2. Writes(o, m, c)
    BY <2>1 DEF o, c
  <2>3. Writes(Put(o, z, hz), m, Placed(c, z, hz)) /\ HeaderAt(o, z) = At(c, z)
    BY <2>2, WritesPut
  <2>. QED
    BY <2>3 DEF o, c
<1>. QED
  BY <1>2, <1>3, <1>5, <1>6

\* What is found at z after a header was written at x.
LEMMA MiddleHead ==
    ASSUME NEW m, NEW n, NEW ch, Writes(n, m, ch), NEW x, NEW y, NEW z, Inside(ch, x, z, y),
           NEW hx, hx.size = z - x
    PROVE  /\ HeaderAt(Put(n, x, hx), z) = NoHeader
           /\ \A g : g.size = 0 => HeaderAt(Put(Put(n, x, hx), z, g), z) = g
<1>. DEFINE hz == FreeHeader(y - z)
<1>1. hz.size = y - z
  BY DEF FreeHeader, Header
<1>. HIDE DEF hz
<1>. QED
  BY <1>1, MiddlePuts

\* The header behind them.
LEMMA LastPut ==
    ASSUME NEW m, NEW n, NEW ch, NEW x, NEW y, NEW z, Inside(ch, x, z, y), y \in DOMAIN ch,
           NEW hx, NEW hz, NEW g, Writes(n, m, Triple(ch, x, z, y, hx, hz, g))
    PROVE  /\ HeaderAt(n, y) = g
           /\ \A hy : hy.size = ch[y].size => Writes(Put(n, y, hy), m, Triple(ch, x, z, y, hx, hz, hy))
<1>1. Ends(ch, x, y) /\ z \in Nat /\ x < z /\ z < y /\ y \in DOMAIN ch
  BY InsideOf
<1>2. At(Triple(ch, x, z, y, hx, hz, g), y) = g
  BY <1>1, TripleEnd
<1>3. ASSUME NEW hy, hy.size = ch[y].size
      PROVE  Placed(Triple(ch, x, z, y, hx, hz, g), y, hy) = Triple(ch, x, z, y, hx, hz, hy)
  BY ONLY <1>1, <1>3, TripleEnd
<1>4. ASSUME NEW hy PROVE Writes(Put(n, y, hy), m, Placed(Triple(ch, x, z, y, hx, hz, g), y, hy))
  BY WritesPut
<1>5. HeaderAt(n, y) = At(Triple(ch, x, z, y, hx, hz, g), y)
  BY WritesPut
<1>. QED
  BY <1>2, <1>3, <1>4, <1>5

\* Three headers written as a routine writes them make two chunks.
LEMMA TripleIsTwo ==
    ASSUME NEW m, NEW n, NEW ch, ch = m.chunks, NEW x, NEW y, NEW z, Inside(ch, x, z, y), NEW c, c \in BOOLEAN,
           NEW hx, NEW hz, NEW hy, Writes(n, m, Triple(ch, x, z, y, hx, hz, hy)),
           Headed(hx, z - x, TRUE, ch[x].p, ch[x].foot), Headed(hz, y - z, c, TRUE, 0),
           y \in DOMAIN ch => Headed(hy, ch[y].size, ch[y].c, c, IF c THEN 0 ELSE y - z)
    PROVE  Wrote(n, m) /\ Two(m.chunks, n.chunks, x, z, y, c)
<1>1. Ends(ch, x, y) /\ z \in Nat /\ x < z /\ z < y
  BY InsideOf
<1>2. Two(ch, Triple(ch, x, z, y, hx, hz, hy), x, z, y, c)
  BY <1>1, TripleTwo
<1>. QED
  BY <1>2 DEF Writes, Wrote

\* Cutting a chunk of a bin.
LEMMA SplitIs ==
    ASSUME NEW m, IsState(m), NEW x, NEW y, NEW z, Inside(m.chunks, x, z, y), y \in DOMAIN m.chunks,
           m.chunks[x].p, ~m.chunks[y].p, m.chunks[y].size > 0
    PROVE  LET n == SetSizeAndPinuseOfFree(SetSizeAndPinuseOfInuse(m, x, z - x), z, y - z)
           IN Wrote(n, m) /\ Two(m.chunks, n.chunks, x, z, y, FALSE)
<1>. DEFINE ch == m.chunks
            hx == InuseHeader(z - x)
            hz == FreeHeader(y - z)
            hy == [ch[y] EXCEPT !.foot = y - z]
            o == Put(Put(m, x, hx), z, hz)
            n == SetSizeAndPinuseOfFree(SetSizeAndPinuseOfInuse(m, x, z - x), z, y - z)
<1>1. z + (y - z) = y /\ z - x \in Nat /\ z - x > 0 /\ y - z \in Nat /\ y - z > 0
  BY InsideSizes
<1>2. HeaderOk(ch[x]) /\ HeaderOk(ch[y]) /\ Writes(m, m, ch)
  BY InsideOf, WritesNothing
<1>3. Headed(hx, z - x, TRUE, ch[x].p, ch[x].foot)
  BY <1>1, <1>2, NewHeads, HeadAt
<1>4. Headed(hz, y - z, FALSE, TRUE, 0)
  BY <1>1, NewHeads
<1>5. Headed(hy, ch[y].size, ch[y].c, FALSE, y - z)
  BY <1>1, <1>2, FreeHead
<1>6. n = Put(o, y, [HeaderAt(o, y) EXCEPT !.foot = y - z])
  BY <1>1 DEF SetSizeAndPinuseOfFree, SetSizeAndPinuseOfInuse, FreeHeader, InuseHeader
<1>. HIDE DEF hx, hz, n
<1>7. hx.size = z - x /\ hz.size = y - z
  BY <1>3, <1>4 DEF Headed
<1>8. Writes(o, m, Triple(ch, x, z, y, hx, hz, ch[y]))
  BY <1>2, <1>7, MiddlePuts
<1>. HIDE DEF o
<1>9. n = Put(o, y, hy)
  <2>1. HeaderAt(o, y) = ch[y]
    BY <1>8, LastPut
  <2>. QED
    BY <1>6, <2>1
<1>. HIDE DEF hy
<1>10. Writes(n, m, Triple(ch, x, z, y, hx, hz, hy))
  <2>1. hy.size = ch[y].size
    BY <1>5 DEF Headed
  <2>. QED
    BY <1>8, <1>9, <2>1, LastPut
<1>11. Wrote(n, m) /\ Two(m.chunks, n.chunks, x, z, y, FALSE)
  BY <1>3, <1>4, <1>5, <1>10, TripleIsTwo
<1>. QED
  BY <1>11 DEF n

\* What is written first for the rest, and then for the chunk taken from it.
LEMMA VictimPuts ==
    ASSUME NEW m, IsState(m), NEW ch, ch = m.chunks, NEW x, NEW y, NEW z, Inside(ch, x, z, y), y \in DOMAIN ch,
           NEW hx, hx.size = z - x, NEW hz, hz.size = y - z
    PROVE  /\ HeaderAt(Put(m, z, hz), y) = ch[y]
           /\ \A hy : hy.size = ch[y].size =>
                Writes(Put(Put(Put(m, z, hz), y, hy), x, hx), m, Triple(ch, x, z, y, hx, hz, hy))
<1>1. Ends(ch, x, y) /\ x \in Nat /\ y \in Nat /\ z \in Nat /\ x < z /\ z < y /\ z \notin DOMAIN ch /\ x \in DOMAIN ch
  BY InsideOf
<1>2. /\ ch[y].size \in Nat
      /\ \A q \in DOMAIN ch : q \in Nat /\ (q <= y \/ y + ch[y].size <= q)
  BY <1>1 DEF Ends, HeaderOk
<1>3. (x + 1)..(x + hx.size - 1) = (x + 1)..(z - 1) /\ (z + 1)..(z + hz.size - 1) = (z + 1)..(y - 1)
  BY <1>1
<1>. DEFINE c1 == Placed(ch, z, hz)
<1>4. Writes(Put(m, z, hz), m, c1)
  BY PutIs
<1>5. /\ DOMAIN c1 = (DOMAIN ch \ ((z + 1)..(y - 1))) \cup {z}
      /\ \A q \in DOMAIN c1 : c1[q] = IF q = z THEN hz ELSE ch[q]
  BY <1>3 DEF Placed
<1>. HIDE DEF c1
<1>6. At(c1, y) = ch[y]
  <2>1. y \in DOMAIN c1 /\ y # z
    BY <1>1, <1>5
  <2>. QED
    BY <1>5, <2>1 DEF At
<1>7. ASSUME NEW hy, hy.size = ch[y].size
      PROVE  Placed(Placed(c1, y, hy), x, hx) = Triple(ch, x, z, y, hx, hz, hy)
  <2>. DEFINE c2 == Placed(c1, y, hy)
  <2>1. (DOMAIN c1 \ ((y + 1)..(y + hy.size - 1))) \cup {y} = DOMAIN c1
    BY <1>1, <1>2, <1>5, <1>7
  <2>2. DOMAIN c2 = DOMAIN c1 /\ \A q \in DOMAIN c2 : c2[q] = IF q = y THEN hy ELSE c1[q]
    BY <2>1 DEF Placed
  <2>. HIDE DEF c2
  <2>3. (DOMAIN c2 \ ((x + 1)..(x + hx.size - 1))) \cup {x} = (DOMAIN ch \ ((x + 1)..(y - 1))) \cup {x, z}
    BY <1>1, <1>3, <1>5, <2>2
  <2>4. Placed(c2, x, hx) = Triple(ch, x, z, y, hx, hz, hy)
    BY <1>1, <1>5, <2>2, <2>3 DEF Placed, Triple
  <2>. QED
    BY <2>4 DEF c2
<1>8. HeaderAt(Put(m, z, hz), y) = ch[y]
  BY <1>4, <1>6, WritesPut
<1>9. ASSUME NEW hy, hy.size = ch[y].size
      PROVE  Writes(Put(Put(Put(m, z, hz), y, hy), x, hx), m, Triple(ch, x, z, y, hx, hz, hy))
  <2>. DEFINE o == Put(Put(m, z, hz), y, hy)
              c == Placed(c1, y, hy)
  <2>1. Writes(o, m, c)
    BY <1>4, WritesPut
  <2>2. Placed(c, x, hx) = Triple(ch, x, z, y, hx, hz, hy)
    BY <1>7, <1>9
  <2>. HIDE DEF o, c
  <2>3. Writes(Put(o, x, hx), m, Placed(c, x, hx))
    BY <2>1, WritesPut
  <2>. QED
    BY <2>2, <2>3 DEF o
<1>. QED
  BY <1>8, <1>9

\* Cutting the victim.
LEMMA SplitVictimIs ==
    ASSUME NEW m, IsState(m), NEW x, NEW y, NEW z, Inside(m.chunks, x, z, y), y \in DOMAIN m.chunks,
           m.chunks[x].p, ~m.chunks[y].p, m.chunks[y].size > 0
    PROVE  LET n == SetSizeAndPinuseOfInuse(SetSizeAndPinuseOfFree(m, z, y - z), x, z - x)
           IN Wrote(n, m) /\ Two(m.chunks, n.chunks, x, z, y, FALSE)
<1>. DEFINE ch == m.chunks
            hx == InuseHeader(z - x)
            hz == FreeHeader(y - z)
            hy == [ch[y] EXCEPT !.foot = y - z]
            o == Put(m, z, hz)
            n == SetSizeAndPinuseOfInuse(SetSizeAndPinuseOfFree(m, z, y - z), x, z - x)
<1>1. z + (y - z) = y /\ z - x \in Nat /\ z - x > 0 /\ y - z \in Nat /\ y - z > 0
  BY InsideSizes
<1>2. HeaderOk(ch[x]) /\ HeaderOk(ch[y])
  BY InsideOf
<1>3. Headed(hx, z - x, TRUE, ch[x].p, ch[x].foot)
  BY <1>1, <1>2, NewHeads, HeadAt
<1>4. Headed(hz, y - z, FALSE, TRUE, 0)
  BY <1>1, NewHeads
<1>5. Headed(hy, ch[y].size, ch[y].c, FALSE, y - z)
  BY <1>1, <1>2, FreeHead
<1>6. n = Put(Put(o, y, [HeaderAt(o, y) EXCEPT !.foot = y - z]), x, hx)
  BY <1>1 DEF SetSizeAndPinuseOfFree, SetSizeAndPinuseOfInuse, FreeHeader, InuseHeader
<1>. HIDE DEF hx, hz, n
<1>7. hx.size = z - x /\ hz.size = y - z
  BY <1>3, <1>4 DEF Headed
<1>8. n = Put(Put(o, y, hy), x, hx)
  <2>1. HeaderAt(o, y) = ch[y]
    BY <1>7, VictimPuts
  <2>. QED
    BY <1>6, <2>1
<1>. HIDE DEF hy
<1>10. Writes(n, m, Triple(ch, x, z, y, hx, hz, hy))
  <2>1. hy.size = ch[y].size
    BY <1>5 DEF Headed
  <2>. QED
    BY <1>7, <1>8, <2>1, VictimPuts
<1>11. Wrote(n, m) /\ Two(m.chunks, n.chunks, x, z, y, FALSE)
  BY <1>3, <1>4, <1>5, <1>10, TripleIsTwo
<1>. QED
  BY <1>11 DEF n

\* The header at z when it is marked first and then given its size.
LEMMA MiddleHeadIs ==
    ASSUME NEW s, s \in Nat, s > 0,
           NEW g, g = [NoHeader EXCEPT !.p = TRUE, !.foot = 0],
           NEW a, a = [g EXCEPT !.size = s, !.c = TRUE]
    PROVE  Headed(a, s, TRUE, TRUE, 0) /\ g.size = 0
<1>1. NoHeader = [f \in {"size", "c", "p", "foot"} |-> NoHeader[f]] /\ NoHeader.size = 0
  BY DEF NoHeader, Header
<1>2. ASSUME NEW b, b = TRUE, g = [NoHeader EXCEPT !.p = b, !.foot = 0], a = [g EXCEPT !.size = s, !.c = b]
      PROVE  Headed(a, s, TRUE, TRUE, 0) /\ g.size = 0
  <2>1. g = [f \in {"size", "c", "p", "foot"} |-> g[f]] /\ g.size = 0 /\ g.p = b /\ g.foot = 0
    BY ONLY <1>1, <1>2
  <2>2. a = [f \in {"size", "c", "p", "foot"} |-> a[f]] /\ a.size = s /\ a.p = b /\ a.c = b /\ a.foot = 0
    BY ONLY <2>1, <1>2
  <2>3. a.p /\ a.p \in BOOLEAN /\ a.c /\ a.c \in BOOLEAN
    BY ONLY <1>2, <2>2
  <2>4. HeaderOk(a)
    BY ONLY <2>2, <2>3, s \in Nat, s > 0 DEF HeaderOk
  <2>5. Headed(a, s, TRUE, TRUE, 0)
    BY ONLY <2>2, <2>3, <2>4 DEF Headed
  <2>. QED
    BY <2>1, <2>5
<1>. QED
  BY <1>2, Zenon

\* Cutting a chunk in use, or one and what is behind it.
LEMMA CutIs ==
    ASSUME NEW m, IsState(m), NEW x, NEW y, NEW z, Inside(m.chunks, x, z, y), y \in DOMAIN m.chunks
    PROVE  LET n == SetInuse(SetInuse(m, x, z - x), z, y - z)
           IN Wrote(n, m) /\ Two(m.chunks, n.chunks, x, z, y, TRUE)
<1>. DEFINE ch == m.chunks
            hx == [ch[x] EXCEPT !.size = z - x, !.c = TRUE]
            g == [NoHeader EXCEPT !.p = TRUE, !.foot = 0]
            hz == [g EXCEPT !.size = y - z, !.c = TRUE]
            hy == [ch[y] EXCEPT !.p = TRUE, !.foot = 0]
            o1 == Put(Put(m, x, hx), z, g)
            o == Put(o1, z, hz)
            n == SetInuse(SetInuse(m, x, z - x), z, y - z)
<1>1. x + (z - x) = z /\ z + (y - z) = y /\ z - x \in Nat /\ z - x > 0 /\ y - z \in Nat /\ y - z > 0
  BY InsideSizes
<1>2. HeaderOk(ch[x]) /\ HeaderOk(ch[y]) /\ Writes(m, m, ch) /\ HeaderAt(m, x) = ch[x]
  BY InsideOf, WritesNothing DEF HeaderAt
<1>3. Headed(hx, z - x, TRUE, ch[x].p, ch[x].foot)
  BY <1>1, <1>2, InuseHead
<1>4. Headed(hz, y - z, TRUE, TRUE, 0) /\ g.size = 0
  <2>. DEFINE s == y - z
  <2>1. s \in Nat /\ s > 0 /\ g = [NoHeader EXCEPT !.p = TRUE, !.foot = 0] /\ hz = [g EXCEPT !.size = s, !.c = TRUE]
    BY <1>1
  <2>. HIDE DEF s, g, hz
  <2>2. Headed(hz, s, TRUE, TRUE, 0) /\ g.size = 0
    BY ONLY <2>1, MiddleHeadIs, Zenon
  <2>. QED
    BY <2>2 DEF s
<1>5. Headed(hy, ch[y].size, ch[y].c, TRUE, 0)
  BY <1>1, <1>2, InuseHead
<1>6. hx.size = z - x /\ hz.size = y - z /\ hy.size = ch[y].size
  BY <1>3, <1>4, <1>5 DEF Headed
<1>7. SetInuse(m, x, z - x) = MarkPinuse(Put(m, x, hx), z)
  BY <1>1, <1>2 DEF SetInuse
<1>. HIDE DEF hx, n
<1>8. SetInuse(m, x, z - x) = o1
  <2>1. HeaderAt(Put(m, x, hx), z) = NoHeader
    BY <1>2, <1>6, MiddleHead
  <2>. QED
    BY <1>7, <2>1 DEF MarkPinuse
<1>. HIDE DEF g
<1>9. HeaderAt(o1, z) = g /\ Writes(o, m, Triple(ch, x, z, y, hx, hz, ch[y]))
  <2>1. HeaderAt(o1, z) = g
    BY <1>2, <1>4, <1>6, MiddleHead
  <2>. HIDE DEF hz
  <2>2. Writes(o, m, Triple(ch, x, z, y, hx, hz, ch[y]))
    BY <1>2, <1>4, <1>6, MiddlePuts
  <2>. QED
    BY <2>1, <2>2
<1>10. n = MarkPinuse(o, y)
  <2>1. n = SetInuse(o1, z, y - z)
    BY <1>8 DEF n
  <2>. HIDE DEF o1
  <2>. QED
    BY <1>1, <1>9, <2>1 DEF SetInuse
<1>. HIDE DEF o, hz
<1>11. n = Put(o, y, hy)
  <2>1. HeaderAt(o, y) = ch[y]
    <3>1. Inside(ch, x, z, y) /\ y \in DOMAIN ch /\ Writes(o, m, Triple(ch, x, z, y, hx, hz, ch[y]))
      BY <1>9
    <3>. QED
      BY ONLY <3>1, LastPut
  <2>. QED
    BY <1>10, <2>1 DEF MarkPinuse
<1>. HIDE DEF hy
<1>12. Writes(n, m, Triple(ch, x, z, y, hx, hz, hy))
  BY <1>6, <1>9, <1>11, LastPut
<1>13. Wrote(n, m) /\ Two(m.chunks, n.chunks, x, z, y, TRUE)
  BY <1>3, <1>4, <1>5, <1>12, TripleIsTwo
<1>. QED
  BY <1>13 DEF n

\* A chunk taken from top.
LEMMA TopSplitIs ==
    ASSUME NEW m, IsState(m), NEW x, NEW y, NEW z, Inside(m.chunks, x, z, y), y \notin DOMAIN m.chunks,
           m.chunks[x].p
    PROVE  LET n == SetSizeAndPinuseOfInuse(SetTop(m, z, y - z), x, z - x)
           IN Topped(n, m, z, y - z) /\ Two(m.chunks, n.chunks, x, z, y, FALSE)
<1>. DEFINE ch == m.chunks
            hx == InuseHeader(z - x)
            hz == FreeHeader(y - z)
            t == [m EXCEPT !.top = z, !.topsize = y - z]
            n == SetSizeAndPinuseOfInuse(SetTop(m, z, y - z), x, z - x)
<1>1. z + (y - z) = y /\ z - x \in Nat /\ z - x > 0 /\ y - z \in Nat /\ y - z > 0
  BY InsideSizes
<1>2. HeaderOk(ch[x]) /\ x \in Nat /\ z \in Nat /\ x < z /\ z < y /\ Ends(ch, x, y)
  BY InsideOf
<1>3. Headed(hx, z - x, TRUE, ch[x].p, ch[x].foot)
  BY <1>1, <1>2, NewHeads, HeadAt
<1>4. Headed(hz, y - z, FALSE, TRUE, 0)
  BY <1>1, NewHeads
<1>5. n = Put(Put(t, z, hz), x, hx)
  BY DEF SetTop, SetSizeAndPinuseOfInuse, FreeHeader, InuseHeader
<1>6. IsState(t) /\ SameRest(t, m) /\ SameBins(t, m) /\ t.chunks = ch /\ t.top = z /\ t.topsize = y - z
  BY DEF IsState, Fields, SameRest, SameBins
<1>. HIDE DEF hx, hz, n, t
<1>7. hx.size = z - x /\ hz.size = y - z
  BY <1>3, <1>4 DEF Headed
<1>8. Writes(t, t, ch)
  BY <1>6, WritesNothing
<1>9. Writes(n, t, Triple(ch, x, z, y, hx, hz, ch[y]))
  BY <1>5, <1>7, <1>8, MiddlePuts
<1>10. Two(ch, Triple(ch, x, z, y, hx, hz, ch[y]), x, z, y, FALSE)
  <2>1. FALSE \in BOOLEAN
    OBVIOUS
  <2>. QED
    BY <1>2, <1>3, <1>4, <2>1, TripleTwo
<1>11. Topped(n, m, z, y - z) /\ Two(m.chunks, n.chunks, x, z, y, FALSE)
  BY <1>6, <1>9, <1>10 DEF Writes, Topped, SameRest, SameBins, SameTop
<1>. QED
  BY <1>11 DEF n

\* A chunk in use grown into top.
LEMMA TopGrowIs ==
    ASSUME NEW m, IsState(m), NEW x, NEW y, NEW z, Inside(m.chunks, x, z, y), y \notin DOMAIN m.chunks
    PROVE  LET n == SetTop(SetInuse(m, x, z - x), z, y - z)
           IN Topped(n, m, z, y - z) /\ Two(m.chunks, n.chunks, x, z, y, FALSE)
<1>. DEFINE ch == m.chunks
            hx == [ch[x] EXCEPT !.size = z - x, !.c = TRUE]
            g == [NoHeader EXCEPT !.p = TRUE, !.foot = 0]
            hz == FreeHeader(y - z)
            o1 == Put(Put(m, x, hx), z, g)
            n == SetTop(SetInuse(m, x, z - x), z, y - z)
<1>1. x + (z - x) = z /\ z + (y - z) = y /\ z - x \in Nat /\ z - x > 0 /\ y - z \in Nat /\ y - z > 0
  BY InsideSizes
<1>2. HeaderOk(ch[x]) /\ Writes(m, m, ch) /\ HeaderAt(m, x) = ch[x] /\ z \in Nat /\ x < z /\ z < y /\ Ends(ch, x, y)
  BY InsideOf, WritesNothing DEF HeaderAt
<1>3. Headed(hx, z - x, TRUE, ch[x].p, ch[x].foot)
  BY <1>1, <1>2, InuseHead
<1>4. Headed(hz, y - z, FALSE, TRUE, 0)
  BY <1>1, NewHeads
<1>5. g.size = 0
  <2>. DEFINE a == [g EXCEPT !.size = y - z, !.c = TRUE]
              s == y - z
  <2>1. s \in Nat /\ s > 0 /\ g = [NoHeader EXCEPT !.p = TRUE, !.foot = 0] /\ a = [g EXCEPT !.size = s, !.c = TRUE]
    BY <1>1
  <2>. HIDE DEF s, g, a
  <2>. QED
    BY ONLY <2>1, MiddleHeadIs, Zenon
<1>6. hx.size = z - x /\ hz.size = y - z
  BY <1>3, <1>4 DEF Headed
<1>7. SetInuse(m, x, z - x) = MarkPinuse(Put(m, x, hx), z)
  BY <1>1, <1>2 DEF SetInuse
<1>. HIDE DEF hx, hz, n
<1>8. SetInuse(m, x, z - x) = o1
  <2>1. HeaderAt(Put(m, x, hx), z) = NoHeader
    BY <1>2, <1>6, MiddleHead
  <2>. QED
    BY <1>7, <2>1 DEF MarkPinuse
<1>. HIDE DEF g
<1>9. Writes(Put(m, x, hx), m, Placed(ch, x, hx)) /\ Writes(o1, m, Placed(Placed(ch, x, hx), z, g))
  <2>. DEFINE o == Put(m, x, hx)
              c == Placed(ch, x, hx)
  <2>1. Writes(o, m, c)
    BY PutIs
  <2>. HIDE DEF o, c
  <2>2. Writes(Put(o, z, g), m, Placed(c, z, g))
    BY <2>1, WritesPut
  <2>. QED
    BY <2>1, <2>2 DEF o, c
<1>. HIDE DEF o1
<1>10. Topped(SetTop(o1, z, y - z), m, z, y - z)
       /\ SetTop(o1, z, y - z).chunks = Placed(Placed(Placed(ch, x, hx), z, g), z, hz)
  <2>. DEFINE c == Placed(Placed(ch, x, hx), z, g)
              s == y - z
  <2>1. Writes(o1, m, c)
    BY <1>9
  <2>. HIDE DEF c, s
  <2>2. Topped(SetTop(o1, z, s), m, z, s) /\ SetTop(o1, z, s).chunks = Placed(c, z, FreeHeader(s))
    BY <2>1, SetTopPut
  <2>. QED
    BY <2>2 DEF c, s, hz
<1>11. Placed(Placed(Placed(ch, x, hx), z, g), z, hz) = Triple(ch, x, z, y, hx, hz, ch[y])
  <2>1. /\ z \in Nat /\ Ends(ch, x, y) /\ x < z /\ z < y /\ z \notin DOMAIN ch
        /\ hx.size = z - x /\ hz.size = y - z /\ g.size = 0
    BY <1>2, <1>5, <1>6, InsideOf
  <2>. QED
    BY ONLY <2>1, PlacedMiddle
<1>12. Two(ch, Triple(ch, x, z, y, hx, hz, ch[y]), x, z, y, FALSE)
  <2>1. FALSE \in BOOLEAN
    OBVIOUS
  <2>. QED
    BY <1>2, <1>3, <1>4, <2>1, TripleTwo
<1>13. n = SetTop(o1, z, y - z)
  BY <1>8 DEF n
<1>14. Topped(n, m, z, y - z) /\ Two(m.chunks, n.chunks, x, z, y, FALSE)
  BY <1>10, <1>11, <1>12, <1>13
<1>. QED
  BY <1>14 DEF n

\* A chunk in use grown into the victim.
LEMMA VictimGrowIs ==
    ASSUME NEW m, IsState(m), NEW x, NEW y, NEW z, Inside(m.chunks, x, z, y), y \in DOMAIN m.chunks,
           m.chunks[y].size > 0
    PROVE  LET n == ClearPinuse(SetSizeAndPinuseOfFree(SetInuse(m, x, z - x), z, y - z), y)
           IN Wrote(n, m) /\ Two(m.chunks, n.chunks, x, z, y, FALSE)
<1>. DEFINE ch == m.chunks
            hx == [ch[x] EXCEPT !.size = z - x, !.c = TRUE]
            g == [NoHeader EXCEPT !.p = TRUE, !.foot = 0]
            hz == FreeHeader(y - z)
            h0 == [ch[y] EXCEPT !.foot = y - z]
            hy == [h0 EXCEPT !.p = FALSE]
            o1 == Put(Put(m, x, hx), z, g)
            o2 == Put(o1, z, hz)
            o3 == Put(o2, y, h0)
            n == ClearPinuse(SetSizeAndPinuseOfFree(SetInuse(m, x, z - x), z, y - z), y)
<1>1. x + (z - x) = z /\ z + (y - z) = y /\ z - x \in Nat /\ z - x > 0 /\ y - z \in Nat /\ y - z > 0
  BY InsideSizes
<1>2. HeaderOk(ch[x]) /\ HeaderOk(ch[y]) /\ Writes(m, m, ch) /\ HeaderAt(m, x) = ch[x]
  BY InsideOf, WritesNothing DEF HeaderAt
<1>3. Headed(hx, z - x, TRUE, ch[x].p, ch[x].foot)
  BY <1>1, <1>2, InuseHead
<1>4. Headed(hz, y - z, FALSE, TRUE, 0)
  BY <1>1, NewHeads
<1>5. g.size = 0
  <2>. DEFINE a == [g EXCEPT !.size = y - z, !.c = TRUE]
              s == y - z
  <2>1. s \in Nat /\ s > 0 /\ g = [NoHeader EXCEPT !.p = TRUE, !.foot = 0] /\ a = [g EXCEPT !.size = s, !.c = TRUE]
    BY <1>1
  <2>. HIDE DEF s, g, a
  <2>. QED
    BY ONLY <2>1, MiddleHeadIs, Zenon
<1>6. hx.size = z - x /\ hz.size = y - z
  BY <1>3, <1>4 DEF Headed
<1>6a. Headed(hy, ch[y].size, ch[y].c, FALSE, y - z) /\ h0.size = ch[y].size
  BY <1>1, <1>2, FreeHead
<1>7. SetInuse(m, x, z - x) = MarkPinuse(Put(m, x, hx), z)
  BY <1>1, <1>2 DEF SetInuse
<1>. HIDE DEF hx, n
<1>8. SetInuse(m, x, z - x) = o1
  <2>1. HeaderAt(Put(m, x, hx), z) = NoHeader
    BY <1>2, <1>6, MiddleHead
  <2>. QED
    BY <1>7, <2>1 DEF MarkPinuse
<1>8a. n = ClearPinuse(Put(o2, y, [HeaderAt(o2, y) EXCEPT !.foot = y - z]), y)
  <2>1. n = ClearPinuse(SetSizeAndPinuseOfFree(o1, z, y - z), y)
    BY <1>8 DEF n
  <2>. HIDE DEF o1
  <2>. QED
    BY <1>1, <2>1 DEF SetSizeAndPinuseOfFree, FreeHeader
<1>. HIDE DEF g, hz
<1>9. Writes(o2, m, Triple(ch, x, z, y, hx, hz, ch[y]))
  BY <1>2, <1>5, <1>6, MiddlePuts
<1>. HIDE DEF o2
<1>10. n = ClearPinuse(o3, y)
  <2>1. HeaderAt(o2, y) = ch[y]
    <3>1. Inside(ch, x, z, y) /\ y \in DOMAIN ch /\ Writes(o2, m, Triple(ch, x, z, y, hx, hz, ch[y]))
      BY <1>9
    <3>. QED
      BY ONLY <3>1, LastPut
  <2>. QED
    BY <1>8a, <2>1
<1>. HIDE DEF h0
<1>11. Writes(o3, m, Triple(ch, x, z, y, hx, hz, h0))
  <2>1. Inside(ch, x, z, y) /\ y \in DOMAIN ch /\ h0.size = ch[y].size /\ Writes(o2, m, Triple(ch, x, z, y, hx, hz, ch[y]))
    BY <1>6a, <1>9
  <2>. QED
    BY ONLY <2>1, LastPut
<1>. HIDE DEF o3
<1>12. n = Put(o3, y, hy)
  <2>1. HeaderAt(o3, y) = h0
    <3>1. Inside(ch, x, z, y) /\ y \in DOMAIN ch /\ Writes(o3, m, Triple(ch, x, z, y, hx, hz, h0))
      BY <1>11
    <3>. HIDE DEF ch
    <3>. QED
      BY ONLY <3>1, LastPut, SMTT(20)
  <2>. QED
    BY <1>10, <2>1 DEF ClearPinuse
<1>. HIDE DEF hy
<1>13. Writes(n, m, Triple(ch, x, z, y, hx, hz, hy))
  <2>1. Inside(ch, x, z, y) /\ y \in DOMAIN ch /\ hy.size = ch[y].size /\ Writes(o3, m, Triple(ch, x, z, y, hx, hz, h0))
    BY <1>6a, <1>11 DEF Headed
  <2>2. Writes(Put(o3, y, hy), m, Triple(ch, x, z, y, hx, hz, hy))
    BY ONLY <2>1, LastPut
  <2>. QED
    BY <1>12, <2>2
<1>14. Wrote(n, m) /\ Two(m.chunks, n.chunks, x, z, y, FALSE)
  BY <1>3, <1>4, <1>6a, <1>13, TripleIsTwo
<1>. QED
  BY <1>14 DEF n

-----------------------------------------------------------------------------
(* Blocks of chunks. *)

\* The chunks S are those from x up to y, in one segment, none a record.
Block(ch, segs, x, y, S) ==
    /\ Run(ch, x, y) /\ S = DOMAIN ch \cap (x..(y - 1))
    /\ \E k \in 1..Len(segs) : segs[k].base <= x /\ y < segs[k].base + segs[k].size
    /\ \A i \in 1..Len(segs) : segs[i].record \notin x..(y - 1)

\* What the parts of Structure say of one chunk.
LEMMA ChunkTypes ==
    ASSUME NEW ch, NEW top, NEW segs, NEW rg, Structure(ch, top, segs, rg)
    PROVE  /\ \A p \in DOMAIN ch : p \in Nat \ {0} /\ HeaderOk(ch[p]) /\ ch[p].size \in Nat /\ ch[p].foot \in Nat
                                   /\ ch[p].c \in BOOLEAN /\ ch[p].p \in BOOLEAN
           /\ \A p \in Ord(ch) : p \in DOMAIN ch /\ After(ch, p) \in Nat /\ p < After(ch, p)
           /\ FreeAt(ch) \subseteq Ord(ch)
           /\ top # NULL => top \in FreeAt(ch)
           /\ \A p \in DOMAIN ch : p \in Ord(ch) \/ p \in Direct(ch) \/ ch[p].size = 0
           /\ \A p \in Direct(ch) : p \in DOMAIN ch /\ ch[p].size > 0 /\ p \notin Ord(ch)
<1>1. /\ \A p \in DOMAIN ch : p \in Nat \ {0} /\ HeaderOk(ch[p]) /\ ch[p].size \in Nat /\ ch[p].foot \in Nat
                               /\ ch[p].c \in BOOLEAN /\ ch[p].p \in BOOLEAN
      /\ top # NULL => top \in FreeAt(ch)
  BY DEF Structure, Layout, HeaderOk
<1>2. \A p \in Ord(ch) : p \in DOMAIN ch /\ After(ch, p) \in Nat /\ p < After(ch, p)
  BY <1>1 DEF Ord, After
<1>3. FreeAt(ch) \subseteq Ord(ch) /\ \A p \in Direct(ch) : p \in DOMAIN ch /\ ch[p].size > 0 /\ p \notin Ord(ch)
  BY <1>1 DEF Ord, FreeAt, Direct, HeaderOk
<1>4. \A p \in DOMAIN ch : p \in Ord(ch) \/ p \in Direct(ch) \/ ch[p].size = 0
  BY <1>1 DEF Ord, Direct
<1>. QED
  BY <1>1, <1>2, <1>3, <1>4

\* A chunk that is not a record is a block, and what is behind it is one too,
\* or the chunk is top.
LEMMA BlockOf ==
    ASSUME NEW ch, NEW top, NEW segs, NEW rg, Structure(ch, top, segs, rg),
           NEW p \in Ord(ch), \A i \in 1..Len(segs) : segs[i].record # p
    PROVE  /\ Block(ch, segs, p, After(ch, p), {p})
           /\ p # top => Tagged(ch, p, After(ch, p)) /\ After(ch, p) \in Ord(ch)
           /\ p = top => After(ch, p) \notin DOMAIN ch
           /\ \E i \in 1..Len(segs) : Holds(segs[i], p) /\ Holds(segs[i], After(ch, p))
<1>. DEFINE y == After(ch, p)
<1>1. Layout(ch, top) /\ SegmentsOk(ch, top, segs) /\ Homes(ch, segs)
  BY DEF Structure
<1>2. /\ \A q \in DOMAIN ch : q \in Nat \ {0} /\ HeaderOk(ch[q]) /\ ch[q].size \in Nat
      /\ \A q \in Ord(ch) : q \in DOMAIN ch /\ After(ch, q) \in Nat /\ q < After(ch, q)
  BY ChunkTypes
<1>3. /\ Len(segs) \in Nat
      /\ \A i \in 1..Len(segs) : /\ segs[i].base \in Nat \ {0} /\ segs[i].size \in Nat \ {0}
                                 /\ segs[i].record \in Nat
  BY <1>1, SegmentTypes
<1>4. PICK k \in 1..Len(segs) : Holds(segs[k], p)
  BY <1>1 DEF Homes
<1>. DEFINE seg == segs[k]
            l == Limit(seg, top)
<1>5. SegmentOk(ch, top, seg)
  BY <1>1 DEF SegmentsOk
<1>6. l \in DOMAIN ch /\ Holds(seg, l) /\ p <= l /\ \A q \in DOMAIN ch : Holds(seg, q) => q <= l
  BY <1>2, <1>4, <1>5 DEF SegmentOk
<1>7. Holds(seg, y)
  <2>1. CASE p < l
    <3>1. y <= l
      BY <1>1, <1>2, <1>6, <2>1 DEF Layout
    <3>. QED
      BY <1>2, <1>3, <1>4, <1>6, <3>1 DEF Holds
  <2>2. CASE p = l
    <3>1. seg.record = NULL
      BY <1>5, <2>2 DEF SegmentOk, Ord
    <3>2. y + TopFoot = seg.base + seg.size
      BY <1>5, <2>2, <3>1 DEF SegmentOk, Limit
    <3>. QED
      BY <1>2, <1>3, <1>4, <3>2 DEF Holds, TopFoot, SegmentSize, MinChunk
  <2>. QED
    BY <1>2, <1>6, <2>1, <2>2
<1>8. p # top => Tagged(ch, p, y)
  BY <1>1 DEF Layout
<1>9. p = top => y \notin DOMAIN ch
  <2>1. ASSUME p = top, y \in DOMAIN ch PROVE FALSE
    <3>1. y <= l
      BY <1>6, <1>7, <2>1
    <3>2. l # top
      BY <1>2, <2>1, <3>1
    <3>3. seg.record # NULL
      BY <3>2 DEF Limit
    <3>4. k # 1 /\ Len(segs) > 0
      BY <1>1, <1>3, <3>3 DEF SegmentsOk
    <3>5. 1 \in 1..Len(segs)
      BY <1>3, <3>4
    <3>6. segs[1].record = NULL /\ SegmentOk(ch, top, segs[1])
      BY <1>1, <3>5 DEF SegmentsOk
    <3>7. Holds(segs[1], p)
      BY <2>1, <3>6 DEF SegmentOk, Limit
    <3>8. p \in Nat
      BY <1>2
    <3>. QED
      BY <1>4, <3>4, <3>5, <3>7, <3>8, OneHolds
  <2>. QED
    BY <2>1
<1>10. p # top => y \in Ord(ch)
  <2>1. ASSUME p # top, y \notin Ord(ch) PROVE FALSE
    <3>1. y \in DOMAIN ch /\ ch[y].size = 0
      BY <1>2, <1>8, <2>1 DEF Tagged, Ord
    <3>2. CASE \E i \in 1..Len(segs) : segs[i].record # NULL /\ y = segs[i].record + SegmentSize
      <4>1. PICK i \in 1..Len(segs) : segs[i].record # NULL /\ y = segs[i].record + SegmentSize
        BY <3>2
      <4>. DEFINE r == segs[i].record
      <4>2. r \in Ord(ch) /\ ch[r].size = SegmentSize
        <5>1. SegmentOk(ch, top, segs[i])
          BY <1>1 DEF SegmentsOk
        <5>. QED
          BY <4>1, <5>1 DEF SegmentOk
      <4>3. r # p /\ r \in DOMAIN ch /\ p \in DOMAIN ch /\ After(ch, r) = y
        BY <1>2, <4>1, <4>2 DEF After
      <4>4. (r <= p \/ y <= r) /\ (p <= r \/ y <= p)
        BY <1>1, <4>2, <4>3 DEF Layout
      <4>. QED
        BY <1>2, <4>2, <4>3, <4>4
    <3>3. CASE \E d \in Direct(ch) : y = After(ch, d)
      <4>1. PICK d \in Direct(ch) : y = After(ch, d)
        BY <3>3
      <4>2. y \in Nat /\ d \in Nat /\ ch[d].foot \in Nat /\ d < y
        BY <1>2, <4>1, ChunkTypes DEF Direct, After
      <4>3. d - ch[d].foot <= y /\ y < After(ch, d) + MmapFootPad
        BY <4>1, <4>2 DEF MmapFootPad
      <4>. QED
        BY <1>7, <4>2, <4>3, OneHolds
    <3>. QED
      BY <1>1, <3>1, <3>2, <3>3 DEF Homes
  <2>. QED
    BY <2>1
<1>11. DOMAIN ch \cap (p..(y - 1)) = {p}
  BY <1>1, <1>2 DEF Layout
<1>12. Run(ch, p, y)
  <2>1. \A q \in DOMAIN ch : p <= q /\ q < y => q = p
    BY <1>2, <1>11
  <2>2. y \in DOMAIN ch => ch[y].c \/ ch[y].p
    BY <1>8, <1>9 DEF Tagged
  <2>. QED
    BY <1>2, <2>1, <2>2 DEF Run
<1>13. \A i \in 1..Len(segs) : segs[i].record \notin p..(y - 1)
  <2>1. ASSUME NEW i \in 1..Len(segs), segs[i].record \in p..(y - 1) PROVE FALSE
    <3>1. SegmentOk(ch, top, segs[i])
      BY <1>1 DEF SegmentsOk
    <3>2. segs[i].record # NULL
      BY <1>2, <2>1 DEF NULL
    <3>3. segs[i].record \in DOMAIN ch
      BY <3>1, <3>2 DEF SegmentOk, Ord
    <3>. QED
      BY <1>11, <2>1, <3>3
  <2>. QED
    BY <2>1
<1>14. Block(ch, segs, p, y, {p})
  <2>1. seg.base <= p /\ y < seg.base + seg.size
    BY <1>4, <1>7 DEF Holds
  <2>. QED
    BY <1>11, <1>12, <1>13, <2>1 DEF Block
<1>. QED
  BY <1>4, <1>7, <1>8, <1>9, <1>10, <1>14

\* Two blocks, one behind the other, are one.
LEMMA BlockJoin ==
    ASSUME NEW ch, NEW top, NEW segs, NEW rg, Structure(ch, top, segs, rg),
           NEW x, NEW y, NEW z, NEW S, NEW T, Block(ch, segs, x, y, S), Block(ch, segs, y, z, T)
    PROVE  Block(ch, segs, x, z, S \cup T)
<1>1. /\ \A q \in DOMAIN ch : q \in Nat \ {0} /\ HeaderOk(ch[q]) /\ ch[q].size \in Nat
      /\ \A q \in Ord(ch) : q \in DOMAIN ch /\ After(ch, q) \in Nat /\ q < After(ch, q)
  BY ChunkTypes
<1>2. /\ Len(segs) \in Nat
      /\ \A i \in 1..Len(segs) : /\ segs[i].base \in Nat \ {0} /\ segs[i].size \in Nat \ {0}
                                 /\ segs[i].record \in Nat
  BY SegmentTypes DEF Structure
<1>3. /\ Run(ch, x, y) /\ S = DOMAIN ch \cap (x..(y - 1))
      /\ \A i \in 1..Len(segs) : segs[i].record \notin x..(y - 1)
      /\ Run(ch, y, z) /\ T = DOMAIN ch \cap (y..(z - 1))
      /\ \A i \in 1..Len(segs) : segs[i].record \notin y..(z - 1)
  BY DEF Block
<1>4. x \in Ord(ch) /\ y \in Ord(ch) /\ x \in Nat /\ y \in Nat /\ z \in Nat /\ x < y /\ y < z
  BY <1>1, <1>3 DEF Run
<1>5. PICK j \in 1..Len(segs) : segs[j].base <= x /\ y < segs[j].base + segs[j].size
  BY DEF Block
<1>6. PICK k \in 1..Len(segs) : segs[k].base <= y /\ z < segs[k].base + segs[k].size
  BY DEF Block
<1>7. j = k
  <2>1. Holds(segs[j], y) /\ Holds(segs[k], y)
    BY SMTT(30), <1>2, <1>4, <1>5, <1>6 DEF Holds
  <2>. QED
    BY <1>4, <2>1, OneHolds
<1>8. Run(ch, x, z)
  BY <1>1, <1>3, <1>4 DEF Run
<1>9. S \cup T = DOMAIN ch \cap (x..(z - 1))
  BY <1>1, <1>3, <1>4
<1>10. \A i \in 1..Len(segs) : segs[i].record \notin x..(z - 1)
  BY <1>2, <1>3, <1>4
<1>. QED
  BY <1>5, <1>6, <1>7, <1>8, <1>9, <1>10 DEF Block

\* The chunk before one that says it is free.
LEMMA BackOf ==
    ASSUME NEW ch, NEW top, NEW segs, NEW rg, Structure(ch, top, segs, rg),
           NEW p \in Ord(ch), ~ch[p].p, NEW prev, prev = p - ch[p].foot
    PROVE  /\ prev \in FreeAt(ch) \ {top} /\ prev < p /\ After(ch, prev) = p
           /\ ch[prev].size = ch[p].foot
<1>1. PICK q \in Ord(ch) \ {top} : After(ch, q) = p
  BY DEF Structure, Layout
<1>2. Tagged(ch, q, p)
  BY <1>1 DEF Structure, Layout
<1>3. q \in DOMAIN ch /\ q \in Nat /\ ch[q].size \in Nat /\ ch[q].c \in BOOLEAN /\ q < After(ch, q)
  BY <1>1, ChunkTypes
<1>4. ~ch[q].c /\ ch[p].foot = ch[q].size
  BY <1>2 DEF Tagged
<1>5. q \in FreeAt(ch)
  BY <1>1, <1>4 DEF Ord, FreeAt
<1>6. prev = q
  BY <1>1, <1>3, <1>4 DEF After
<1>. QED
  BY <1>1, <1>3, <1>4, <1>5, <1>6

\* The chunks N in the place of S, those of F free.
Retiled(ch, ch2, S, N, F) ==
    /\ DOMAIN ch2 = (DOMAIN ch \ S) \cup N
    /\ Ord(ch2) = (Ord(ch) \ S) \cup N
    /\ FreeAt(ch2) = (FreeAt(ch) \ S) \cup F
    /\ Direct(ch2) = Direct(ch)
    /\ \A q \in DOMAIN ch \ S : ch2[q].size = ch[q].size /\ ch2[q].c = ch[q].c

\* Top stays as it is, or the last of the new chunks is the new top.
TopOf(ch, S, y, c, top, top2, last) ==
    \/ top2 = top /\ top \notin S /\ y \in DOMAIN ch
    \/ top2 = last /\ ~c /\ top \in S /\ After(ch, top) = y

\* What there is to know of a block before it is given other chunks.
LEMMA BlockFacts ==
    ASSUME NEW ch, NEW top, NEW segs, NEW rg, Structure(ch, top, segs, rg),
           NEW x, NEW y, NEW S, Block(ch, segs, x, y, S)
    PROVE  /\ Run(ch, x, y) /\ S = DOMAIN ch \cap (x..(y - 1)) /\ S \subseteq Ord(ch)
           /\ x \in Ord(ch) /\ x \in DOMAIN ch /\ x \in S /\ x \in Nat \ {0} /\ y \in Nat /\ x < y
           /\ DOMAIN ch \ (x..(y - 1)) = DOMAIN ch \ S
           /\ HeaderOk(ch[x]) /\ (y \in DOMAIN ch => HeaderOk(ch[y]) /\ (ch[y].c \/ ch[y].p))
           /\ top # NULL => top \in FreeAt(ch) /\ top \in DOMAIN ch
           /\ top \notin S => top \notin x..(y - 1)
<1>1. Run(ch, x, y) /\ S = DOMAIN ch \cap (x..(y - 1))
  BY DEF Block
<1>2. x \in Ord(ch) /\ x \in DOMAIN ch /\ x \in Nat \ {0} /\ y \in Nat /\ x < y /\ HeaderOk(ch[x])
  BY <1>1, ChunkTypes DEF Run
<1>3. S \subseteq Ord(ch) /\ x \in S
  BY <1>1, <1>2, ChunkTypes DEF Run
<1>4. top # NULL => top \in FreeAt(ch) /\ top \in DOMAIN ch
  BY ChunkTypes
<1>5. top \notin S => top \notin x..(y - 1)
  BY <1>1, <1>2, <1>4 DEF NULL
<1>6. y \in DOMAIN ch => HeaderOk(ch[y]) /\ (ch[y].c \/ ch[y].p)
  BY <1>1, ChunkTypes DEF Run
<1>. QED
  BY <1>1, <1>2, <1>3, <1>4, <1>5, <1>6

\* The chunks of a block become one, or two; F is what is free of them.
OneStep(ch, top, segs, rg, x, y, S, c, F, ch2, top2) ==
    /\ Structure(ch, top, segs, rg) /\ Block(ch, segs, x, y, S)
    /\ c \in BOOLEAN /\ One(ch, ch2, x, y, c) /\ TopOf(ch, S, y, c, top, top2, x)
    /\ ~c => ch[x].p /\ (y \in DOMAIN ch => ch[y].c)
    /\ F = IF c THEN {} ELSE {x}

TwoStep(ch, top, segs, rg, x, z, y, S, c, F, ch2, top2) ==
    /\ Structure(ch, top, segs, rg) /\ Block(ch, segs, x, y, S)
    /\ z \in Nat /\ x < z /\ z < y
    /\ c \in BOOLEAN /\ Two(ch, ch2, x, z, y, c) /\ TopOf(ch, S, y, c, top, top2, z)
    /\ ~c => (y \in DOMAIN ch => ch[y].c)
    /\ F = IF c THEN {} ELSE {z}

\* Structure is kept when a block becomes one chunk.
LEMMA OnePiece ==
    ASSUME NEW ch, NEW top, NEW segs, NEW rg, NEW x, NEW y, NEW S, NEW c, NEW F, NEW ch2, NEW top2,
           OneStep(ch, top, segs, rg, x, y, S, c, F, ch2, top2)
    PROVE  /\ Structure(ch2, top2, segs, rg)
           /\ Retiled(ch, ch2, S, {x}, F)
           /\ ch2[x].size = y - x /\ (ch2[x].c <=> c)
<1>0. /\ Structure(ch, top, segs, rg) /\ Block(ch, segs, x, y, S)
      /\ c \in BOOLEAN /\ One(ch, ch2, x, y, c) /\ TopOf(ch, S, y, c, top, top2, x)
      /\ (~c => ch[x].p /\ (y \in DOMAIN ch => ch[y].c))
      /\ F = IF c THEN {} ELSE {x}
  BY DEF OneStep
<1>. USE <1>0
<1>. DEFINE N == {x}
<1>1. /\ Run(ch, x, y) /\ S = DOMAIN ch \cap (x..(y - 1)) /\ S \subseteq Ord(ch)
      /\ x \in Ord(ch) /\ x \in DOMAIN ch /\ x \in S /\ x \in Nat \ {0} /\ y \in Nat /\ x < y
      /\ DOMAIN ch \ (x..(y - 1)) = DOMAIN ch \ S
      /\ HeaderOk(ch[x]) /\ (y \in DOMAIN ch => HeaderOk(ch[y]) /\ (ch[y].c \/ ch[y].p))
      /\ top # NULL => top \in FreeAt(ch) /\ top \in DOMAIN ch
      /\ top \notin S => top \notin x..(y - 1)
  BY BlockFacts
<1>2. /\ DOMAIN ch2 = (DOMAIN ch \ (x..(y - 1))) \cup N
      /\ \A q \in DOMAIN ch : q < x \/ q > y => ch2[q] = ch[q]
  BY DEF One, Else
<1>3. Headed(ch2[x], y - x, c, ch[x].p, ch[x].foot)
  BY DEF One
<1>4. HeaderOk(ch2[x]) /\ ch2[x].size = y - x /\ (ch2[x].c <=> c) /\ (ch2[x].p <=> ch[x].p)
      /\ ch2[x].foot = ch[x].foot /\ ch2[x].p = ch[x].p /\ After(ch2, x) = y
  BY <1>1, <1>3 DEF Headed, HeaderOk, After
<1>5. y \in DOMAIN ch => /\ HeaderOk(ch2[y]) /\ ch2[y].size = ch[y].size /\ ch2[y].c = ch[y].c
                         /\ (ch2[y].p <=> c) /\ ch2[y].foot = IF c THEN 0 ELSE y - x
  <2>1. y \in DOMAIN ch => Headed(ch2[y], ch[y].size, ch[y].c, c, IF c THEN 0 ELSE y - x)
    BY DEF One, Told
  <2>. QED
    BY <1>1, <2>1 DEF Headed, HeaderOk
<1>6. Other(ch, ch2, x, y, N)
  <2>1. N \subseteq x..(y - 1) /\ x \in N
    BY <1>1
  <2>. QED
    BY <1>2, <1>4, <1>5, <2>1 DEF Other
<1>7. ch2[x].c \/ ch2[x].p
  BY <1>4, <1>1 DEF HeaderOk
<1>8. y \in DOMAIN ch => Tagged(ch2, x, y)
  <2>1. ASSUME y \in DOMAIN ch PROVE Tagged(ch2, x, y)
    <3>1. y \in DOMAIN ch2
      BY <1>1, <1>2, <2>1
    <3>2. ch2[y].c \/ ch2[y].p
      BY <1>1, <1>5, <2>1
    <3>. QED
      BY <1>4, <1>5, <2>1, <3>1, <3>2 DEF Tagged
  <2>. QED
    BY <2>1
<1>9. x # top2 => y \in DOMAIN ch
  BY DEF TopOf
<1>10. Pieces(ch2, N, y, top2)
  <2>1. ch2[x].size > 0
    BY <1>1, <1>4
  <2>. QED
    BY <1>4, <1>7, <1>8, <1>9, <1>1, <2>1 DEF Pieces
<1>11. Backs(ch2, x, y, N, top2)
  <2>1. ASSUME y \in DOMAIN ch2, ~ch2[y].p PROVE x # top2 /\ After(ch2, x) = y
    <3>1. y \in DOMAIN ch
      BY <1>1, <1>2, <2>1
    <3>2. x # top2
      <4>1. CASE top2 = top /\ top \notin S
        BY <1>1, <4>1
      <4>2. CASE top \in S /\ After(ch, top) = y
        <5>1. \A i \in 1..Len(segs) : segs[i].record # top
          BY <4>2, <1>1 DEF Block
        <5>2. After(ch, top) \notin DOMAIN ch
          BY <1>1, <4>2, <5>1, BlockOf
        <5>. QED
          BY <3>1, <4>2, <5>2
      <4>. QED
        BY <4>1, <4>2 DEF TopOf
    <3>. QED
      BY <1>4, <3>2
  <2>. QED
    BY <2>1 DEF Backs
<1>12. \/ top2 = top /\ top \notin x..(y - 1)
       \/ /\ top2 \in N /\ ~ch2[top2].c /\ top \in x..(y - 1)
          /\ After(ch2, top2) = After(ch, top) /\ After(ch, top) = y
  BY <1>1, <1>4 DEF TopOf
<1>13. PICK k \in 1..Len(segs) : segs[k].base <= x /\ y < segs[k].base + segs[k].size
  BY DEF Block
<1>14. \A i \in 1..Len(segs) : segs[i].record \notin x..(y - 1)
  BY DEF Block
<1>15. Structure(ch2, top2, segs, rg)
  <2>. HIDE DEF N
  <2>. QED
    BY <1>1, <1>6, <1>10, <1>11, <1>12, <1>13, <1>14, RetileStructure
<1>16. Retiled(ch, ch2, S, N, IF c THEN {} ELSE {x})
  <2>. HIDE DEF N
  <2>1. /\ \A q \in DOMAIN ch \ (x..(y - 1)) :
                 q \in DOMAIN ch2 /\ ch2[q].size = ch[q].size /\ ch2[q].c = ch[q].c
        /\ Ord(ch2) = (Ord(ch) \ (x..(y - 1))) \cup N
        /\ FreeAt(ch2) = (FreeAt(ch) \ (x..(y - 1))) \cup {p \in N : ~ch2[p].c}
        /\ Direct(ch2) = Direct(ch)
    BY <1>1, <1>6, <1>10, <1>11, RetileSets DEF Structure
  <2>2. Ord(ch) \ (x..(y - 1)) = Ord(ch) \ S /\ FreeAt(ch) \ (x..(y - 1)) = FreeAt(ch) \ S
    BY <1>1 DEF Ord, FreeAt
  <2>3. {p \in N : ~ch2[p].c} = IF c THEN {} ELSE {x}
    BY <1>4 DEF N
  <2>. QED
    BY <1>1, <1>2, <2>1, <2>2, <2>3 DEF Retiled
<1>. QED
  BY <1>4, <1>15, <1>16

\* What the two then are.
TwoDone(ch, segs, rg, x, z, y, S, c, F, ch2, top2) ==
    /\ Structure(ch2, top2, segs, rg)
    /\ Retiled(ch, ch2, S, {x, z}, F)
    /\ ch2[x].size = z - x /\ ch2[x].c /\ ch2[z].size = y - z /\ (ch2[z].c <=> c)

\* Structure is kept when a block becomes two.
LEMMA TwoPieces ==
    ASSUME NEW ch, NEW top, NEW segs, NEW rg, NEW x, NEW z, NEW y, NEW S, NEW c, NEW F, NEW ch2, NEW top2,
           TwoStep(ch, top, segs, rg, x, z, y, S, c, F, ch2, top2)
    PROVE  TwoDone(ch, segs, rg, x, z, y, S, c, F, ch2, top2)
<1>0. /\ Structure(ch, top, segs, rg) /\ Block(ch, segs, x, y, S)
      /\ z \in Nat /\ x < z /\ z < y
      /\ c \in BOOLEAN /\ Two(ch, ch2, x, z, y, c) /\ TopOf(ch, S, y, c, top, top2, z)
      /\ (~c => (y \in DOMAIN ch => ch[y].c))
      /\ F = IF c THEN {} ELSE {z}
  BY DEF TwoStep
<1>. USE <1>0
<1>. DEFINE N == {x, z}
<1>1. /\ Run(ch, x, y) /\ S = DOMAIN ch \cap (x..(y - 1)) /\ S \subseteq Ord(ch)
      /\ x \in Ord(ch) /\ x \in DOMAIN ch /\ x \in S /\ x \in Nat \ {0} /\ y \in Nat /\ x < y
      /\ DOMAIN ch \ (x..(y - 1)) = DOMAIN ch \ S
      /\ HeaderOk(ch[x]) /\ (y \in DOMAIN ch => HeaderOk(ch[y]) /\ (ch[y].c \/ ch[y].p))
      /\ top # NULL => top \in FreeAt(ch) /\ top \in DOMAIN ch
      /\ top \notin S => top \notin x..(y - 1)
  BY BlockFacts
<1>2. /\ DOMAIN ch2 = (DOMAIN ch \ (x..(y - 1))) \cup N
      /\ \A q \in DOMAIN ch : q < x \/ q > y => ch2[q] = ch[q]
  BY DEF Two, Else
<1>3. Headed(ch2[x], z - x, TRUE, ch[x].p, ch[x].foot) /\ Headed(ch2[z], y - z, c, TRUE, 0)
  BY DEF Two
<1>4. /\ HeaderOk(ch2[x]) /\ ch2[x].size = z - x /\ ch2[x].c
      /\ ch2[x].foot = ch[x].foot /\ ch2[x].p = ch[x].p /\ After(ch2, x) = z
      /\ HeaderOk(ch2[z]) /\ ch2[z].size = y - z /\ (ch2[z].c <=> c) /\ ch2[z].p /\ ch2[z].foot = 0
      /\ After(ch2, z) = y
  BY <1>1, <1>3 DEF Headed, HeaderOk, After
<1>5. y \in DOMAIN ch => /\ HeaderOk(ch2[y]) /\ ch2[y].size = ch[y].size /\ ch2[y].c = ch[y].c
                         /\ (ch2[y].p <=> c) /\ ch2[y].foot = IF c THEN 0 ELSE y - z
  <2>1. y \in DOMAIN ch => Headed(ch2[y], ch[y].size, ch[y].c, c, IF c THEN 0 ELSE y - z)
    BY DEF Two, Told
  <2>. QED
    BY <1>1, <2>1 DEF Headed, HeaderOk
<1>6. Other(ch, ch2, x, y, N)
  <2>1. N \subseteq x..(y - 1) /\ x \in N
    BY <1>1
  <2>. QED
    BY <1>2, <1>4, <1>5, <2>1 DEF Other
<1>8. y \in DOMAIN ch => Tagged(ch2, z, y)
  <2>1. ASSUME y \in DOMAIN ch PROVE Tagged(ch2, z, y)
    <3>1. y \in DOMAIN ch2
      BY <1>1, <1>2, <2>1
    <3>2. ch2[y].c \/ ch2[y].p
      BY <1>1, <1>5, <2>1
    <3>. QED
      BY <1>4, <1>5, <2>1, <3>1, <3>2 DEF Tagged
  <2>. QED
    BY <2>1
<1>8a. Tagged(ch2, x, z)
  BY <1>2, <1>4 DEF Tagged
<1>9. z # top2 => y \in DOMAIN ch
  BY DEF TopOf
<1>9a. x # top2
  BY <1>1 DEF TopOf
<1>10. Pieces(ch2, N, y, top2)
  <2>1. ch2[x].size > 0 /\ ch2[z].size > 0
    BY <1>1, <1>4
  <2>2. \A p, q \in N : q <= p \/ After(ch2, p) <= q
    BY <1>1, <1>4
  <2>3. \A p \in N : After(ch2, p) <= y
    BY <1>1, <1>4
  <2>. QED
    BY <1>4, <1>8, <1>8a, <1>9, <2>1, <2>2, <2>3 DEF Pieces
<1>11. Backs(ch2, x, y, N, top2)
  <2>1. ASSUME y \in DOMAIN ch2, ~ch2[y].p PROVE z # top2 /\ After(ch2, z) = y
    <3>1. y \in DOMAIN ch
      BY <1>1, <1>2, <2>1
    <3>2. z # top2
      <4>1. CASE top2 = top /\ top \notin S
        BY <1>1, <4>1
      <4>2. CASE top \in S /\ After(ch, top) = y
        <5>1. \A i \in 1..Len(segs) : segs[i].record # top
          BY <4>2, <1>1 DEF Block
        <5>2. After(ch, top) \notin DOMAIN ch
          BY <1>1, <4>2, <5>1, BlockOf
        <5>. QED
          BY <3>1, <4>2, <5>2
      <4>. QED
        BY <4>1, <4>2 DEF TopOf
    <3>. QED
      BY <1>4, <3>2
  <2>. QED
    BY <1>4, <2>1 DEF Backs
<1>12. \/ top2 = top /\ top \notin x..(y - 1)
       \/ /\ top2 \in N /\ ~ch2[top2].c /\ top \in x..(y - 1)
          /\ After(ch2, top2) = After(ch, top) /\ After(ch, top) = y
  BY <1>1, <1>4 DEF TopOf
<1>13. PICK k \in 1..Len(segs) : segs[k].base <= x /\ y < segs[k].base + segs[k].size
  BY DEF Block
<1>14. \A i \in 1..Len(segs) : segs[i].record \notin x..(y - 1)
  BY DEF Block
<1>15. Structure(ch2, top2, segs, rg)
  <2>. HIDE DEF N
  <2>. QED
    BY <1>1, <1>6, <1>10, <1>11, <1>12, <1>13, <1>14, RetileStructure
<1>16. Retiled(ch, ch2, S, N, IF c THEN {} ELSE {z})
  <2>0. {p \in N : ~ch2[p].c} = IF c THEN {} ELSE {z}
    BY <1>4 DEF N
  <2>. HIDE DEF N
  <2>1. /\ \A q \in DOMAIN ch \ (x..(y - 1)) :
                 q \in DOMAIN ch2 /\ ch2[q].size = ch[q].size /\ ch2[q].c = ch[q].c
        /\ Ord(ch2) = (Ord(ch) \ (x..(y - 1))) \cup N
        /\ FreeAt(ch2) = (FreeAt(ch) \ (x..(y - 1))) \cup {p \in N : ~ch2[p].c}
        /\ Direct(ch2) = Direct(ch)
    BY <1>1, <1>6, <1>10, <1>11, RetileSets DEF Structure
  <2>2. Ord(ch) \ (x..(y - 1)) = Ord(ch) \ S /\ FreeAt(ch) \ (x..(y - 1)) = FreeAt(ch) \ S
    BY <1>1 DEF Ord, FreeAt
  <2>. QED
    BY <1>1, <1>2, <2>0, <2>1, <2>2 DEF Retiled
<1>. QED
  BY <1>4, <1>15, <1>16 DEF TwoDone, N

-----------------------------------------------------------------------------
(* Sound heaps. *)

\* The records of segments, and the entries of the bins for free chunks.
SegmentRecords(segs) == {segs[i].record : i \in 1..Len(segs)} \ {NULL}

\* What callers hold.
Used(m) == ((Ord(m.chunks) \ FreeAt(m.chunks)) \cup Direct(m.chunks)) \ SegmentRecords(m.segs)

Entries(ch, F) == {[at |-> p, size |-> ch[p].size] : p \in F}

\* The bins, the victim and top have the free chunks, but for those of X.
Binned(m, X) ==
    /\ m.bins = Entries(m.chunks, FreeAt(m.chunks) \ ({m.top, m.dv} \cup X))
    /\ IF m.dv = NULL THEN m.dvsize = 0
       ELSE m.dv \in FreeAt(m.chunks) \ {m.top} /\ m.dvsize = m.chunks[m.dv].size
    /\ m.topsize = IF m.top = NULL THEN 0 ELSE m.chunks[m.top].size

\* No chunk is below least_addr.
Low(m) == m.least_addr \in Nat /\ \A p \in DOMAIN m.chunks : m.least_addr <= p /\ m.least_addr # 0

\* A state sound but for the bins, and a sound state.
Whole(m) ==
    /\ IsState(m) /\ ~m.aborted
    /\ Structure(m.chunks, m.top, m.segs, m.regions)
    /\ Low(m)

Sound(m) == Whole(m) /\ Binned(m, {})

\* What a set of things covers, each of them an interval.
Covered(iv, S) == UNION {iv[x] : x \in S}

\* The addresses of regions.
Extent(rg) == [r \in DOMAIN rg |-> r..(r + rg[r] - 1)]

\* The footprint is what the regions have.
Counted(m) ==
    LET all == Covered(Extent(m.regions), DOMAIN m.regions)
    IN IsFiniteSet(all) /\ m.footprint = Cardinality(all)

Counts(n, m) == Counted(m) => Counted(n)

\* Where neither the regions nor the footprint change, nothing is counted anew.
LEMMA CountsSame ==
    ASSUME NEW m, NEW n, n.regions = m.regions, n.footprint = m.footprint
    PROVE  Counts(n, m)
  BY DEF Counts, Counted

\* Of what callers hold, S is taken away and T added.
Frame(n, m, S, T) ==
    /\ Used(n) = (Used(m) \ S) \cup T
    /\ \A q \in Used(m) \ S : n.chunks[q].size = m.chunks[q].size /\ n.chunks[q].c = m.chunks[q].c
    /\ n.use_mmap = m.use_mmap
    /\ Counts(n, m)

\* Where the free chunks go that are new, F, and those that were in S.
Rebinned(n, m, S, F) ==
    /\ \/ n.dv = m.dv /\ n.dvsize = m.dvsize /\ m.dv \notin S
       \/ n.dv = NULL /\ n.dvsize = 0
       \/ n.dv \in F /\ n.dv # n.top /\ n.dvsize = n.chunks[n.dv].size
    /\ \/ n.top = m.top /\ n.topsize = m.topsize /\ m.top \notin S
       \/ n.top \in F /\ n.topsize = n.chunks[n.top].size /\ m.top \in S
    /\ n.bins = m.bins \cup Entries(n.chunks, (F \cup (({m.dv} \ {NULL}) \ S)) \ {n.top, n.dv})

\* In the state m, the free chunks of S are X, top or the victim.
Cleared(m, X, x, y, S) ==
    /\ Whole(m) /\ Binned(m, X) /\ Block(m.chunks, m.segs, x, y, S)
    /\ S \cap FreeAt(m.chunks) \subseteq X \cup {m.top, m.dv}
    /\ X \cap FreeAt(m.chunks) \subseteq S

\* A state with other chunks in the place of those between x and y.
Remade(m, X, x, y, S, n, N, F) ==
    /\ Cleared(m, X, x, y, S) /\ SameRest(n, m) /\ Rebinned(n, m, S, F)
    /\ N \subseteq x..(y - 1) /\ F \subseteq N
    /\ Structure(n.chunks, n.top, m.segs, m.regions) /\ Retiled(m.chunks, n.chunks, S, N, F)

\* It is sound when the bins are right for them.
LEMMA Resound ==
    ASSUME NEW m, NEW X, NEW x, NEW y, NEW S, NEW n, NEW N, NEW F, Remade(m, X, x, y, S, n, N, F)
    PROVE  Sound(n) /\ Frame(n, m, S, N \ F)
<1>0. /\ Whole(m) /\ Binned(m, X) /\ Block(m.chunks, m.segs, x, y, S)
      /\ S \cap FreeAt(m.chunks) \subseteq X \cup {m.top, m.dv}
      /\ X \cap FreeAt(m.chunks) \subseteq S
      /\ SameRest(n, m) /\ Rebinned(n, m, S, F)
      /\ N \subseteq x..(y - 1) /\ F \subseteq N
      /\ Structure(n.chunks, n.top, m.segs, m.regions) /\ Retiled(m.chunks, n.chunks, S, N, F)
  BY DEF Remade, Cleared
<1>. USE <1>0
<1>. DEFINE ch == m.chunks
            ch2 == n.chunks
<1>1. /\ IsState(n) /\ n.segs = m.segs /\ n.regions = m.regions /\ n.least_addr = m.least_addr
      /\ n.use_mmap = m.use_mmap /\ n.aborted = m.aborted
  BY DEF SameRest
<1>2. ~m.aborted /\ Structure(ch, m.top, m.segs, m.regions) /\ Low(m)
  BY DEF Whole
<1>3. /\ S = DOMAIN ch \cap (x..(y - 1)) /\ S \subseteq Ord(ch)
      /\ x \in DOMAIN ch /\ x \in Nat \ {0} /\ y \in Nat
      /\ m.top # NULL => m.top \in FreeAt(ch)
  BY <1>2, BlockFacts
<1>4. /\ DOMAIN ch2 = (DOMAIN ch \ S) \cup N
      /\ Ord(ch2) = (Ord(ch) \ S) \cup N
      /\ FreeAt(ch2) = (FreeAt(ch) \ S) \cup F
      /\ Direct(ch2) = Direct(ch)
      /\ \A q \in DOMAIN ch \ S : ch2[q].size = ch[q].size /\ ch2[q].c = ch[q].c
  BY DEF Retiled
<1>5. /\ FreeAt(ch) \subseteq DOMAIN ch /\ Ord(ch) \subseteq DOMAIN ch /\ Direct(ch) \subseteq DOMAIN ch
      /\ Direct(ch) \cap Ord(ch) = {}
  BY <1>2, ChunkTypes DEF FreeAt, Ord, Direct
<1>6. N \cap DOMAIN ch \subseteq S /\ NULL \notin N
  BY <1>3 DEF NULL
<1>7. Low(n)
  <2>1. m.least_addr \in Nat /\ m.least_addr # 0 /\ m.least_addr <= x
    BY <1>2, <1>3 DEF Low
  <2>2. ASSUME NEW p \in DOMAIN ch2 PROVE m.least_addr <= p
    <3>1. CASE p \in N
      <4>1. p \in x..(y - 1)
        BY <3>1
      <4>. QED
        BY <1>3, <2>1, <4>1
    <3>2. CASE p \in DOMAIN ch
      BY <1>2, <3>2 DEF Low
    <3>. QED
      BY <1>4, <2>2, <3>1, <3>2
  <2>. QED
    BY <1>1, <2>1, <2>2 DEF Low
<1>8. Whole(n)
  BY <1>1, <1>2, <1>7 DEF Whole
<1>. DEFINE A == FreeAt(ch) \ ({m.top, m.dv} \cup X)
            B == (F \cup (({m.dv} \ {NULL}) \ S)) \ {n.top, n.dv}
<1>9. m.bins = Entries(ch, A) /\ n.bins = m.bins \cup Entries(ch2, B)
  BY DEF Binned, Rebinned
<1>10. (m.dv # NULL => m.dv \in FreeAt(ch) \ {m.top} /\ m.dvsize = ch[m.dv].size)
       /\ m.topsize = (IF m.top = NULL THEN 0 ELSE ch[m.top].size)
       /\ (m.dv = NULL => m.dvsize = 0)
  BY DEF Binned
<1>11. Entries(ch, A) = Entries(ch2, A)
  <2>1. \A p \in A : ch2[p].size = ch[p].size
    <3>1. A \subseteq DOMAIN ch \ S
      BY <1>5
    <3>. QED
      BY <1>4, <3>1
  <2>. QED
    BY <2>1 DEF Entries
<1>12. FreeAt(ch2) \ {n.top, n.dv} = A \cup B
  <2>1. A = (FreeAt(ch) \ S) \ {m.top, m.dv}
    OBVIOUS
  <2>2. n.top = m.top \/ (n.top \in N /\ m.top \in S)
    BY DEF Rebinned
  <2>3. n.dv = m.dv \/ n.dv = NULL \/ n.dv \in N
    BY DEF Rebinned
  <2>4. NULL \notin FreeAt(ch)
    BY <1>2, <1>5, ChunkTypes DEF NULL
  <2>5. N \cap (FreeAt(ch) \ S) = {}
    BY <1>5, <1>6
  <2>6. A \cup B \subseteq FreeAt(ch2) \ {n.top, n.dv}
    <3>1. A \subseteq FreeAt(ch2) \ {n.top, n.dv}
      BY <1>4, <2>1, <2>2, <2>3, <2>4, <2>5
    <3>2. ({m.dv} \ {NULL}) \ S \subseteq FreeAt(ch2)
      BY <1>4, <1>10
    <3>. QED
      BY <1>4, <3>1, <3>2
  <2>7. FreeAt(ch2) \ {n.top, n.dv} \subseteq A \cup B
    <3>1. ASSUME NEW p \in FreeAt(ch2), p # n.top, p # n.dv PROVE p \in A \cup B
      <4>1. CASE p \in F
        BY <3>1, <4>1
      <4>2. CASE p \in FreeAt(ch) \ S
        <5>1. p # m.top
          BY <2>2, <3>1, <4>2
        <5>2. CASE p = m.dv
          BY <2>4, <3>1, <4>2, <5>2
        <5>3. CASE p # m.dv
          BY <2>1, <4>2, <5>1, <5>3
        <5>. QED
          BY <5>2, <5>3
      <4>. QED
        BY <1>4, <3>1, <4>1, <4>2
    <3>. QED
      BY <3>1
  <2>. QED
    BY <2>6, <2>7
<1>13. n.bins = Entries(ch2, FreeAt(ch2) \ {n.top, n.dv})
  <2>1. Entries(ch2, A) \cup Entries(ch2, B) = Entries(ch2, A \cup B)
    BY DEF Entries
  <2>. QED
    BY <1>9, <1>11, <1>12, <2>1
<1>14. IF n.dv = NULL THEN n.dvsize = 0
       ELSE n.dv \in FreeAt(ch2) \ {n.top} /\ n.dvsize = ch2[n.dv].size
  <2>1. CASE n.dv = m.dv /\ n.dvsize = m.dvsize /\ m.dv \notin S
    <3>1. CASE m.dv = NULL
      BY <1>10, <2>1, <3>1
    <3>2. CASE m.dv # NULL
      <4>1. m.dv \in FreeAt(ch) \ S /\ m.dv # m.top /\ m.dv \in DOMAIN ch \ S
        BY <1>5, <1>10, <2>1, <3>2
      <4>2. m.dv # n.top
        <5>1. n.top = m.top \/ n.top \in N
          BY DEF Rebinned
        <5>. QED
          BY <1>6, <4>1, <5>1
      <4>3. n.dvsize = ch2[n.dv].size
        BY <1>4, <1>10, <2>1, <3>2, <4>1
      <4>. QED
        BY <1>4, <2>1, <3>2, <4>1, <4>2, <4>3
    <3>. QED
      BY <3>1, <3>2
  <2>2. CASE n.dv = NULL /\ n.dvsize = 0
    BY <2>2
  <2>3. CASE n.dv \in F /\ n.dv # n.top /\ n.dvsize = n.chunks[n.dv].size
    <3>1. n.dv # NULL
      BY <1>6, <2>3
    <3>. QED
      BY <1>4, <2>3, <3>1
  <2>. QED
    BY <2>1, <2>2, <2>3 DEF Rebinned
<1>15. n.topsize = IF n.top = NULL THEN 0 ELSE ch2[n.top].size
  <2>1. CASE n.top = m.top /\ n.topsize = m.topsize /\ m.top \notin S
    <3>1. CASE m.top = NULL
      BY <1>10, <2>1, <3>1
    <3>2. CASE m.top # NULL
      <4>1. m.top \in DOMAIN ch \ S
        BY <1>3, <1>5, <2>1, <3>2
      <4>. QED
        BY <1>4, <1>10, <2>1, <3>2, <4>1
    <3>. QED
      BY <3>1, <3>2
  <2>2. CASE n.top \in F /\ n.topsize = n.chunks[n.top].size
    <3>1. n.top # NULL
      BY <1>6, <2>2
    <3>. QED
      BY <2>2, <3>1
  <2>. QED
    BY <2>1, <2>2 DEF Rebinned
<1>16. Sound(n)
  BY <1>8, <1>13, <1>14, <1>15 DEF Sound, Binned
<1>17. SegmentRecords(n.segs) = SegmentRecords(m.segs) /\ SegmentRecords(m.segs) \cap N = {}
  <2>1. \A i \in 1..Len(m.segs) : m.segs[i].record \notin N
    BY DEF Block
  <2>. QED
    BY <1>1, <2>1 DEF SegmentRecords
<1>18. Used(n) = (Used(m) \ S) \cup (N \ F)
  <2>. DEFINE R == SegmentRecords(m.segs)
  <2>1. Used(n) = (((((Ord(ch) \ S) \cup N) \ ((FreeAt(ch) \ S) \cup F)) \cup Direct(ch)) \ R)
    BY <1>4, <1>17 DEF Used
  <2>2. Used(m) = ((Ord(ch) \ FreeAt(ch)) \cup Direct(ch)) \ R
    BY DEF Used
  <2>3. N \cap (FreeAt(ch) \ S) = {} /\ N \cap (Ord(ch) \ S) = {} /\ S \cap Direct(ch) = {} /\ R \cap N = {}
    BY <1>3, <1>5, <1>6, <1>17
  <2>. HIDE DEF R
  <2>. QED
    BY <2>1, <2>2, <2>3
<1>19. \A q \in Used(m) \ S : ch2[q].size = ch[q].size /\ ch2[q].c = ch[q].c
  <2>1. Used(m) \subseteq DOMAIN ch
    BY <1>5 DEF Used
  <2>. QED
    BY <1>4, <2>1
<1>20. Counts(n, m)
  BY <1>1, CountsSame DEF SameRest
<1>. QED
  BY <1>1, <1>16, <1>18, <1>19, <1>20 DEF Frame

\* One block becomes one chunk, or two.
OneMade(m, X, x, y, S, c, F, n) ==
    /\ Cleared(m, X, x, y, S) /\ SameRest(n, m) /\ Rebinned(n, m, S, F)
    /\ c \in BOOLEAN /\ One(m.chunks, n.chunks, x, y, c) /\ TopOf(m.chunks, S, y, c, m.top, n.top, x)
    /\ ~c => m.chunks[x].p /\ (y \in DOMAIN m.chunks => m.chunks[y].c)
    /\ F = IF c THEN {} ELSE {x}
TwoMade(m, X, x, z, y, S, c, F, n) ==
    /\ Cleared(m, X, x, y, S) /\ SameRest(n, m) /\ Rebinned(n, m, S, F)
    /\ z \in Nat /\ x < z /\ z < y
    /\ c \in BOOLEAN /\ Two(m.chunks, n.chunks, x, z, y, c) /\ TopOf(m.chunks, S, y, c, m.top, n.top, z)
    /\ ~c => (y \in DOMAIN m.chunks => m.chunks[y].c)
    /\ F = IF c THEN {} ELSE {z}

\* A block becomes one chunk of a sound state.
LEMMA OneSound ==
    ASSUME NEW m, NEW X, NEW x, NEW y, NEW S, NEW c, NEW F, NEW n, OneMade(m, X, x, y, S, c, F, n)
    PROVE  /\ Sound(n) /\ Frame(n, m, S, {x} \ F)
           /\ n.chunks[x].size = y - x /\ (n.chunks[x].c <=> c)
<1>1. OneStep(m.chunks, m.top, m.segs, m.regions, x, y, S, c, F, n.chunks, n.top)
  BY DEF OneMade, OneStep, Cleared, Whole
<1>2. /\ Structure(n.chunks, n.top, m.segs, m.regions)
      /\ Retiled(m.chunks, n.chunks, S, {x}, F)
      /\ n.chunks[x].size = y - x /\ (n.chunks[x].c <=> c)
  BY SMTT(30), <1>1, OnePiece
<1>3. x \in Nat /\ y \in Nat /\ x < y
  BY BlockFacts DEF OneMade, Cleared, Whole
<1>4. {x} \subseteq x..(y - 1) /\ F \subseteq {x}
  BY <1>3 DEF OneMade
<1>5. Remade(m, X, x, y, S, n, {x}, F)
  BY <1>2, <1>4 DEF OneMade, Remade
<1>6. Sound(n) /\ Frame(n, m, S, {x} \ F)
  BY <1>5, Resound
<1>. QED
  BY <1>2, <1>6

\* What is said of the two chunks of a block.
TwoSounds(m, x, z, y, S, c, F, n) ==
    /\ Sound(n) /\ Frame(n, m, S, {x, z} \ F)
    /\ n.chunks[x].size = z - x /\ n.chunks[x].c
    /\ n.chunks[z].size = y - z /\ (n.chunks[z].c <=> c)

\* A block becomes two chunks of a sound state.
LEMMA TwoSound ==
    ASSUME NEW m, NEW X, NEW x, NEW z, NEW y, NEW S, NEW c, NEW F, NEW n, TwoMade(m, X, x, z, y, S, c, F, n)
    PROVE  TwoSounds(m, x, z, y, S, c, F, n)
<1>1. TwoStep(m.chunks, m.top, m.segs, m.regions, x, z, y, S, c, F, n.chunks, n.top)
  BY DEF TwoMade, TwoStep, Cleared, Whole
<1>2. /\ Structure(n.chunks, n.top, m.segs, m.regions)
      /\ Retiled(m.chunks, n.chunks, S, {x, z}, F)
      /\ n.chunks[x].size = z - x /\ n.chunks[x].c
      /\ n.chunks[z].size = y - z /\ (n.chunks[z].c <=> c)
  <2>1. TwoDone(m.chunks, m.segs, m.regions, x, z, y, S, c, F, n.chunks, n.top)
    BY <1>1, TwoPieces
  <2>. QED
    BY <2>1 DEF TwoDone
<1>3. x \in Nat /\ y \in Nat /\ x < y
  BY BlockFacts DEF TwoMade, Cleared, Whole
<1>4. {x, z} \subseteq x..(y - 1) /\ F \subseteq {x, z}
  BY <1>3 DEF TwoMade
<1>5. Remade(m, X, x, y, S, n, {x, z}, F)
  BY <1>2, <1>4 DEF TwoMade, Remade
<1>6. Sound(n) /\ Frame(n, m, S, {x, z} \ F)
  BY <1>5, Resound
<1>. QED
  BY <1>2, <1>6 DEF TwoSounds

\* Where the free chunk goes.
Dv(n) == [at |-> n.dv, size |-> n.dvsize]
SameDv(n, m) == n.dv = m.dv /\ n.dvsize = m.dvsize
DvGone(n, m, S) == n.dv = NULL /\ n.dvsize = 0 /\ (m.dv \in S \/ m.dv = NULL)

\* The bins are right when nothing of the block is free,
LEMMA NoneFree ==
    ASSUME NEW n, NEW m, NEW S, SameTop(n, m), m.top \notin S, n.bins = m.bins,
           (SameDv(n, m) /\ m.dv \notin S) \/ DvGone(n, m, S)
    PROVE  Rebinned(n, m, S, {})
<1>1. Entries(n.chunks, (({m.dv} \ {NULL}) \ S) \ {n.top, n.dv}) = {}
  <2>1. (({m.dv} \ {NULL}) \ S) \ {n.top, n.dv} = {}
    BY DEF SameDv, DvGone
  <2>. QED
    BY <2>1 DEF Entries
<1>. QED
  BY <1>1 DEF Rebinned, SameDv, DvGone, SameTop

\* when what is free went to a bin,
LEMMA FreeInBin ==
    ASSUME NEW n, NEW m, NEW S, SameTop(n, m), m.top \notin S, NEW a,
           n.bins = m.bins \cup {[at |-> a, size |-> n.chunks[a].size]},
           SameDv(n, m), m.dv \notin S, a # m.top, a # m.dv
    PROVE  Rebinned(n, m, S, {a})
<1>1. ({a} \cup (({m.dv} \ {NULL}) \ S)) \ {n.top, n.dv} = {a}
  BY DEF SameDv, SameTop
<1>2. Entries(n.chunks, {a}) = {[at |-> a, size |-> n.chunks[a].size]}
  BY DEF Entries
<1>. QED
  BY <1>1, <1>2 DEF Rebinned, SameDv, SameTop

\* when it is the designated victim,
LEMMA FreeIsDv ==
    ASSUME NEW n, NEW m, NEW S, SameTop(n, m), m.top \notin S, NEW a,
           n.bins = m.bins, n.dv = a, n.dvsize = n.chunks[a].size,
           m.dv \in S \/ m.dv = NULL, a # m.top
    PROVE  Rebinned(n, m, S, {a})
<1>1. ({a} \cup (({m.dv} \ {NULL}) \ S)) \ {n.top, n.dv} = {}
  BY DEF SameTop
<1>2. Entries(n.chunks, {}) = {}
  BY DEF Entries
<1>. QED
  BY <1>1, <1>2 DEF Rebinned, SameTop

\* when it is, and the victim before it went to a bin,
LEMMA FreeReplacesDv ==
    ASSUME NEW n, NEW m, NEW S, SameTop(n, m), m.top \notin S, NEW a,
           n.dv = a, n.dvsize = n.chunks[a].size, a # m.top, a # m.dv,
           m.dv \notin S, m.dv # NULL, m.dv # m.top,
           n.bins = m.bins \cup {[at |-> m.dv, size |-> n.chunks[m.dv].size]}
    PROVE  Rebinned(n, m, S, {a})
<1>1. ({a} \cup (({m.dv} \ {NULL}) \ S)) \ {n.top, n.dv} = {m.dv}
  BY DEF SameTop
<1>2. Entries(n.chunks, {m.dv}) = {[at |-> m.dv, size |-> n.chunks[m.dv].size]}
  BY DEF Entries
<1>. QED
  BY <1>1, <1>2 DEF Rebinned, SameTop

\* and when it is top.
LEMMA FreeIsTop ==
    ASSUME NEW n, NEW m, NEW S, NEW a, n.top = a, n.topsize = n.chunks[a].size, m.top \in S,
           n.bins = m.bins, (SameDv(n, m) /\ m.dv \notin S /\ a # m.dv) \/ DvGone(n, m, S)
    PROVE  Rebinned(n, m, S, {a})
<1>1. ({a} \cup (({m.dv} \ {NULL}) \ S)) \ {n.top, n.dv} = {}
  BY DEF SameDv, DvGone
<1>2. Entries(n.chunks, {}) = {}
  BY DEF Entries
<1>. QED
  BY <1>1, <1>2 DEF Rebinned, SameDv, DvGone

-----------------------------------------------------------------------------
\* What the routines of the bins do to the state.

\* The bins change, the chunks do not.
BinsOnly(n, m) == SameRest(n, m) /\ n.chunks = m.chunks /\ SameTop(n, m)

\* insert_chunk adds an entry.
LEMMA InsertIs ==
    ASSUME NEW m, IsState(m), NEW a, NEW s
    PROVE  LET n == InsertChunk(m, a, s)
           IN BinsOnly(n, m) /\ SameDv(n, m) /\ n.bins = m.bins \cup {[at |-> a, size |-> s]}
<1>. DEFINE b == m.bins \cup {[at |-> a, size |-> s]}
<1>1. InsertChunk(m, a, s) = [m EXCEPT !.bins = b]
  BY DEF InsertChunk
<1>. HIDE DEF b
<1>2. BinsOnly([m EXCEPT !.bins = b], m) /\ SameDv([m EXCEPT !.bins = b], m) /\ [m EXCEPT !.bins = b].bins = b
  BY DEF IsState, Fields, BinsOnly, SameRest, SameTop, SameDv
<1>. QED
  BY <1>1, <1>2 DEF b

\* The designated victim is set.
LEMMA SetDvIs ==
    ASSUME NEW m, IsState(m), NEW a, NEW s
    PROVE  LET n == SetDv(m, a, s)
           IN BinsOnly(n, m) /\ n.bins = m.bins /\ n.dv = a /\ n.dvsize = s
  BY DEF SetDv, IsState, Fields, BinsOnly, SameRest, SameTop

\* unlink_chunk removes an entry.
LEMMA UnlinkIs ==
    ASSUME NEW m, IsState(m), NEW a, NEW s, [at |-> a, size |-> s] \in m.bins
    PROVE  LET n == UnlinkChunk(m, a, s)
           IN BinsOnly(n, m) /\ SameDv(n, m) /\ n.bins = m.bins \ {[at |-> a, size |-> s]}
<1>. DEFINE b == m.bins \ {[at |-> a, size |-> s]}
<1>1. UnlinkChunk(m, a, s) = [m EXCEPT !.bins = b]
  BY DEF UnlinkChunk, Check
<1>. HIDE DEF b
<1>2. BinsOnly([m EXCEPT !.bins = b], m) /\ SameDv([m EXCEPT !.bins = b], m) /\ [m EXCEPT !.bins = b].bins = b
  BY DEF IsState, Fields, BinsOnly, SameRest, SameTop, SameDv
<1>. QED
  BY <1>1, <1>2 DEF b

\* replace_dv adds an entry for the victim there was.
LEMMA ReplaceDvIs ==
    ASSUME NEW m, IsState(m), NEW a, NEW s, m.dvsize # 0 => IsSmall(m.dvsize)
    PROVE  LET n == ReplaceDv(m, a, s)
           IN /\ BinsOnly(n, m) /\ n.dv = a /\ n.dvsize = s
              /\ n.bins = IF m.dvsize # 0 THEN m.bins \cup {[at |-> m.dv, size |-> m.dvsize]} ELSE m.bins
<1>1. CASE m.dvsize # 0
  <2>. DEFINE o == InsertChunk(m, m.dv, m.dvsize)
  <2>1. ReplaceDv(m, a, s) = SetDv(o, a, s)
    BY <1>1 DEF ReplaceDv, Check
  <2>2. BinsOnly(o, m) /\ o.bins = m.bins \cup {[at |-> m.dv, size |-> m.dvsize]}
    BY InsertIs
  <2>. HIDE DEF o
  <2>3. LET n == SetDv(o, a, s)
        IN BinsOnly(n, o) /\ n.bins = o.bins /\ n.dv = a /\ n.dvsize = s
    BY <2>2, SetDvIs DEF BinsOnly, SameRest
  <2>. QED
    BY <1>1, <2>1, <2>2, <2>3 DEF BinsOnly, SameRest, SameTop
<1>2. CASE m.dvsize = 0
  BY <1>2, SetDvIs DEF ReplaceDv
<1>. QED
  BY <1>1, <1>2

\* The same chunks with other bins.
LEMMA WholeStays ==
    ASSUME NEW m, Whole(m), NEW n, BinsOnly(n, m)
    PROVE  Whole(n) /\ Used(n) = Used(m) /\ Frame(n, m, {}, {})
  BY CountsSame DEF Whole, BinsOnly, SameRest, SameTop, Low, Used, Frame

\* A free chunk out of the bins.
LEMMA Unlinked ==
    ASSUME NEW m, Whole(m), NEW X, Binned(m, X), NEW a,
           a \in FreeAt(m.chunks) \ ({m.top, m.dv} \cup X), NEW s, s = m.chunks[a].size
    PROVE  LET n == UnlinkChunk(m, a, s)
           IN /\ Whole(n) /\ Binned(n, X \cup {a}) /\ BinsOnly(n, m) /\ SameDv(n, m)
              /\ [at |-> a, size |-> s] \in m.bins
<1>. DEFINE n == UnlinkChunk(m, a, s)
            A == FreeAt(m.chunks) \ ({m.top, m.dv} \cup X)
            B == FreeAt(m.chunks) \ ({m.top, m.dv} \cup (X \cup {a}))
<1>1. [at |-> a, size |-> s] \in m.bins /\ m.bins = Entries(m.chunks, A)
  BY DEF Binned, Entries
<1>2. BinsOnly(n, m) /\ SameDv(n, m) /\ n.bins = m.bins \ {[at |-> a, size |-> s]}
  BY <1>1, UnlinkIs DEF Whole
<1>. HIDE DEF n
<1>3. Entries(m.chunks, A) \ {[at |-> a, size |-> s]} = Entries(m.chunks, B)
  <2>1. B = A \ {a}
    OBVIOUS
  <2>2. \A p : [at |-> p, size |-> m.chunks[p].size] = [at |-> a, size |-> s] <=> p = a
    OBVIOUS
  <2>. HIDE DEF A, B
  <2>. QED
    BY <2>1, <2>2 DEF Entries
<1>4. Whole(n)
  BY <1>2, WholeStays
<1>5. Binned(n, X \cup {a})
  BY <1>1, <1>2, <1>3 DEF Binned, BinsOnly, SameTop, SameDv
<1>. QED
  BY <1>1, <1>2, <1>4, <1>5 DEF n

\* The designated victim taken away.
LEMMA DvTaken ==
    ASSUME NEW m, Whole(m), NEW X, Binned(m, X), m.dv # NULL
    PROVE  LET n == SetDv(m, NULL, 0)
           IN Whole(n) /\ Binned(n, X \cup {m.dv}) /\ BinsOnly(n, m) /\ n.bins = m.bins /\ n.dv = NULL /\ n.dvsize = 0
<1>. DEFINE n == SetDv(m, NULL, 0)
<1>1. BinsOnly(n, m) /\ n.bins = m.bins /\ n.dv = NULL /\ n.dvsize = 0
  BY SetDvIs DEF Whole
<1>. HIDE DEF n
<1>2. Whole(n)
  BY <1>1, WholeStays
<1>3. NULL \notin FreeAt(m.chunks)
  BY ChunkTypes DEF Whole, FreeAt, NULL
<1>4. FreeAt(m.chunks) \ ({m.top, NULL} \cup (X \cup {m.dv})) = FreeAt(m.chunks) \ ({m.top, m.dv} \cup X)
  BY <1>3
<1>5. Binned(n, X \cup {m.dv})
  BY <1>1, <1>4 DEF Binned, BinsOnly, SameTop
<1>. QED
  BY <1>1, <1>2, <1>5 DEF n

\* A chunk in use in the place of a block.
LEMMA MadeInuse ==
    ASSUME NEW m, NEW X, NEW x, NEW y, NEW S, Cleared(m, X, x, y, S), y \in DOMAIN m.chunks, m.top \notin S,
           NEW n, SameRest(n, m), SameTop(n, m), n.bins = m.bins,
           (SameDv(n, m) /\ m.dv \notin S) \/ DvGone(n, m, S),
           One(m.chunks, n.chunks, x, y, TRUE)
    PROVE  Sound(n) /\ Frame(n, m, S, {x}) /\ n.chunks[x].size = y - x /\ n.chunks[x].c
<1>1. Rebinned(n, m, S, {})
  BY NoneFree
<1>2. ASSUME NEW c, c = TRUE, One(m.chunks, n.chunks, x, y, c)
      PROVE  Sound(n) /\ Frame(n, m, S, {x}) /\ n.chunks[x].size = y - x /\ n.chunks[x].c
  <2>1. TopOf(m.chunks, S, y, c, m.top, n.top, x)
    BY DEF TopOf, SameTop
  <2>2. OneMade(m, X, x, y, S, c, {}, n)
    BY <1>1, <1>2, <2>1 DEF OneMade
  <2>3. Sound(n) /\ Frame(n, m, S, {x} \ {}) /\ n.chunks[x].size = y - x /\ (n.chunks[x].c <=> c)
    BY SMTT(30), <2>2, OneSound
  <2>4. {x} \ {} = {x}
    OBVIOUS
  <2>. QED
    BY <1>2, <2>3, <2>4
<1>. QED
  BY <1>2, Zenon

\* A free chunk in its place, in a bin or as the victim.
LEMMA MadeFree ==
    ASSUME NEW m, NEW X, NEW x, NEW y, NEW S, Cleared(m, X, x, y, S), y \in DOMAIN m.chunks, m.top \notin S,
           m.chunks[x].p, m.chunks[y].c,
           NEW n, SameRest(n, m), SameTop(n, m),
           \/ n.bins = m.bins \cup {[at |-> x, size |-> y - x]} /\ SameDv(n, m) /\ m.dv \notin S
           \/ n.bins = m.bins /\ n.dv = x /\ n.dvsize = y - x /\ (m.dv \in S \/ m.dv = NULL),
           One(m.chunks, n.chunks, x, y, FALSE)
    PROVE  Sound(n) /\ Frame(n, m, S, {})
<1>0. x # m.top /\ x \in S
  BY BlockFacts DEF Cleared, Whole
<1>1. ASSUME NEW c, c = FALSE, One(m.chunks, n.chunks, x, y, c)
      PROVE  Sound(n) /\ Frame(n, m, S, {})
  <2>1. TopOf(m.chunks, S, y, c, m.top, n.top, x)
    BY DEF TopOf, SameTop
  <2>2. n.chunks[x].size = y - x
    BY <1>1 DEF One, Headed
  <2>3. Rebinned(n, m, S, {x})
    <3>1. CASE n.bins = m.bins \cup {[at |-> x, size |-> y - x]} /\ SameDv(n, m) /\ m.dv \notin S
      BY <1>0, <2>2, <3>1, FreeInBin
    <3>2. CASE n.bins = m.bins /\ n.dv = x /\ n.dvsize = y - x /\ (m.dv \in S \/ m.dv = NULL)
      BY <1>0, <2>2, <3>2, FreeIsDv
    <3>. QED
      BY <3>1, <3>2
  <2>4. OneMade(m, X, x, y, S, c, {x}, n)
    BY <1>1, <2>1, <2>3 DEF OneMade
  <2>5. Sound(n) /\ Frame(n, m, S, {x} \ {x})
    BY <2>4, OneSound
  <2>6. {x} \ {x} = {}
    OBVIOUS
  <2>. QED
    BY <2>5, <2>6
<1>. QED
  BY <1>1, Zenon

\* A new top.
LEMMA MadeTop ==
    ASSUME NEW m, NEW X, NEW x, NEW y, NEW S, Cleared(m, X, x, y, S), m.top \in S,
           y = After(m.chunks, m.top), m.chunks[x].p,
           NEW n, SameRest(n, m), n.top = x, n.topsize = y - x, n.bins = m.bins,
           (SameDv(n, m) /\ m.dv \notin S) \/ DvGone(n, m, S),
           One(m.chunks, n.chunks, x, y, FALSE)
    PROVE  Sound(n) /\ Frame(n, m, S, {})
<1>0. x \in S /\ x # NULL /\ Structure(m.chunks, m.top, m.segs, m.regions)
  BY BlockFacts DEF Cleared, Whole, NULL
<1>1. y \notin DOMAIN m.chunks
  <2>1. \A i \in 1..Len(m.segs) : m.segs[i].record # m.top
    BY <1>0, BlockFacts DEF Cleared, Block
  <2>2. m.top \in Ord(m.chunks)
    BY <1>0, BlockFacts DEF Cleared
  <2>. QED
    BY <1>0, <2>1, <2>2, BlockOf
<1>2. ASSUME NEW c, c = FALSE, One(m.chunks, n.chunks, x, y, c)
      PROVE  Sound(n) /\ Frame(n, m, S, {})
  <2>1. TopOf(m.chunks, S, y, c, m.top, n.top, x)
    BY <1>2 DEF TopOf
  <2>2. n.chunks[x].size = y - x
    BY <1>2 DEF One, Headed
  <2>3. Rebinned(n, m, S, {x})
    <3>1. x \in S /\ n.top = x /\ n.topsize = n.chunks[x].size /\ m.top \in S /\ n.bins = m.bins
      BY <1>0, <2>2
    <3>2. (SameDv(n, m) /\ m.dv \notin S /\ x # m.dv) \/ DvGone(n, m, S)
      BY <1>0
    <3>. QED
      BY <3>1, <3>2, FreeIsTop
  <2>4. OneMade(m, X, x, y, S, c, {x}, n)
    BY <1>1, <1>2, <2>1, <2>3 DEF OneMade
  <2>5. Sound(n) /\ Frame(n, m, S, {x} \ {x})
    BY <2>4, OneSound
  <2>6. {x} \ {x} = {}
    OBVIOUS
  <2>. QED
    BY <2>5, <2>6
<1>. QED
  BY <1>2, Zenon

\* Two chunks in use.
TwoInUse(m, X, x, z, y, S, n) ==
    /\ Cleared(m, X, x, y, S) /\ y \in DOMAIN m.chunks /\ m.top \notin S
    /\ z \in Nat /\ x < z /\ z < y /\ m.dv \notin S
    /\ SameRest(n, m) /\ SameTop(n, m) /\ SameBins(n, m)
    /\ Two(m.chunks, n.chunks, x, z, y, TRUE)

\* A block becomes two chunks in use.
LEMMA MadeTwoInuse ==
    ASSUME NEW m, NEW X, NEW x, NEW z, NEW y, NEW S, NEW n, TwoInUse(m, X, x, z, y, S, n)
    PROVE  /\ Sound(n) /\ Frame(n, m, S, {x, z})
           /\ n.chunks[x].size = z - x /\ n.chunks[x].c /\ n.chunks[z].size = y - z /\ n.chunks[z].c
<1>a. /\ Cleared(m, X, x, y, S) /\ y \in DOMAIN m.chunks /\ m.top \notin S
      /\ z \in Nat /\ x < z /\ z < y /\ m.dv \notin S
      /\ SameRest(n, m) /\ SameTop(n, m) /\ SameBins(n, m)
      /\ Two(m.chunks, n.chunks, x, z, y, TRUE)
  BY DEF TwoInUse
<1>. USE <1>a
<1>1. Rebinned(n, m, S, {})
  BY NoneFree DEF SameBins, SameDv
<1>2. ASSUME NEW c, c = TRUE, Two(m.chunks, n.chunks, x, z, y, c)
      PROVE  /\ Sound(n) /\ Frame(n, m, S, {x, z})
             /\ n.chunks[x].size = z - x /\ n.chunks[x].c /\ n.chunks[z].size = y - z /\ n.chunks[z].c
  <2>1. TopOf(m.chunks, S, y, c, m.top, n.top, z)
    BY DEF TopOf, SameTop
  <2>2. TwoMade(m, X, x, z, y, S, c, {}, n)
    BY <1>1, <1>2, <2>1 DEF TwoMade
  <2>2a. TwoSounds(m, x, z, y, S, c, {}, n)
    BY <2>2, TwoSound
  <2>3. Sound(n) /\ Frame(n, m, S, {x, z} \ {}) /\ n.chunks[x].size = z - x /\ n.chunks[x].c
        /\ n.chunks[z].size = y - z /\ (n.chunks[z].c <=> c)
    BY <2>2a DEF TwoSounds
  <2>4. {x, z} \ {} = {x, z}
    OBVIOUS
  <2>. QED
    BY <1>2, <2>3, <2>4
<1>. QED
  BY <1>2, Zenon

\* A chunk in use, and behind it a free one.
SplitInUse(m, X, x, z, y, S, n) ==
    /\ Cleared(m, X, x, y, S) /\ y \in DOMAIN m.chunks /\ m.top \notin S
    /\ z \in Nat /\ x < z /\ z < y /\ m.chunks[y].c
    /\ SameRest(n, m) /\ SameTop(n, m)
    /\ \/ n.bins = m.bins \cup {[at |-> z, size |-> y - z]} /\ SameDv(n, m) /\ m.dv \notin S
       \/ n.bins = m.bins /\ n.dv = z /\ n.dvsize = y - z /\ (m.dv \in S \/ m.dv = NULL)
       \/ /\ n.bins = m.bins \cup {Dv(m)} /\ n.dv = z /\ n.dvsize = y - z
          /\ m.dv \notin S /\ m.dv # NULL
    /\ Two(m.chunks, n.chunks, x, z, y, FALSE)

\* A block becomes a chunk in use and a free one.
LEMMA MadeSplit ==
    ASSUME NEW m, NEW X, NEW x, NEW z, NEW y, NEW S, NEW n, SplitInUse(m, X, x, z, y, S, n)
    PROVE  Sound(n) /\ Frame(n, m, S, {x}) /\ n.chunks[x].size = z - x /\ n.chunks[x].c
<1>a. /\ Cleared(m, X, x, y, S) /\ y \in DOMAIN m.chunks /\ m.top \notin S
      /\ z \in Nat /\ x < z /\ z < y /\ m.chunks[y].c
      /\ SameRest(n, m) /\ SameTop(n, m)
      /\ \/ n.bins = m.bins \cup {[at |-> z, size |-> y - z]} /\ SameDv(n, m) /\ m.dv \notin S
         \/ n.bins = m.bins /\ n.dv = z /\ n.dvsize = y - z /\ (m.dv \in S \/ m.dv = NULL)
         \/ /\ n.bins = m.bins \cup {Dv(m)} /\ n.dv = z /\ n.dvsize = y - z
            /\ m.dv \notin S /\ m.dv # NULL
      /\ Two(m.chunks, n.chunks, x, z, y, FALSE)
  BY DEF SplitInUse
<1>. USE <1>a
<1>0. /\ S = DOMAIN m.chunks \cap (x..(y - 1)) /\ x \in S /\ x \in Nat /\ y \in Nat
      /\ m.top # NULL => m.top \in DOMAIN m.chunks
  BY BlockFacts DEF Cleared, Whole
<1>1. m.dv # NULL => /\ m.dv \in FreeAt(m.chunks) /\ m.dv \in DOMAIN m.chunks /\ m.dv # m.top
                     /\ m.dvsize = m.chunks[m.dv].size
  BY DEF Cleared, Binned, FreeAt
<1>2. z # NULL /\ z # m.top /\ (m.dv \notin S => z # m.dv)
  BY <1>0, <1>1 DEF NULL
<1>3. ASSUME NEW c, c = FALSE, Two(m.chunks, n.chunks, x, z, y, c)
      PROVE  Sound(n) /\ Frame(n, m, S, {x}) /\ n.chunks[x].size = z - x /\ n.chunks[x].c
  <2>1. TopOf(m.chunks, S, y, c, m.top, n.top, z)
    BY DEF TopOf, SameTop
  <2>2. n.chunks[z].size = y - z
    BY <1>3 DEF Two, Headed
  <2>3. Rebinned(n, m, S, {z})
    <3>1. CASE n.bins = m.bins \cup {[at |-> z, size |-> y - z]} /\ SameDv(n, m) /\ m.dv \notin S
      BY <1>2, <2>2, <3>1, FreeInBin
    <3>2. CASE n.bins = m.bins /\ n.dv = z /\ n.dvsize = y - z /\ (m.dv \in S \/ m.dv = NULL)
      BY <1>2, <2>2, <3>2, FreeIsDv
    <3>3. CASE /\ n.bins = m.bins \cup {Dv(m)} /\ n.dv = z /\ n.dvsize = y - z
               /\ m.dv \notin S /\ m.dv # NULL
      <4>1. n.chunks[m.dv].size = m.chunks[m.dv].size
        <5>1. \A q \in DOMAIN m.chunks : q < x \/ q > y => n.chunks[q] = m.chunks[q]
          BY <1>3 DEF Two, Else
        <5>2. y \in DOMAIN m.chunks => n.chunks[y].size = m.chunks[y].size
          BY <1>3 DEF Two, Told, Headed
        <5>3. m.dv \in Nat
          BY <1>1, <3>3, ChunkTypes DEF Cleared, Whole
        <5>. QED
          BY <1>0, <1>1, <3>3, <5>1, <5>2, <5>3
      <4>2. n.bins = m.bins \cup {[at |-> m.dv, size |-> n.chunks[m.dv].size]}
        BY <1>1, <3>3, <4>1 DEF Dv
      <4>. QED
        BY <1>1, <1>2, <2>2, <3>3, <4>2, FreeReplacesDv
    <3>. QED
      BY <3>1, <3>2, <3>3
  <2>4. TwoMade(m, X, x, z, y, S, c, {z}, n)
    BY <1>3, <2>1, <2>3 DEF TwoMade
  <2>4a. TwoSounds(m, x, z, y, S, c, {z}, n)
    BY <2>4, TwoSound
  <2>5. Sound(n) /\ Frame(n, m, S, {x, z} \ {z}) /\ n.chunks[x].size = z - x /\ n.chunks[x].c
    BY <2>4a DEF TwoSounds
  <2>6. {x, z} \ {z} = {x}
    BY <1>0
  <2>. QED
    BY <2>5, <2>6
<1>. QED
  BY <1>3, Zenon

\* A chunk in use, and behind it top.
TopIsSplit(m, X, x, z, y, S, n) ==
    /\ Cleared(m, X, x, y, S) /\ m.top \in S
    /\ y = After(m.chunks, m.top) /\ z \in Nat /\ x < z /\ z < y
    /\ m.dv \notin S /\ (z \notin DOMAIN m.chunks \/ z = m.top)
    /\ SameRest(n, m) /\ n.top = z /\ n.topsize = y - z /\ SameBins(n, m)
    /\ Two(m.chunks, n.chunks, x, z, y, FALSE)

\* Top becomes a chunk in use and what is left of top.
LEMMA MadeTopSplit ==
    ASSUME NEW m, NEW X, NEW x, NEW z, NEW y, NEW S, NEW n, TopIsSplit(m, X, x, z, y, S, n)
    PROVE  Sound(n) /\ Frame(n, m, S, {x}) /\ n.chunks[x].size = z - x /\ n.chunks[x].c
<1>a. /\ Cleared(m, X, x, y, S) /\ m.top \in S
      /\ y = After(m.chunks, m.top) /\ z \in Nat /\ x < z /\ z < y
      /\ m.dv \notin S /\ (z \notin DOMAIN m.chunks \/ z = m.top)
      /\ SameRest(n, m) /\ n.top = z /\ n.topsize = y - z /\ SameBins(n, m)
      /\ Two(m.chunks, n.chunks, x, z, y, FALSE)
  BY DEF TopIsSplit
<1>. USE <1>a
<1>0. x \in S /\ x \in Nat /\ Structure(m.chunks, m.top, m.segs, m.regions)
  BY BlockFacts DEF Cleared, Whole
<1>1. y \notin DOMAIN m.chunks
  <2>1. \A i \in 1..Len(m.segs) : m.segs[i].record # m.top
    BY <1>0, BlockFacts DEF Cleared, Block
  <2>2. m.top \in Ord(m.chunks)
    BY <1>0, BlockFacts DEF Cleared
  <2>. QED
    BY <1>0, <2>1, <2>2, BlockOf
<1>2. z # m.dv
  <2>1. m.dv # NULL => m.dv \in DOMAIN m.chunks /\ m.dv # m.top
    BY DEF Cleared, Binned, FreeAt
  <2>. QED
    BY <1>0, <2>1 DEF NULL
<1>3. ASSUME NEW c, c = FALSE, Two(m.chunks, n.chunks, x, z, y, c)
      PROVE  Sound(n) /\ Frame(n, m, S, {x}) /\ n.chunks[x].size = z - x /\ n.chunks[x].c
  <2>1. TopOf(m.chunks, S, y, c, m.top, n.top, z)
    BY <1>3 DEF TopOf
  <2>2. n.chunks[z].size = y - z
    BY <1>3 DEF Two, Headed
  <2>3. Rebinned(n, m, S, {z})
    BY <1>2, <2>2, FreeIsTop DEF SameBins, SameDv
  <2>4. TwoMade(m, X, x, z, y, S, c, {z}, n)
    BY <1>1, <1>3, <2>1, <2>3 DEF TwoMade
  <2>4a. TwoSounds(m, x, z, y, S, c, {z}, n)
    BY <2>4, TwoSound
  <2>5. Sound(n) /\ Frame(n, m, S, {x, z} \ {z}) /\ n.chunks[x].size = z - x /\ n.chunks[x].c
    BY <2>4a DEF TwoSounds
  <2>6. {x, z} \ {z} = {x}
    BY <1>0
  <2>. QED
    BY <2>5, <2>6
<1>. QED
  BY <1>3, Zenon

-----------------------------------------------------------------------------
(* Freeing a chunk: what it is joined with. *)

\* A free chunk is not the record of a segment.
LEMMA FreeNoRecord ==
    ASSUME NEW ch, NEW top, NEW segs, NEW rg, Structure(ch, top, segs, rg), NEW p \in FreeAt(ch)
    PROVE  /\ \A i \in 1..Len(segs) : segs[i].record # p
           /\ p \in Ord(ch) /\ p \notin SegmentRecords(segs) /\ p \in DOMAIN ch /\ p # NULL
<1>1. ASSUME NEW i \in 1..Len(segs), segs[i].record = p PROVE FALSE
  <2>1. SegmentOk(ch, top, segs[i])
    BY DEF Structure, SegmentsOk
  <2>2. p # NULL
    BY ChunkTypes DEF FreeAt, NULL
  <2>. QED
    BY <1>1, <2>1, <2>2 DEF SegmentOk, FreeAt
<1>. QED
  BY <1>1, ChunkTypes DEF SegmentRecords, FreeAt, NULL

\* The ends of a block are headers.
LEMMA BlockEnds ==
    ASSUME NEW ch, NEW top, NEW segs, NEW rg, Structure(ch, top, segs, rg),
           NEW x, NEW y, NEW S, Block(ch, segs, x, y, S)
    PROVE  Ends(ch, x, y)
<1>1. x \in DOMAIN ch /\ x \in Nat /\ y \in Nat /\ x < y /\ (y \in DOMAIN ch => ch[y].c \/ ch[y].p)
  BY BlockFacts
<1>2. \A q \in DOMAIN ch : q \in Nat /\ HeaderOk(ch[q]) /\ ch[q].size \in Nat
  BY ChunkTypes
<1>3. ASSUME y \in DOMAIN ch, NEW q \in DOMAIN ch PROVE q <= y \/ y + ch[y].size <= q
  <2>1. CASE ch[y].size = 0
    BY <1>1, <1>2, <1>3, <2>1
  <2>2. CASE ch[y].size # 0
    <3>1. y \in Ord(ch)
      BY <1>1, <1>2, <1>3, <2>2 DEF Ord
    <3>. QED
      BY <1>3, <3>1 DEF Structure, Layout, After
  <2>. QED
    BY <2>1, <2>2
<1>. QED
  BY <1>1, <1>2, <1>3 DEF Ends

\* What callers hold is not free.
LEMMA UsedNotFree ==
    ASSUME NEW m
    PROVE  Used(m) \cap FreeAt(m.chunks) = {}
  BY DEF Used, FreeAt, Direct

\* Only what was held can be taken away from it.
LEMMA FrameNarrow ==
    ASSUME NEW n, NEW m, NEW S, NEW T, Frame(n, m, S, T), NEW S2, S \cap Used(m) = S2 \cap Used(m)
    PROVE  Frame(n, m, S2, T)
  BY DEF Frame

\* A change of the bins before another change.
LEMMA FrameBins ==
    ASSUME NEW n, NEW o, NEW m, NEW S, NEW T, Frame(n, o, S, T), BinsOnly(o, m)
    PROVE  Frame(n, m, S, T)
<1>1. Used(o) = Used(m) /\ o.chunks = m.chunks /\ o.use_mmap = m.use_mmap
  BY DEF BinsOnly, SameRest, Used
<1>2. Counts(o, m)
  BY CountsSame DEF BinsOnly, SameRest
<1>3. Counts(n, m)
  BY <1>2 DEF Frame, Counts
<1>. QED
  BY <1>1, <1>3 DEF Frame

\* A free chunk: what is behind it is in use, unless it is top.
LEMMA BehindFree ==
    ASSUME NEW m, Whole(m), NEW p \in FreeAt(m.chunks)
    PROVE  LET y == After(m.chunks, p)
           IN /\ Block(m.chunks, m.segs, p, y, {p}) /\ m.chunks[p].p /\ ~m.chunks[p].c
              /\ p # m.top => y \in Ord(m.chunks) /\ y \in DOMAIN m.chunks
                              /\ m.chunks[y].c /\ ~m.chunks[y].p /\ m.chunks[y].size > 0
              /\ p = m.top => y \notin DOMAIN m.chunks
<1>. DEFINE ch == m.chunks
            y == After(ch, p)
<1>1. Structure(ch, m.top, m.segs, m.regions)
  BY DEF Whole
<1>2. p \in Ord(ch) /\ \A i \in 1..Len(m.segs) : m.segs[i].record # p
  BY <1>1, FreeNoRecord
<1>3. /\ Block(ch, m.segs, p, y, {p})
      /\ p # m.top => Tagged(ch, p, y) /\ y \in Ord(ch)
      /\ p = m.top => y \notin DOMAIN ch
  BY <1>1, <1>2, BlockOf
<1>4. ch[p].p /\ ~ch[p].c
  BY DEF FreeAt
<1>5. ASSUME p # m.top PROVE y \in DOMAIN ch /\ ch[y].c /\ ~ch[y].p /\ ch[y].size > 0
  BY <1>3, <1>4, <1>5 DEF Tagged, Ord
<1>. QED
  BY <1>3, <1>4, <1>5

\* What Forward starts from: the chunks from x up to y are to be free.
ToFree(m, X, x, y, S) ==
    /\ Cleared(m, X, x, y, S) /\ y \in Ord(m.chunks) /\ m.chunks[x].p
    /\ m.top \notin S /\ (m.dv \in S => m.dv = x)

\* A chunk is freed in front of one in use,
LEMMA AloneIs ==
    ASSUME NEW m, NEW X, NEW x, NEW y, NEW S, ToFree(m, X, x, y, S), m.chunks[y].c
    PROVE  LET n == Alone(m, x, y - x, y) IN Sound(n) /\ Frame(n, m, S, {})
<1>. DEFINE ch == m.chunks
            free == SetFreeWithPinuse(m, x, y - x, y)
            n == Alone(m, x, y - x, y)
<1>1. /\ Whole(m) /\ Cleared(m, X, x, y, S) /\ IsState(m) /\ Structure(ch, m.top, m.segs, m.regions)
      /\ y \in Ord(ch) /\ ch[x].p /\ m.top \notin S /\ (m.dv \in S => m.dv = x)
      /\ Block(ch, m.segs, x, y, S)
  BY DEF ToFree, Cleared, Whole
<1>2. y \in DOMAIN ch /\ ch[y].size > 0 /\ Ends(ch, x, y) /\ x \in S
  BY <1>1, BlockEnds, BlockFacts DEF Ord
<1>3. Wrote(free, m) /\ One(ch, free.chunks, x, y, FALSE)
  BY <1>1, <1>2, SetFreeWithPinuseIs
<1>. HIDE DEF free
<1>4. IsState(free) /\ SameRest(free, m) /\ SameBins(free, m) /\ SameTop(free, m)
  BY <1>3 DEF Wrote, SameRest
<1>5. /\ SameRest(n, m) /\ SameTop(n, m) /\ n.chunks = free.chunks
      /\ \/ n.bins = m.bins \cup {[at |-> x, size |-> y - x]} /\ SameDv(n, m) /\ m.dv \notin S
         \/ n.bins = m.bins /\ n.dv = x /\ n.dvsize = y - x /\ (m.dv \in S \/ m.dv = NULL)
  <2>1. CASE x = m.dv
    <3>1. n = SetDv(free, x, y - x)
      BY <2>1 DEF Alone, free
    <3>2. BinsOnly(n, free) /\ n.bins = free.bins /\ n.dv = x /\ n.dvsize = y - x
      BY <1>4, <3>1, SetDvIs
    <3>. QED
      BY <1>2, <1>4, <2>1, <3>2 DEF BinsOnly, SameRest, SameTop, SameBins
  <2>2. CASE x # m.dv
    <3>1. n = InsertChunk(free, x, y - x)
      BY <2>2 DEF Alone, free
    <3>2. BinsOnly(n, free) /\ SameDv(n, free) /\ n.bins = free.bins \cup {[at |-> x, size |-> y - x]}
      BY <1>4, <3>1, InsertIs
    <3>. QED
      BY <1>1, <1>4, <2>2, <3>2 DEF BinsOnly, SameRest, SameTop, SameBins, SameDv
  <2>. QED
    BY <2>1, <2>2
<1>. HIDE DEF n
<1>6. Sound(n) /\ Frame(n, m, S, {})
  <2>1. One(ch, n.chunks, x, y, FALSE)
    BY <1>3, <1>5, Zenon
  <2>. QED
    BY <1>1, <1>2, <1>5, <2>1, MadeFree
<1>. QED
  BY <1>6 DEF n

\* in front of top,
LEMMA IntoTopIs ==
    ASSUME NEW m, NEW X, NEW x, NEW y, NEW S, ToFree(m, X, x, y, S), y = m.top
    PROVE  LET n == IntoTop(m, x, y - x) IN Sound(n) /\ Frame(n, m, S, {})
<1>. DEFINE ch == m.chunks
            e == After(ch, y)
            T == S \cup {y}
            o == IF x = m.dv THEN SetDv(m, NULL, 0) ELSE m
            n == IntoTop(m, x, y - x)
<1>1. /\ Whole(m) /\ Cleared(m, X, x, y, S) /\ IsState(m) /\ Structure(ch, m.top, m.segs, m.regions)
      /\ y \in Ord(ch) /\ ch[x].p /\ m.top \notin S /\ (m.dv \in S => m.dv = x)
      /\ Block(ch, m.segs, x, y, S) /\ Binned(m, X)
  BY DEF ToFree, Cleared, Whole
<1>2. y # NULL /\ y \in FreeAt(ch) /\ y \in DOMAIN ch
  BY <1>1, ChunkTypes DEF NULL
<1>3. Block(ch, m.segs, y, e, {y}) /\ e \notin DOMAIN ch
  BY <1>1, <1>2, BehindFree
<1>4. Block(ch, m.segs, x, e, T)
  BY <1>1, <1>3, BlockJoin
<1>5. Ends(ch, x, e) /\ x \in S /\ x \in Nat /\ y \in Nat /\ e \in Nat /\ x < y /\ y < e /\ x # NULL
  BY <1>1, <1>2, <1>4, BlockEnds, BlockFacts, ChunkTypes DEF NULL
<1>6. m.topsize + (y - x) = e - x
  <2>1. m.topsize = ch[y].size /\ e = y + ch[y].size /\ ch[y].size \in Nat
    BY <1>1, <1>2, ChunkTypes DEF Binned, After
  <2>. QED
    BY <1>5, <2>1
<1>7. /\ BinsOnly(o, m) /\ o.bins = m.bins
      /\ (SameDv(o, m) /\ m.dv \notin T) \/ DvGone(o, m, T)
  <2>1. CASE x = m.dv
    BY <1>1, <1>5, <2>1, SetDvIs DEF DvGone
  <2>2. CASE x # m.dv
    <3>1. m.dv \notin T
      BY <1>1, <1>2, <2>2 DEF Binned
    <3>. QED
      BY <1>1, <2>2, <3>1 DEF BinsOnly, SameRest, SameTop, SameDv
  <2>. QED
    BY <2>1, <2>2
<1>8. n = SetTop(o, x, e - x)
  BY <1>6 DEF IntoTop
<1>. HIDE DEF o
<1>9. IsState(o) /\ o.chunks = ch
  BY <1>7 DEF BinsOnly, SameRest
<1>10. Topped(n, o, x, e - x) /\ One(ch, n.chunks, x, e, FALSE)
  <2>1. IsState(o) /\ Ends(o.chunks, x, e) /\ e \notin DOMAIN o.chunks /\ o.chunks[x].p
    BY <1>1, <1>3, <1>5, <1>9
  <2>2. LET k == SetTop(o, x, e - x) IN Topped(k, o, x, e - x) /\ One(o.chunks, k.chunks, x, e, FALSE)
    BY ONLY <2>1, SetTopIs
  <2>3. Topped(n, o, x, e - x) /\ One(o.chunks, n.chunks, x, e, FALSE)
    BY <1>8, <2>2
  <2>. QED
    BY <1>9, <2>3
<1>. HIDE DEF n
<1>11. Cleared(m, X, x, e, T)
  <2>1. T \cap FreeAt(ch) \subseteq X \cup {m.top, m.dv} /\ X \cap FreeAt(ch) \subseteq T
    BY <1>1 DEF Cleared
  <2>. QED
    BY <1>1, <1>4, <2>1 DEF Cleared
<1>12. Sound(n) /\ Frame(n, m, T, {})
  <2>1. /\ SameRest(n, m) /\ n.top = x /\ n.topsize = e - x /\ n.bins = m.bins
        /\ (SameDv(n, m) /\ m.dv \notin T) \/ DvGone(n, m, T)
    BY <1>7, <1>10 DEF Topped, BinsOnly, SameRest, SameBins, SameDv, DvGone
  <2>2. m.top \in T /\ e = After(m.chunks, m.top) /\ m.chunks[x].p
    BY <1>1
  <2>. HIDE DEF T, e
  <2>. QED
    BY <1>10, <1>11, <2>1, <2>2, MadeTop
<1>13. Frame(n, m, S, {})
  <2>1. T \cap Used(m) = S \cap Used(m)
    BY <1>2, UsedNotFree
  <2>. QED
    BY <1>12, <2>1, FrameNarrow
<1>. QED
  BY <1>12, <1>13 DEF n

\* in front of the designated victim,
LEMMA IntoDvIs ==
    ASSUME NEW m, NEW X, NEW x, NEW y, NEW S, ToFree(m, X, x, y, S), y = m.dv
    PROVE  LET n == IntoDv(m, x, y - x) IN Sound(n) /\ Frame(n, m, S, {})
<1>. DEFINE ch == m.chunks
            e == After(ch, y)
            T == S \cup {y}
            o == SetDv(m, x, e - x)
            n == IntoDv(m, x, y - x)
<1>1. /\ Whole(m) /\ Cleared(m, X, x, y, S) /\ IsState(m) /\ Structure(ch, m.top, m.segs, m.regions)
      /\ y \in Ord(ch) /\ ch[x].p /\ m.top \notin S /\ (m.dv \in S => m.dv = x)
      /\ Block(ch, m.segs, x, y, S) /\ Binned(m, X)
  BY DEF ToFree, Cleared, Whole
<1>2. y # NULL /\ y \in FreeAt(ch) /\ y \in DOMAIN ch /\ y # m.top /\ m.dvsize = ch[y].size
  BY <1>1, ChunkTypes DEF NULL, Binned
<1>3. /\ Block(ch, m.segs, y, e, {y}) /\ e \in DOMAIN ch
      /\ ch[e].c /\ ~ch[e].p /\ ch[e].size > 0
  BY <1>1, <1>2, BehindFree
<1>4. Block(ch, m.segs, x, e, T)
  BY <1>1, <1>3, BlockJoin
<1>5. Ends(ch, x, e) /\ x \in S /\ x \in Nat /\ y \in Nat /\ e \in Nat /\ x < y /\ y < e /\ x # NULL
  BY <1>1, <1>2, <1>4, BlockEnds, BlockFacts, ChunkTypes DEF NULL
<1>6. m.dvsize + (y - x) = e - x
  <2>1. m.dvsize = ch[y].size /\ e = y + ch[y].size /\ ch[y].size \in Nat
    BY <1>1, <1>2, ChunkTypes DEF Binned, After
  <2>. QED
    BY <1>5, <2>1
<1>7. BinsOnly(o, m) /\ o.bins = m.bins /\ o.dv = x /\ o.dvsize = e - x
  BY <1>1, SetDvIs
<1>8. n = SetSizeAndPinuseOfFree(o, x, e - x)
  BY <1>6 DEF IntoDv
<1>. HIDE DEF o
<1>9. IsState(o) /\ o.chunks = ch
  BY <1>7 DEF BinsOnly, SameRest
<1>10. Wrote(n, o) /\ One(ch, n.chunks, x, e, FALSE)
  <2>1. /\ IsState(o) /\ Ends(o.chunks, x, e) /\ e \in DOMAIN o.chunks /\ o.chunks[x].p
        /\ ~o.chunks[e].p /\ o.chunks[e].size > 0
    BY <1>1, <1>3, <1>5, <1>9
  <2>2. LET k == SetSizeAndPinuseOfFree(o, x, e - x) IN Wrote(k, o) /\ One(o.chunks, k.chunks, x, e, FALSE)
    BY ONLY <2>1, SetFreeIs
  <2>3. Wrote(n, o) /\ One(o.chunks, n.chunks, x, e, FALSE)
    BY <1>8, <2>2
  <2>. QED
    BY <1>9, <2>3
<1>. HIDE DEF n
<1>11. Cleared(m, X, x, e, T)
  <2>1. T \cap FreeAt(ch) \subseteq X \cup {m.top, m.dv} /\ X \cap FreeAt(ch) \subseteq T
    BY <1>1 DEF Cleared
  <2>. QED
    BY <1>1, <1>4, <2>1 DEF Cleared
<1>12. Sound(n) /\ Frame(n, m, T, {})
  <2>1. /\ SameRest(n, m) /\ SameTop(n, m) /\ n.dv = x /\ n.dvsize = e - x /\ n.bins = m.bins
    BY <1>7, <1>10 DEF Wrote, BinsOnly, SameRest, SameBins, SameTop
  <2>2. m.dv \in T /\ m.top \notin T /\ e \in DOMAIN m.chunks /\ m.chunks[x].p /\ m.chunks[e].c
    BY <1>1, <1>2, <1>3
  <2>. HIDE DEF T, e
  <2>. QED
    BY <1>10, <1>11, <2>1, <2>2, MadeFree
<1>13. Frame(n, m, S, {})
  <2>1. T \cap Used(m) = S \cap Used(m)
    BY <1>2, UsedNotFree
  <2>. QED
    BY <1>12, <2>1, FrameNarrow
<1>. QED
  BY <1>12, <1>13 DEF n

\* in front of any other free chunk,
LEMMA IntoFreeIs ==
    ASSUME NEW m, NEW X, NEW x, NEW y, NEW S, ToFree(m, X, x, y, S),
           ~m.chunks[y].c, y # m.top, y # m.dv
    PROVE  LET n == IntoFree(m, x, y - x, y) IN Sound(n) /\ Frame(n, m, S, {})
<1>. DEFINE ch == m.chunks
            e == After(ch, y)
            T == S \cup {y}
            Y == X \cup {y}
            u == UnlinkChunk(m, y, ch[y].size)
            joined == SetSizeAndPinuseOfFree(u, x, e - x)
            n == IntoFree(m, x, y - x, y)
<1>1. /\ Whole(m) /\ Cleared(m, X, x, y, S) /\ IsState(m) /\ Structure(ch, m.top, m.segs, m.regions)
      /\ y \in Ord(ch) /\ ch[x].p /\ m.top \notin S /\ (m.dv \in S => m.dv = x)
      /\ Block(ch, m.segs, x, y, S) /\ Binned(m, X)
      /\ S \cap FreeAt(ch) \subseteq X \cup {m.top, m.dv} /\ X \cap FreeAt(ch) \subseteq S
  BY DEF ToFree, Cleared, Whole
<1>2. /\ y \in FreeAt(ch) /\ y \in DOMAIN ch /\ y \in Nat /\ ch[y].size \in Nat
      /\ S = DOMAIN ch \cap (x..(y - 1)) /\ x \in Nat /\ x \in S /\ x < y
  BY <1>1, ChunkTypes, BlockFacts DEF Ord, FreeAt
<1>3. y \notin S
  BY <1>2
<1>4. y \in FreeAt(ch) \ ({m.top, m.dv} \cup X)
  BY <1>1, <1>2, <1>3
<1>5. /\ Whole(u) /\ Binned(u, Y) /\ BinsOnly(u, m) /\ SameDv(u, m)
  BY <1>1, <1>4, Unlinked
<1>6. /\ Block(ch, m.segs, y, e, {y}) /\ e \in DOMAIN ch
      /\ ch[e].c /\ ~ch[e].p /\ ch[e].size > 0
  BY <1>1, <1>2, BehindFree
<1>7. Block(ch, m.segs, x, e, T)
  BY <1>1, <1>6, BlockJoin
<1>8. Ends(ch, x, e) /\ e \in Nat /\ y < e
  BY <1>1, <1>6, <1>7, BlockEnds, BlockFacts
<1>9. (y - x) + ch[y].size = e - x /\ ChunkSize(m, y) = ch[y].size
  BY <1>2, <1>8 DEF After, ChunkSize, HeaderAt
<1>10. n = IF x = m.dv THEN SetDv(joined, x, e - x) ELSE InsertChunk(joined, x, e - x)
  BY <1>9 DEF IntoFree
<1>11. u.chunks = ch /\ u.top = m.top /\ u.dv = m.dv /\ u.segs = m.segs /\ u.dvsize = m.dvsize /\ IsState(u)
  BY <1>5 DEF BinsOnly, SameRest, SameTop, SameDv
<1>. HIDE DEF u
<1>12. Wrote(joined, u) /\ One(ch, joined.chunks, x, e, FALSE)
  <2>1. /\ IsState(u) /\ Ends(u.chunks, x, e) /\ e \in DOMAIN u.chunks /\ u.chunks[x].p
        /\ ~u.chunks[e].p /\ u.chunks[e].size > 0
    BY <1>1, <1>6, <1>8, <1>11
  <2>2. Wrote(joined, u) /\ One(u.chunks, joined.chunks, x, e, FALSE)
    BY ONLY <2>1, SetFreeIs
  <2>. QED
    BY <1>11, <2>2
<1>. HIDE DEF joined
<1>13. IsState(joined) /\ SameRest(joined, u) /\ SameBins(joined, u) /\ SameTop(joined, u)
  BY <1>12 DEF Wrote, SameRest
<1>14. /\ SameRest(n, u) /\ SameTop(n, u) /\ n.chunks = joined.chunks
       /\ \/ n.bins = u.bins \cup {[at |-> x, size |-> e - x]} /\ SameDv(n, u) /\ u.dv \notin T
          \/ n.bins = u.bins /\ n.dv = x /\ n.dvsize = e - x /\ (u.dv \in T \/ u.dv = NULL)
  <2>1. CASE x = m.dv
    <3>1. n = SetDv(joined, x, e - x)
      BY <1>10, <2>1
    <3>2. BinsOnly(n, joined) /\ n.bins = joined.bins /\ n.dv = x /\ n.dvsize = e - x
      BY <1>13, <3>1, SetDvIs
    <3>. QED
      BY <1>2, <1>11, <1>13, <2>1, <3>2 DEF BinsOnly, SameRest, SameTop, SameBins
  <2>2. CASE x # m.dv
    <3>1. n = InsertChunk(joined, x, e - x)
      BY <1>10, <2>2
    <3>2. BinsOnly(n, joined) /\ SameDv(n, joined) /\ n.bins = joined.bins \cup {[at |-> x, size |-> e - x]}
      BY <1>13, <3>1, InsertIs
    <3>3. u.dv \notin T
      BY <1>1, <1>11, <2>2
    <3>. QED
      BY <1>13, <3>2, <3>3 DEF BinsOnly, SameRest, SameTop, SameBins, SameDv
  <2>. QED
    BY <2>1, <2>2
<1>. HIDE DEF n
<1>15. Cleared(u, Y, x, e, T)
  <2>1. T \cap FreeAt(ch) \subseteq Y \cup {u.top, u.dv} /\ Y \cap FreeAt(ch) \subseteq T
    BY <1>1, <1>11
  <2>. QED
    BY <1>5, <1>7, <1>11, <2>1 DEF Cleared
<1>16. Sound(n) /\ Frame(n, u, T, {})
  <2>1. e \in DOMAIN u.chunks /\ u.top \notin T /\ u.chunks[x].p /\ u.chunks[e].c
    BY <1>1, <1>6, <1>11
  <2>2. One(u.chunks, n.chunks, x, e, FALSE)
    BY <1>11, <1>12, <1>14, Zenon
  <2>. HIDE DEF T, Y, e
  <2>. QED
    BY <1>14, <1>15, <2>1, <2>2, MadeFree
<1>17. Frame(n, m, S, {})
  <2>1. T \cap Used(m) = S \cap Used(m)
    BY <1>2, UsedNotFree
  <2>2. Frame(n, m, T, {})
    BY <1>5, <1>16, FrameBins
  <2>. QED
    BY <2>1, <2>2, FrameNarrow
<1>. QED
  BY <1>16, <1>17 DEF n

\* and so in front of whatever is behind it.
LEMMA ForwardIs ==
    ASSUME NEW m, NEW X, NEW x, NEW y, NEW S, ToFree(m, X, x, y, S)
    PROVE  LET n == Forward(m, x, y - x) IN Sound(n) /\ Frame(n, m, S, {})
<1>1. y \in Ord(m.chunks) /\ Structure(m.chunks, m.top, m.segs, m.regions) /\ Block(m.chunks, m.segs, x, y, S)
  BY DEF ToFree, Cleared, Whole
<1>2. y \in DOMAIN m.chunks /\ HeaderAt(m, y).c = m.chunks[y].c
  BY <1>1 DEF Ord, HeaderAt
<1>3. x \in Nat /\ y \in Nat /\ x < y
  BY <1>1, BlockFacts
<1>4. x + (y - x) = y
  BY <1>3
<1>5. m.top # NULL => m.top \in FreeAt(m.chunks)
  BY <1>1, ChunkTypes
<1>6. m.dv # NULL => m.dv \in FreeAt(m.chunks)
  BY DEF ToFree, Cleared, Binned
<1>7. y # NULL
  BY <1>3 DEF NULL
<1>8. CASE m.chunks[y].c
  BY <1>2, <1>4, <1>8, AloneIs DEF Forward
<1>9. CASE ~m.chunks[y].c /\ y = m.top
  BY <1>2, <1>4, <1>9, IntoTopIs DEF Forward
<1>10. CASE ~m.chunks[y].c /\ y # m.top /\ y = m.dv
  BY <1>2, <1>4, <1>10, IntoDvIs DEF Forward
<1>11. CASE ~m.chunks[y].c /\ y # m.top /\ y # m.dv
  BY <1>2, <1>4, <1>11, IntoFreeIs DEF Forward
<1>. QED
  BY <1>8, <1>9, <1>10, <1>11

\* What a chunk in use and one that is held are.
LEMMA UsedIs ==
    ASSUME NEW m, Whole(m), NEW p \in Used(m)
    PROVE  /\ p \in DOMAIN m.chunks /\ p \in Nat \ {0} /\ p # NULL /\ p # m.top
           /\ p \notin FreeAt(m.chunks) /\ m.least_addr <= p
           /\ HeaderOk(m.chunks[p]) /\ m.chunks[p].size \in Nat \ {0}
           /\ m.chunks[p].c <=> p \in Ord(m.chunks)
           /\ ~m.chunks[p].c <=> p \in Direct(m.chunks)
           /\ HeaderAt(m, p) = m.chunks[p] /\ ChunkSize(m, p) = m.chunks[p].size
           /\ IsInuse(m, p) /\ (IsMmapped(m, p) <=> ~m.chunks[p].c) /\ OkAddress(m, p)
           /\ \A i \in 1..Len(m.segs) : m.segs[i].record # p
<1>. DEFINE ch == m.chunks
<1>1. Structure(ch, m.top, m.segs, m.regions) /\ Low(m)
  BY DEF Whole
<1>2. p \in DOMAIN ch /\ p \notin FreeAt(ch) /\ (p \in Ord(ch) \/ p \in Direct(ch)) /\ p \notin SegmentRecords(m.segs)
  BY <1>1, ChunkTypes DEF Used
<1>3. /\ p \in Nat \ {0} /\ HeaderOk(ch[p]) /\ ch[p].size \in Nat \ {0}
      /\ ch[p].c \in BOOLEAN /\ ch[p].p \in BOOLEAN
  BY <1>1, <1>2, ChunkTypes DEF Ord
<1>4. p # NULL /\ p # m.top
  BY <1>1, <1>2, <1>3, ChunkTypes DEF NULL
<1>5. (ch[p].c <=> p \in Ord(ch)) /\ (~ch[p].c <=> p \in Direct(ch))
  BY <1>2, <1>3 DEF Ord, Direct, FreeAt
<1>6. HeaderAt(m, p) = ch[p] /\ ChunkSize(m, p) = ch[p].size
  BY <1>2 DEF HeaderAt, ChunkSize
<1>7. IsInuse(m, p) /\ (IsMmapped(m, p) <=> ~ch[p].c)
  BY <1>2, <1>5, <1>6 DEF IsInuse, IsMmapped, Direct, FreeAt
<1>8. m.least_addr <= p /\ OkAddress(m, p)
  BY <1>1, <1>2, <1>3 DEF Low, OkAddress
<1>9. \A i \in 1..Len(m.segs) : m.segs[i].record # p
  BY <1>2, <1>4 DEF SegmentRecords
<1>. QED
  BY <1>2, <1>3, <1>4, <1>5, <1>6, <1>7, <1>8, <1>9

\* A chunk in use that is held: what is behind it is a chunk.
LEMMA BehindUsed ==
    ASSUME NEW m, Whole(m), NEW p \in Used(m), m.chunks[p].c
    PROVE  LET y == After(m.chunks, p)
           IN /\ Block(m.chunks, m.segs, p, y, {p}) /\ y \in Ord(m.chunks) /\ y \in DOMAIN m.chunks
              /\ m.chunks[y].p /\ HeaderAt(m, y) = m.chunks[y] /\ ChunkSize(m, y) = m.chunks[y].size
              /\ y \in Nat /\ p < y /\ y = p + m.chunks[p].size /\ m.least_addr <= y /\ OkAddress(m, y)
              /\ \E i \in 1..Len(m.segs) : Holds(m.segs[i], p) /\ Holds(m.segs[i], y)
<1>. DEFINE ch == m.chunks
            y == After(ch, p)
<1>1. Structure(ch, m.top, m.segs, m.regions) /\ Low(m)
  BY DEF Whole
<1>2. p \in Ord(ch) /\ p # m.top /\ \A i \in 1..Len(m.segs) : m.segs[i].record # p
  BY UsedIs
<1>3. /\ Block(ch, m.segs, p, y, {p}) /\ Tagged(ch, p, y) /\ y \in Ord(ch)
      /\ \E i \in 1..Len(m.segs) : Holds(m.segs[i], p) /\ Holds(m.segs[i], y)
  BY <1>1, <1>2, BlockOf
<1>4. y \in DOMAIN ch /\ ch[y].p
  BY <1>3 DEF Tagged
<1>5. p \in Nat /\ y \in Nat /\ p < y
  BY <1>1, <1>2, ChunkTypes
<1>6. m.least_addr <= y
  BY <1>1, <1>4 DEF Low
<1>7. OkAddress(m, y)
  BY <1>1, <1>5, <1>6 DEF OkAddress, Low
<1>. QED
  BY <1>3, <1>4, <1>5, <1>6, <1>7 DEF HeaderAt, ChunkSize, After

\* dispose_chunk keeps the heap sound and takes the chunk from its holder, no other one.
LEMMA DisposeIs ==
    ASSUME NEW m, Sound(m), NEW p \in Used(m), m.chunks[p].c
    PROVE  LET n == DisposeChunk(m, p) IN Sound(n) /\ Frame(n, m, {p}, {})
<1>. DEFINE ch == m.chunks
            y == After(ch, p)
            b == Backward(m, p, ch[p].size)
            n == DisposeChunk(m, p)
<1>1. Whole(m) /\ Binned(m, {}) /\ IsState(m) /\ Structure(ch, m.top, m.segs, m.regions) /\ Low(m)
  BY DEF Sound, Whole
<1>2. /\ p \in DOMAIN ch /\ p \in Nat \ {0} /\ p \in Ord(ch) /\ p # m.top /\ p \notin FreeAt(ch)
      /\ ch[p].size \in Nat \ {0} /\ ChunkSize(m, p) = ch[p].size /\ ~IsMmapped(m, p)
      /\ HeaderAt(m, p) = ch[p]
  BY <1>1, UsedIs
<1>3. /\ Block(ch, m.segs, p, y, {p}) /\ y \in Ord(ch) /\ y \in DOMAIN ch
      /\ y \in Nat /\ p < y /\ y = p + ch[p].size /\ m.least_addr <= y
  BY <1>1, BehindUsed
<1>4. n = Forward(Check(b.m, OkAddress(b.m, b.at + b.size)), b.at, b.size)
  BY <1>2 DEF DisposeChunk
<1>5. p # m.dv /\ (m.dv # NULL => m.dv \in FreeAt(ch) /\ m.dv # m.top)
  BY <1>1, <1>2 DEF Binned, NULL
<1>. HIDE DEF y, n
<1>6. CASE ch[p].p
  <2>1. b = [m |-> m, at |-> p, size |-> ch[p].size]
    BY <1>2, <1>6 DEF Backward
  <2>2. b.m = m /\ b.at = p /\ b.size = y - p /\ b.at + b.size = y
    BY <1>2, <1>3, <2>1
  <2>. HIDE DEF b
  <2>3. n = Forward(m, p, y - p)
    <3>1. Check(b.m, OkAddress(b.m, b.at + b.size)) = m
      BY <1>3, <2>2 DEF Check, OkAddress
    <3>. QED
      BY <1>4, <2>2, <3>1
  <2>4. ToFree(m, {}, p, y, {p})
    <3>1. Cleared(m, {}, p, y, {p})
      BY <1>1, <1>2, <1>3 DEF Cleared
    <3>. QED
      BY <1>2, <1>3, <1>5, <1>6, <3>1 DEF ToFree
  <2>. QED
    BY <2>3, <2>4, ForwardIs DEF n
<1>7. CASE ~ch[p].p
  <2>. DEFINE prev == p - ch[p].foot
              S == {prev} \cup {p}
              X == IF prev = m.dv THEN {} ELSE {prev}
              o == IF prev = m.dv THEN m ELSE UnlinkChunk(m, prev, ch[p].foot)
  <2>1. prev \in FreeAt(ch) \ {m.top} /\ prev < p /\ After(ch, prev) = p /\ ch[prev].size = ch[p].foot
    BY <1>1, <1>2, <1>7, BackOf
  <2>2. prev \in DOMAIN ch /\ prev \in Nat /\ Block(ch, m.segs, prev, p, {prev}) /\ ch[prev].p /\ prev \notin Used(m)
    <3>. HIDE DEF prev
    <3>1. Block(ch, m.segs, prev, After(ch, prev), {prev}) /\ ch[prev].p
      BY <1>1, <2>1, BehindFree
    <3>2. prev \in DOMAIN ch /\ prev \in Nat
      BY <1>1, <2>1, ChunkTypes
    <3>3. prev \notin Used(m)
      BY <2>1, UsedNotFree
    <3>. QED
      BY <2>1, <3>1, <3>2, <3>3
  <2>3. Check(m, OkAddress(m, prev)) = m
    BY <1>1, <2>2 DEF Check, OkAddress, Low
  <2>4. b = [m |-> o, at |-> prev, size |-> ch[p].size + ch[p].foot]
    BY <1>2, <1>7, <2>3 DEF Backward
  <2>5. ch[p].size + ch[p].foot = y - prev
    <3>1. ch[p].foot \in Nat
      BY <1>1, <1>2, ChunkTypes
    <3>. QED
      BY <1>2, <1>3, <3>1
  <2>6. b.m = o /\ b.at = prev /\ b.size = y - prev /\ b.at + b.size = y
    BY <1>3, <2>2, <2>4, <2>5
  <2>7. /\ Whole(o) /\ Binned(o, X) /\ BinsOnly(o, m) /\ o.dv = m.dv
    <3>1. CASE prev = m.dv
      BY <1>1, <3>1 DEF BinsOnly, SameRest, SameTop
    <3>2. CASE prev # m.dv
      <4>1. prev \in FreeAt(ch) \ ({m.top, m.dv} \cup {})
        BY <2>1, <3>2
      <4>2. o = UnlinkChunk(m, prev, ch[p].foot) /\ X = {} \cup {prev}
        BY <3>2
      <4>. HIDE DEF o, X, prev
      <4>3. Whole(o) /\ Binned(o, {} \cup {prev}) /\ BinsOnly(o, m) /\ SameDv(o, m)
        BY <1>1, <2>1, <4>1, <4>2, Unlinked
      <4>. QED
        BY <4>2, <4>3 DEF SameDv
    <3>. QED
      BY <3>1, <3>2
  <2>8. o.chunks = ch /\ o.top = m.top /\ o.segs = m.segs /\ o.least_addr = m.least_addr
    BY <2>7 DEF BinsOnly, SameRest, SameTop
  <2>9. Block(ch, m.segs, prev, y, S)
    BY <1>1, <1>3, <2>2, BlockJoin
  <2>. HIDE DEF b, o
  <2>10. n = Forward(o, prev, y - prev)
    <3>1. OkAddress(o, y)
      BY <1>1, <1>3, <2>8 DEF OkAddress, Low
    <3>2. Check(b.m, OkAddress(b.m, b.at + b.size)) = o
      BY SMTT(30), <2>6, <3>1 DEF Check
    <3>. QED
      BY <1>4, <2>6, <3>2
  <2>11. ToFree(o, X, prev, y, S)
    <3>1. Cleared(o, X, prev, y, S)
      <4>1. S \cap FreeAt(ch) \subseteq X \cup {m.top, m.dv} /\ X \cap FreeAt(ch) \subseteq S
        BY <1>2
      <4>. QED
        BY <2>7, <2>8, <2>9, <4>1 DEF Cleared
    <3>2. m.top \notin S /\ (m.dv \in S => m.dv = prev)
      BY <1>2, <1>5, <2>1
    <3>. QED
      BY <1>3, <2>2, <2>7, <2>8, <3>1, <3>2 DEF ToFree
  <2>12. Sound(n) /\ Frame(n, o, S, {})
    BY <2>10, <2>11, ForwardIs DEF n
  <2>13. Frame(n, m, S, {})
    BY <2>7, <2>12, FrameBins
  <2>14. S \cap Used(m) = {p} \cap Used(m)
    BY <2>2
  <2>15. Frame(n, m, {p}, {})
    BY <2>13, <2>14, FrameNarrow
  <2>. QED
    BY <2>12, <2>15 DEF n
<1>. QED
  BY <1>6, <1>7

-----------------------------------------------------------------------------
(* Taking a chunk: from a bin, the designated victim or top. *)

\* A place inside of a block of one chunk.
LEMMA BlockInside ==
    ASSUME NEW ch, NEW top, NEW segs, NEW rg, Structure(ch, top, segs, rg),
           NEW x, NEW y, Block(ch, segs, x, y, {x}), NEW z \in Nat, x < z, z < y
    PROVE  Inside(ch, x, z, y) /\ z \notin DOMAIN ch
<1>1. Ends(ch, x, y) /\ x \in Nat /\ y \in Nat /\ {x} = DOMAIN ch \cap (x..(y - 1))
  BY BlockEnds, BlockFacts
<1>2. z \notin DOMAIN ch
  BY <1>1
<1>. QED
  BY <1>1, <1>2 DEF Inside

\* p has room for nb; a mapped chunk has one unit less to give.
Fits(n, p, nb) == (IF n.chunks[p].c THEN nb ELSE nb + 1) <= n.chunks[p].size

\* p was taken for nb.
Took(n, m, p, nb) ==
    /\ Sound(n) /\ Frame(n, m, {}, {p})
    /\ p \notin Used(m) /\ p # NULL
    /\ Fits(n, p, nb) /\ (~m.use_mmap => n.chunks[p].c) /\ (n.chunks[p].c => n.chunks[p].p)

\* A chunk that is made one in use, after a change of the bins, is taken.
LEMMA TookChunk ==
    ASSUME NEW m, NEW o, NEW n, NEW p, NEW nb, Sound(n), Frame(n, o, {p}, {p}), BinsOnly(o, m),
           p \notin Used(m), p # NULL, n.chunks[p].c, n.chunks[p].p, nb <= n.chunks[p].size
    PROVE  Took(n, m, p, nb)
<1>1. Frame(n, m, {p}, {p})
  BY FrameBins
<1>2. {p} \cap Used(m) = {} \cap Used(m)
  OBVIOUS
<1>3. Frame(n, m, {}, {p})
  BY <1>1, <1>2, FrameNarrow
<1>. QED
  BY <1>3 DEF Took, Fits

\* Nothing changed.
LEMMA SameIsBinsOnly ==
    ASSUME NEW m, IsState(m)
    PROVE  BinsOnly(m, m)
  BY DEF BinsOnly, SameRest, SameTop

\* A chunk of a bin is taken, and what is left of it given back.
LEMMA SplitChunkIs ==
    ASSUME NEW m, Sound(m), NEW nb \in Nat, nb >= MinChunk, NEW b \in Picks(m, nb)
    PROVE  Took(SplitChunk(m, b, nb), m, b.at, nb)
<1>. DEFINE ch == m.chunks
            p == b.at
            y == After(ch, p)
            z == p + nb
            u == UnlinkChunk(m, p, ch[p].size)
            split == SetSizeAndPinuseOfFree(SetSizeAndPinuseOfInuse(u, p, z - p), z, y - z)
            n == SplitChunk(m, b, nb)
<1>1. Whole(m) /\ Binned(m, {}) /\ IsState(m) /\ Structure(ch, m.top, m.segs, m.regions)
  BY DEF Sound, Whole
<1>2. b \in m.bins /\ nb <= b.size /\ (IsSmall(nb) => (b.size <= nb + NextBin \/ nb > m.dvsize))
  BY DEF Picks
<1>3. p \in FreeAt(ch) \ ({m.top, m.dv} \cup {}) /\ b.size = ch[p].size
  BY <1>1, <1>2 DEF Binned, Entries
<1>4. /\ p \in DOMAIN ch /\ p \in Nat /\ p # NULL /\ p \notin Used(m) /\ ch[p].size \in Nat
      /\ y \in Nat /\ y = p + ch[p].size
  BY <1>1, <1>3, ChunkTypes, UsedNotFree DEF FreeAt, NULL, After
<1>5. /\ Block(ch, m.segs, p, y, {p}) /\ ch[p].p /\ y \in DOMAIN ch
      /\ ch[y].c /\ ~ch[y].p /\ ch[y].size > 0
  BY <1>1, <1>3, BehindFree
<1>6. Whole(u) /\ Binned(u, {} \cup {p}) /\ BinsOnly(u, m) /\ SameDv(u, m)
  <2>. HIDE DEF u, p
  <2>. QED
    BY <1>1, <1>3, Unlinked DEF u
<1>7. u.chunks = ch /\ u.top = m.top /\ u.dv = m.dv /\ u.segs = m.segs /\ u.dvsize = m.dvsize /\ IsState(u)
  BY <1>6 DEF BinsOnly, SameRest, SameTop, SameDv
<1>. HIDE DEF u
<1>8. Cleared(u, {} \cup {p}, p, y, {p})
  BY <1>5, <1>6, <1>7 DEF Cleared
<1>9. Ends(ch, p, y)
  BY <1>1, <1>5, BlockEnds
<1>10. u.top \notin {p} /\ u.dv \notin {p} /\ y \in DOMAIN u.chunks /\ u.chunks[y].c
  BY <1>3, <1>5, <1>7
<1>. HIDE DEF n, split, y
<1>11. CASE b.size - nb < MinChunk
  <2>1. n = SetInuseAndPinuse(u, p, y - p)
    <3>1. y - p = ch[p].size
      BY <1>4
    <3>. QED
      BY <1>3, <1>11, <3>1 DEF n, SplitChunk, u
  <2>2. Wrote(n, u) /\ One(u.chunks, n.chunks, p, y, TRUE)
    BY <1>5, <1>7, <1>9, <2>1, SetInuseAndPinuseIs
  <2>3. Sound(n) /\ Frame(n, u, {p}, {p}) /\ n.chunks[p].size = y - p /\ n.chunks[p].c
    BY <1>8, <1>10, <2>2, MadeInuse DEF Wrote, SameBins, SameDv
  <2>. QED
    <3>1. nb <= n.chunks[p].size
      BY <1>2, <1>3, <1>4, <2>3
    <3>1a. n.chunks[p].p
      BY <1>5, <1>7, <2>2 DEF One, Headed
    <3>2. Took(n, m, p, nb)
      BY <1>4, <1>6, <2>3, <3>1, <3>1a, TookChunk
    <3>. QED
      BY <3>2 DEF n
<1>12. CASE b.size - nb >= MinChunk
  <2>1. z \in Nat /\ p < z /\ z < y /\ z - p = nb /\ y - z = b.size - nb
    BY <1>3, <1>4, <1>12 DEF MinChunk
  <2>2. n = IF IsSmall(nb) THEN ReplaceDv(split, z, y - z) ELSE InsertChunk(split, z, y - z)
    BY <1>3, <1>4, <1>12, <2>1 DEF n, SplitChunk, u, split, MinChunk
  <2>3. Inside(ch, p, z, y)
    BY <1>1, <1>5, <2>1, BlockInside
  <2>4. Wrote(split, u) /\ Two(u.chunks, split.chunks, p, z, y, FALSE)
    BY <1>5, <1>7, <2>3, SplitIs DEF split
  <2>. HIDE DEF z
  <2>5. IsState(split) /\ SameRest(split, u) /\ SameBins(split, u) /\ SameTop(split, u)
    BY <2>4 DEF Wrote, SameRest
  <2>6. /\ SameRest(n, u) /\ SameTop(n, u) /\ n.chunks = split.chunks
        /\ \/ n.bins = u.bins \cup {[at |-> z, size |-> y - z]} /\ SameDv(n, u) /\ u.dv \notin {p}
           \/ n.bins = u.bins /\ n.dv = z /\ n.dvsize = y - z /\ (u.dv \in {p} \/ u.dv = NULL)
           \/ /\ n.bins = u.bins \cup {Dv(u)} /\ n.dv = z /\ n.dvsize = y - z
              /\ u.dv \notin {p} /\ u.dv # NULL
    <3>1. CASE IsSmall(nb)
      <4>1. n = ReplaceDv(split, z, y - z)
        BY <2>2, <3>1
      <4>2. m.dv # NULL => m.dvsize \in Nat \ {0}
        BY <1>1, ChunkTypes DEF Binned, Ord
      <4>3. m.dv = NULL => m.dvsize = 0
        BY <1>1 DEF Binned
      <4>4. split.dvsize # 0 => IsSmall(split.dvsize)
        <5>1. nb > m.dvsize
          BY <1>2, <1>3, <1>4, <1>12, <3>1, GranularityAssumption DEF MinChunk
        <5>2. m.dvsize < MinLarge
          BY <3>1, <4>2, <4>3, <5>1, GranularityAssumption DEF IsSmall
        <5>. QED
          BY <1>7, <2>5, <5>2 DEF SameBins, IsSmall
      <4>5. /\ BinsOnly(n, split) /\ n.dv = z /\ n.dvsize = y - z
            /\ n.bins = IF split.dvsize # 0 THEN split.bins \cup {[at |-> split.dv, size |-> split.dvsize]} ELSE split.bins
        BY <2>5, <4>1, <4>4, ReplaceDvIs
      <4>6. /\ n.dv = z /\ n.dvsize = y - z
            /\ n.bins = IF u.dvsize # 0 THEN u.bins \cup {Dv(u)} ELSE u.bins
        BY <2>5, <4>5 DEF SameBins, Dv
      <4>7. SameRest(n, u) /\ SameTop(n, u) /\ n.chunks = split.chunks
        BY <2>5, <4>5 DEF BinsOnly, SameRest, SameTop
      <4>. QED
        BY <1>7, <1>10, <4>2, <4>3, <4>6, <4>7
    <3>2. CASE ~IsSmall(nb)
      <4>1. n = InsertChunk(split, z, y - z)
        BY <2>2, <3>2
      <4>2. BinsOnly(n, split) /\ SameDv(n, split) /\ n.bins = split.bins \cup {[at |-> z, size |-> y - z]}
        BY <2>5, <4>1, InsertIs
      <4>. QED
        BY <1>10, <2>5, <4>2 DEF BinsOnly, SameRest, SameTop, SameBins, SameDv
    <3>. QED
      BY <3>1, <3>2
  <2>7. Two(u.chunks, n.chunks, p, z, y, FALSE)
    BY <2>4, <2>6, Zenon
  <2>8. z \in Nat /\ p < z /\ z < y
    BY <2>1
  <2>9. Sound(n) /\ Frame(n, u, {p}, {p}) /\ n.chunks[p].size = z - p /\ n.chunks[p].c
    <3>1. SplitInUse(u, {} \cup {p}, p, z, y, {p}, n)
      BY <1>8, <1>10, <2>6, <2>7, <2>8 DEF SplitInUse
    <3>. QED
      BY <3>1, MadeSplit
  <2>. QED
    <3>1. nb <= n.chunks[p].size
      BY <2>1, <2>9
    <3>1a. n.chunks[p].p
      BY <1>5, <1>7, <2>7 DEF Two, Headed
    <3>2. Took(n, m, p, nb)
      BY <1>4, <1>6, <2>9, <3>1, <3>1a, TookChunk
    <3>. QED
      BY <3>2 DEF n
<1>13. b.size \in Nat
  BY <1>3, <1>4
<1>. QED
  BY <1>11, <1>12, <1>13 DEF MinChunk

\* The designated victim is taken, or split.
LEMMA FromDvIs ==
    ASSUME NEW m, Sound(m), NEW nb \in Nat, nb >= MinChunk, nb <= m.dvsize
    PROVE  Took(FromDv(m, nb), m, m.dv, nb)
<1>. DEFINE ch == m.chunks
            p == m.dv
            y == After(ch, p)
            z == p + nb
            n == FromDv(m, nb)
<1>1. Whole(m) /\ Binned(m, {}) /\ IsState(m) /\ Structure(ch, m.top, m.segs, m.regions)
  BY DEF Sound, Whole
<1>2. p # NULL /\ p \in FreeAt(ch) /\ p # m.top /\ m.dvsize = ch[p].size
  BY <1>1 DEF Binned, MinChunk
<1>4. /\ p \in DOMAIN ch /\ p \in Nat /\ p \notin Used(m) /\ ch[p].size \in Nat
      /\ y \in Nat /\ y = p + ch[p].size
  BY <1>1, <1>2, ChunkTypes, UsedNotFree DEF FreeAt, After
<1>5. /\ Block(ch, m.segs, p, y, {p}) /\ ch[p].p /\ y \in DOMAIN ch
      /\ ch[y].c /\ ~ch[y].p /\ ch[y].size > 0
  BY <1>1, <1>2, BehindFree
<1>6. Cleared(m, {}, p, y, {p})
  BY <1>1, <1>5 DEF Cleared
<1>7. Ends(ch, p, y) /\ BinsOnly(m, m)
  BY <1>1, <1>5, BlockEnds, SameIsBinsOnly
<1>8. m.top \notin {p} /\ m.dv \in {p}
  BY <1>2
<1>. HIDE DEF n, y
<1>11. CASE m.dvsize - nb < MinChunk
  <2>. DEFINE o == SetDv(m, NULL, 0)
  <2>1. n = SetInuseAndPinuse(o, p, y - p)
    <3>1. y - p = m.dvsize
      BY <1>2, <1>4
    <3>2. ~(m.dvsize - nb >= MinChunk)
      BY <1>2, <1>4, <1>11 DEF MinChunk
    <3>. QED
      BY <3>1, <3>2 DEF n, FromDv
  <2>2. BinsOnly(o, m) /\ o.bins = m.bins /\ o.dv = NULL /\ o.dvsize = 0
    BY <1>1, SetDvIs
  <2>. HIDE DEF o
  <2>3. o.chunks = ch /\ IsState(o)
    BY <2>2 DEF BinsOnly, SameRest
  <2>4. Wrote(n, o) /\ One(o.chunks, n.chunks, p, y, TRUE)
    BY <1>5, <1>7, <2>1, <2>3, SetInuseAndPinuseIs
  <2>5. SameRest(n, m) /\ SameTop(n, m) /\ n.bins = m.bins /\ DvGone(n, m, {p})
    BY <1>8, <2>2, <2>4 DEF Wrote, BinsOnly, SameRest, SameTop, SameBins, DvGone
  <2>6. One(m.chunks, n.chunks, p, y, TRUE)
    BY <2>3, <2>4, Zenon
  <2>7. Sound(n) /\ Frame(n, m, {p}, {p}) /\ n.chunks[p].size = y - p /\ n.chunks[p].c
    BY <1>5, <1>6, <1>8, <2>5, <2>6, MadeInuse
  <2>. QED
    <3>1. nb <= n.chunks[p].size
      BY <1>2, <1>4, <2>7
    <3>1a. n.chunks[p].p
      BY <1>5, <2>6 DEF One, Headed
    <3>2. Took(n, m, p, nb)
      BY <1>2, <1>4, <1>7, <2>7, <3>1, <3>1a, TookChunk
    <3>. QED
      BY <3>2 DEF n
<1>12. CASE m.dvsize - nb >= MinChunk
  <2>1. z \in Nat /\ p < z /\ z < y /\ z - p = nb /\ y - z = m.dvsize - nb
    BY <1>2, <1>4, <1>12 DEF MinChunk
  <2>. DEFINE o == SetDv(m, z, y - z)
  <2>2. n = SetSizeAndPinuseOfInuse(SetSizeAndPinuseOfFree(o, z, y - z), p, z - p)
    BY <1>12, <2>1 DEF n, FromDv
  <2>. HIDE DEF z
  <2>3. BinsOnly(o, m) /\ o.bins = m.bins /\ o.dv = z /\ o.dvsize = y - z
    BY <1>1, SetDvIs
  <2>. HIDE DEF o
  <2>4. o.chunks = ch /\ IsState(o)
    BY <2>3 DEF BinsOnly, SameRest
  <2>5. Inside(o.chunks, p, z, y)
    BY <1>1, <1>5, <2>1, <2>4, BlockInside
  <2>6. Wrote(n, o) /\ Two(o.chunks, n.chunks, p, z, y, FALSE)
    BY <1>5, <2>2, <2>4, <2>5, SplitVictimIs
  <2>7. SameRest(n, m) /\ SameTop(n, m) /\ n.bins = m.bins /\ n.dv = z /\ n.dvsize = y - z
    BY <2>3, <2>6 DEF Wrote, BinsOnly, SameRest, SameTop, SameBins
  <2>8. Two(m.chunks, n.chunks, p, z, y, FALSE)
    BY <2>4, <2>6, Zenon
  <2>9. z \in Nat /\ p < z /\ z < y
    BY <2>1
  <2>10. Sound(n) /\ Frame(n, m, {p}, {p}) /\ n.chunks[p].size = z - p /\ n.chunks[p].c
    <3>1. \/ n.bins = m.bins \cup {[at |-> z, size |-> y - z]} /\ SameDv(n, m) /\ m.dv \notin {p}
          \/ n.bins = m.bins /\ n.dv = z /\ n.dvsize = y - z /\ (m.dv \in {p} \/ m.dv = NULL)
          \/ /\ n.bins = m.bins \cup {Dv(m)} /\ n.dv = z /\ n.dvsize = y - z
             /\ m.dv \notin {p} /\ m.dv # NULL
      BY <1>8, <2>7
    <3>2. /\ Cleared(m, {}, p, y, {p}) /\ y \in DOMAIN m.chunks /\ m.top \notin {p} /\ m.chunks[y].c
          /\ SameRest(n, m) /\ SameTop(n, m)
      BY <1>5, <1>6, <1>8, <2>7
    <3>3. SplitInUse(m, {}, p, z, y, {p}, n)
      BY <2>8, <2>9, <3>1, <3>2 DEF SplitInUse
    <3>. HIDE DEF p
    <3>. QED
      BY <3>3, MadeSplit
  <2>. QED
    <3>1. nb <= n.chunks[p].size
      BY <2>1, <2>10
    <3>1a. n.chunks[p].p
      BY <1>5, <2>8 DEF Two, Headed
    <3>2. Took(n, m, p, nb)
      BY <1>2, <1>4, <1>7, <2>10, <3>1, <3>1a, TookChunk
    <3>. QED
      BY <3>2 DEF n
<1>. QED
  BY <1>2, <1>4, <1>11, <1>12 DEF MinChunk

\* Top is split.
LEMMA FromTopIs ==
    ASSUME NEW m, Sound(m), NEW nb \in Nat, nb >= MinChunk, nb < m.topsize
    PROVE  Took(FromTop(m, nb), m, m.top, nb)
<1>. DEFINE ch == m.chunks
            p == m.top
            y == After(ch, p)
            z == p + nb
            n == FromTop(m, nb)
<1>1. Whole(m) /\ Binned(m, {}) /\ IsState(m) /\ Structure(ch, m.top, m.segs, m.regions)
  BY DEF Sound, Whole
<1>2. p # NULL /\ m.topsize = ch[p].size /\ m.dv # p
  BY <1>1 DEF Binned, MinChunk
<1>3. p \in FreeAt(ch)
  BY <1>1, <1>2, ChunkTypes
<1>4. /\ p \in DOMAIN ch /\ p \in Nat /\ p \notin Used(m) /\ ch[p].size \in Nat
      /\ y \in Nat /\ y = p + ch[p].size
  BY <1>1, <1>3, ChunkTypes, UsedNotFree DEF FreeAt, After
<1>5. Block(ch, m.segs, p, y, {p}) /\ ch[p].p /\ y \notin DOMAIN ch
  BY <1>1, <1>3, BehindFree
<1>6. Cleared(m, {}, p, y, {p})
  BY <1>1, <1>5 DEF Cleared
<1>7. BinsOnly(m, m)
  BY <1>1, SameIsBinsOnly
<1>8. m.top \in {p} /\ m.dv \notin {p}
  BY <1>2
<1>. HIDE DEF n
<1>9. z \in Nat /\ p < z /\ z < y /\ z - p = nb /\ y - z = m.topsize - nb
  BY <1>2, <1>4 DEF MinChunk
<1>10. n = SetSizeAndPinuseOfInuse(SetTop(m, z, y - z), p, z - p)
  BY <1>9 DEF n, FromTop
<1>11. y = After(m.chunks, m.top)
  OBVIOUS
<1>. HIDE DEF z, y
<1>12. Inside(ch, p, z, y) /\ z \notin DOMAIN ch
  BY <1>1, <1>5, <1>9, BlockInside
<1>13. Topped(n, m, z, y - z) /\ Two(m.chunks, n.chunks, p, z, y, FALSE)
  BY <1>1, <1>5, <1>10, <1>12, TopSplitIs
<1>14. SameRest(n, m) /\ n.top = z /\ n.topsize = y - z /\ SameBins(n, m)
  BY <1>13 DEF Topped
<1>15. z \in Nat /\ p < z /\ z < y
  BY <1>9
<1>16. Sound(n) /\ Frame(n, m, {p}, {p}) /\ n.chunks[p].size = z - p /\ n.chunks[p].c
  <2>. DEFINE S == {p}
  <2>1. /\ Cleared(m, {}, p, y, S) /\ m.top \in S /\ m.dv \notin S
        /\ z \notin DOMAIN m.chunks \/ z = m.top
    BY <1>6, <1>8, <1>12
  <2>. HIDE DEF S
  <2>2. Sound(n) /\ Frame(n, m, S, {p}) /\ n.chunks[p].size = z - p /\ n.chunks[p].c
    <3>. HIDE DEF p
    <3>. QED
      <4>1. TopIsSplit(m, {}, p, z, y, S, n)
        BY <2>1, <1>11, <1>13, <1>14, <1>15 DEF TopIsSplit
      <4>. QED
        BY <4>1, MadeTopSplit
  <2>. QED
    BY <2>2 DEF S
<1>17. nb <= n.chunks[p].size
  BY <1>9, <1>16
<1>17a. n.chunks[p].p
  BY <1>5, <1>13 DEF Two, Headed
<1>18. Took(n, m, p, nb)
  BY <1>2, <1>4, <1>7, <1>16, <1>17, <1>17a, TookChunk
<1>. QED
  BY <1>18 DEF n

-----------------------------------------------------------------------------
(* Resizing a chunk in place. *)

\* One change of what callers hold after another.
LEMMA FrameThen ==
    ASSUME NEW m, NEW n, NEW o, NEW S, NEW T, NEW R, NEW U, Frame(n, m, S, T), Frame(o, n, R, U),
           R \subseteq T, T \cap (Used(m) \ S) = {}
    PROVE  Frame(o, m, S, (T \ R) \cup U)
<1>1. /\ Used(n) = (Used(m) \ S) \cup T /\ Used(o) = (Used(n) \ R) \cup U
      /\ \A q \in Used(m) \ S : n.chunks[q].size = m.chunks[q].size /\ n.chunks[q].c = m.chunks[q].c
      /\ \A q \in Used(n) \ R : o.chunks[q].size = n.chunks[q].size /\ o.chunks[q].c = n.chunks[q].c
      /\ n.use_mmap = m.use_mmap /\ o.use_mmap = n.use_mmap
  BY DEF Frame
<1>2. Used(o) = (Used(m) \ S) \cup ((T \ R) \cup U)
  BY <1>1
<1>3. \A q \in Used(m) \ S : q \in Used(n) \ R
  BY <1>1
<1>4. Counts(o, m)
  BY DEF Frame, Counts
<1>. QED
  BY <1>1, <1>2, <1>3, <1>4 DEF Frame

\* What is to be cut: the chunks from x up to y, none free behind them.
ToCut(m, X, x, z, y, S) ==
    /\ Cleared(m, X, x, y, S) /\ Inside(m.chunks, x, z, y) /\ y \in DOMAIN m.chunks
    /\ m.top \notin S /\ m.dv \notin S

\* A stretch is cut to the size wanted and the rest disposed of.
LEMMA CutToIs ==
    ASSUME NEW m, NEW X, NEW x, NEW z, NEW y, NEW S, ToCut(m, X, x, z, y, S)
    PROVE  LET n == CutTo(m, x, y - x, z - x)
           IN Sound(n) /\ Frame(n, m, S, {x}) /\ n.chunks[x].size = z - x /\ n.chunks[x].c
<1>. DEFINE ch == m.chunks
            o == SetInuse(SetInuse(m, x, z - x), z, y - z)
            n == CutTo(m, x, y - x, z - x)
<1>1. /\ Cleared(m, X, x, y, S) /\ Whole(m) /\ IsState(m) /\ Inside(ch, x, z, y) /\ y \in DOMAIN ch
      /\ m.top \notin S /\ m.dv \notin S /\ S = DOMAIN ch \cap (x..(y - 1))
      /\ x \in S
  BY BlockFacts DEF ToCut, Cleared, Whole
<1>2. x \in Nat /\ z \in Nat /\ y \in Nat /\ x < z /\ z < y /\ x + (z - x) = z /\ z \notin DOMAIN ch
  BY <1>1, InsideOf, InsideSizes
<1>3. n = DisposeChunk(o, z)
  <2>1. (y - x) - (z - x) = y - z
    BY <1>2
  <2>. QED
    BY <1>2, <2>1 DEF CutTo
<1>4. Wrote(o, m) /\ Two(m.chunks, o.chunks, x, z, y, TRUE)
  BY <1>1, CutIs
<1>. HIDE DEF o, n
<1>5. /\ Sound(o) /\ Frame(o, m, S, {x, z})
      /\ o.chunks[x].size = z - x /\ o.chunks[x].c /\ o.chunks[z].c
  <2>1. SameRest(o, m) /\ SameTop(o, m) /\ SameBins(o, m)
    BY <1>4 DEF Wrote
  <2>2. TwoInUse(m, X, x, z, y, S, o)
    BY <1>1, <1>2, <1>4, <2>1 DEF TwoInUse
  <2>. QED
    BY <2>2, MadeTwoInuse
<1>6. Used(o) = (Used(m) \ S) \cup {x, z}
  BY <1>5 DEF Frame
<1>7. Sound(n) /\ Frame(n, o, {z}, {})
  BY <1>3, <1>5, <1>6, DisposeIs
<1>8. {x, z} \cap (Used(m) \ S) = {}
  <2>1. Used(m) \subseteq DOMAIN ch
    BY UsedIs, <1>1
  <2>. QED
    BY <1>1, <1>2, <2>1
<1>9. Frame(n, m, S, ({x, z} \ {z}) \cup {})
  BY <1>5, <1>7, <1>8, FrameThen
<1>10. ({x, z} \ {z}) \cup {} = {x}
  BY <1>2
<1>11. n.chunks[x].size = o.chunks[x].size /\ n.chunks[x].c = o.chunks[x].c
  <2>1. x \in Used(o) \ {z}
    BY <1>2, <1>6
  <2>. QED
    BY <1>7, <2>1 DEF Frame
<1>. QED
  BY <1>5, <1>7, <1>9, <1>10, <1>11 DEF n

\* p is kept, and has room for nb.
Resized(n, m, p, nb) ==
    Sound(n) /\ Frame(n, m, {p}, {p}) /\ Fits(n, p, nb) /\ (m.chunks[p].c => n.chunks[p].c)

\* A held chunk in use, of S, and the chunk or chunks in its place.
LEMMA ResizedChunk ==
    ASSUME NEW m, NEW u, NEW n, NEW S, NEW p, NEW nb, Sound(n), Frame(n, u, S, {p}), BinsOnly(u, m),
           S \cap Used(m) = {p} \cap Used(m), n.chunks[p].c, nb <= n.chunks[p].size
    PROVE  Resized(n, m, p, nb)
<1>1. Frame(n, m, S, {p})
  BY FrameBins
<1>2. Frame(n, m, {p}, {p})
  BY <1>1, FrameNarrow
<1>. QED
  BY <1>2 DEF Resized, Fits

\* A chunk large enough is left as it is.
LEMMA ResizedSame ==
    ASSUME NEW m, Sound(m), NEW p \in Used(m), NEW nb, Fits(m, p, nb)
    PROVE  Resized(m, m, p, nb)
  BY DEF Resized, Frame, Counts

\* p grows into top.
LEMMA GrowIntoTop ==
    ASSUME NEW m, Sound(m), NEW p \in Used(m), m.chunks[p].c, After(m.chunks, p) = m.top,
           NEW nb \in Nat, m.chunks[p].size < nb, nb < m.chunks[p].size + m.topsize
    PROVE  Resized(SetTop(SetInuse(m, p, nb), p + nb, m.chunks[p].size + m.topsize - nb), m, p, nb)
<1>. DEFINE ch == m.chunks
            t == m.top
            y == After(ch, t)
            z == p + nb
            S == {p} \cup {t}
            n == SetTop(SetInuse(m, p, nb), p + nb, ch[p].size + m.topsize - nb)
<1>1. Whole(m) /\ Binned(m, {}) /\ IsState(m) /\ Structure(ch, m.top, m.segs, m.regions)
  BY DEF Sound, Whole
<1>2. /\ Block(ch, m.segs, p, t, {p}) /\ t \in Nat /\ p < t /\ t = p + ch[p].size /\ t \in Ord(ch)
  <2>. DEFINE a == After(ch, p)
  <2>1. /\ Block(ch, m.segs, p, a, {p}) /\ a \in Nat /\ p < a /\ a = p + ch[p].size /\ a \in Ord(ch)
    BY ZenonT(60), <1>1, BehindUsed
  <2>2. a = t
    OBVIOUS
  <2>. HIDE DEF a
  <2>. QED
    BY <2>1, <2>2
<1>3. p \in Nat /\ ch[p].size \in Nat /\ p \notin FreeAt(ch) /\ p # NULL
  BY <1>1, UsedIs
<1>4. t # NULL /\ t \in FreeAt(ch) /\ m.topsize = ch[t].size /\ t \notin Used(m)
  BY <1>1, <1>2, <1>3, ChunkTypes, UsedNotFree DEF NULL, Binned
<1>5. Block(ch, m.segs, t, y, {t}) /\ y \notin DOMAIN ch
  BY <1>1, <1>4, BehindFree
<1>6. Block(ch, m.segs, p, y, S)
  BY <1>1, <1>2, <1>5, BlockJoin
<1>7. y = t + ch[t].size /\ ch[t].size \in Nat /\ y \in Nat
  BY <1>1, <1>2, <1>4, ChunkTypes DEF After, Ord
<1>8. z \in Nat /\ p < z /\ z < y /\ t < z /\ z - p = nb /\ y - z = ch[p].size + m.topsize - nb
  BY SMTT(30), <1>2, <1>3, <1>4, <1>7
<1>9. z \notin DOMAIN ch
  <2>1. z <= t \/ After(ch, t) <= z \/ z \notin DOMAIN ch
    BY <1>1, <1>2 DEF Structure, Layout
  <2>. QED
    BY <1>2, <1>7, <1>8, <2>1
<1>10. Inside(ch, p, z, y)
  BY <1>1, <1>6, <1>8, <1>9, BlockEnds DEF Inside
<1>11. n = SetTop(SetInuse(m, p, z - p), z, y - z)
  BY <1>8
<1>. HIDE DEF n
<1>12. Topped(n, m, z, y - z) /\ Two(m.chunks, n.chunks, p, z, y, FALSE)
  BY <1>1, <1>5, <1>10, <1>11, TopGrowIs
<1>13. m.dv \notin S
  BY <1>1, <1>3, <1>4 DEF Binned
<1>14. Cleared(m, {}, p, y, S)
  <2>1. S \cap FreeAt(ch) \subseteq {} \cup {m.top, m.dv}
    BY <1>3
  <2>. QED
    BY <1>1, <1>6, <2>1 DEF Cleared
<1>15. TopIsSplit(m, {}, p, z, y, S, n)
  BY <1>8, <1>9, <1>12, <1>13, <1>14 DEF TopIsSplit, Topped
<1>. HIDE DEF S
<1>16. Sound(n) /\ Frame(n, m, S, {p}) /\ n.chunks[p].size = z - p /\ n.chunks[p].c
  BY <1>15, MadeTopSplit
<1>17. BinsOnly(m, m)
  BY <1>1, SameIsBinsOnly
<1>18. S \cap Used(m) = {p} \cap Used(m)
  BY <1>4 DEF S
<1>19. nb <= n.chunks[p].size
  BY <1>8, <1>16
<1>20. Resized(n, m, p, nb)
  BY <1>16, <1>17, <1>18, <1>19, ResizedChunk
<1>. QED
  BY <1>20 DEF n

\* What is known when a chunk is behind p and free: p and it are a block.
Behind(m, p, next, y) ==
    /\ Whole(m) /\ Binned(m, {}) /\ IsState(m) /\ Structure(m.chunks, m.top, m.segs, m.regions)
    /\ next = p + m.chunks[p].size /\ y = next + m.chunks[next].size
    /\ p \in Nat /\ next \in Nat /\ y \in Nat /\ p < next /\ next < y
    /\ Block(m.chunks, m.segs, p, y, {p} \cup {next})
    /\ y \in DOMAIN m.chunks /\ m.chunks[y].c /\ m.chunks[y].size > 0 /\ Ends(m.chunks, p, y)
    /\ \A z \in Nat : next < z /\ z < y => Inside(m.chunks, p, z, y) /\ z \notin DOMAIN m.chunks
    /\ p \notin FreeAt(m.chunks) /\ next \in FreeAt(m.chunks) /\ next \notin Used(m)
    /\ m.top \notin {p} \cup {next} /\ m.dv # p /\ next # NULL
    /\ m.chunks[p].size \in Nat /\ m.chunks[next].size \in Nat

\* What a chunk in use can grow into: the free chunk behind it.
LEMMA BehindIs ==
    ASSUME NEW m, Sound(m), NEW p \in Used(m), m.chunks[p].c, NEW next, next = After(m.chunks, p),
           next # m.top, ~m.chunks[next].c
    PROVE  Behind(m, p, next, After(m.chunks, next))
<1>. DEFINE ch == m.chunks
            y == After(ch, next)
<1>1. Whole(m) /\ Binned(m, {}) /\ IsState(m) /\ Structure(ch, m.top, m.segs, m.regions)
  BY DEF Sound, Whole
<1>2. /\ Block(ch, m.segs, p, next, {p}) /\ next \in Nat /\ p < next /\ next = p + ch[p].size
      /\ next \in Ord(ch) /\ next \in DOMAIN ch
  BY <1>1, BehindUsed
<1>3. p \in Nat /\ ch[p].size \in Nat /\ p \notin FreeAt(ch) /\ p # m.top /\ p # NULL
  BY <1>1, UsedIs
<1>4. next \in FreeAt(ch) /\ next \notin Used(m) /\ next # NULL
  BY <1>2, <1>3, UsedNotFree DEF NULL, FreeAt, Ord
<1>5. Block(ch, m.segs, next, y, {next}) /\ y \in DOMAIN ch /\ ch[y].c /\ ch[y].size > 0
  BY <1>1, <1>4, BehindFree
<1>6. Block(ch, m.segs, p, y, {p} \cup {next})
  BY <1>1, <1>2, <1>5, BlockJoin
<1>7. y = next + ch[next].size /\ ch[next].size \in Nat /\ y \in Nat /\ next < y
  BY <1>1, <1>2, ChunkTypes DEF After
<1>8. Ends(ch, p, y)
  BY <1>1, <1>6, BlockEnds
<1>9. ASSUME NEW z \in Nat, next < z, z < y PROVE Inside(ch, p, z, y) /\ z \notin DOMAIN ch
  <2>1. z <= next \/ y <= z \/ z \notin DOMAIN ch
    BY <1>1, <1>2 DEF Structure, Layout
  <2>2. z \notin DOMAIN ch /\ p < z
    BY <1>2, <1>3, <1>7, <1>9, <2>1
  <2>. QED
    BY <1>8, <1>9, <2>2 DEF Inside
<1>10. m.dv # p
  BY <1>1, <1>3 DEF Binned
<1>11. m.top \notin {p} \cup {next}
  BY SMTT(30), <1>3
<1>. HIDE DEF y
<1>12. Behind(m, p, next, y)
  BY Zenon, <1>1, <1>2, <1>3, <1>4, <1>5, <1>6, <1>7, <1>8, <1>9, <1>10, <1>11 DEF Behind
<1>. QED
  BY <1>12 DEF y

\* p grows into the victim, which is used up or keeps a rest.
LEMMA GrowIntoDv ==
    ASSUME NEW m, Sound(m), NEW p \in Used(m), NEW next, NEW y, Behind(m, p, next, y), m.chunks[p].c,
           next = m.dv, NEW nb \in Nat, nb <= y - p
    PROVE  /\ Resized(SetDv(SetInuse(m, p, y - p), NULL, 0), m, p, nb)
           /\ next - p < nb /\ nb < y - p =>
                Resized(SetDv(ClearPinuse(SetSizeAndPinuseOfFree(SetInuse(m, p, nb), p + nb, y - p - nb), y),
                              p + nb, y - p - nb), m, p, nb)
<1>. DEFINE ch == m.chunks
            S == {p} \cup {next}
            z == p + nb
            o1 == SetInuse(m, p, y - p)
            n1 == SetDv(o1, NULL, 0)
            o2 == ClearPinuse(SetSizeAndPinuseOfFree(SetInuse(m, p, nb), p + nb, y - p - nb), y)
            n2 == SetDv(o2, p + nb, y - p - nb)
<1>1. /\ Whole(m) /\ Binned(m, {}) /\ IsState(m) /\ Structure(ch, m.top, m.segs, m.regions)
      /\ p \in Nat /\ next \in Nat /\ y \in Nat /\ p < next /\ next < y
      /\ Block(ch, m.segs, p, y, S)
      /\ y \in DOMAIN ch /\ ch[y].c /\ ch[y].size > 0 /\ Ends(ch, p, y)
      /\ p \notin FreeAt(ch) /\ next \in FreeAt(ch) /\ next \notin Used(m)
      /\ m.top \notin S /\ m.dv # p /\ next # NULL
  BY Zenon DEF Behind
<1>2. Cleared(m, {}, p, y, S) /\ m.dv \in S
  <2>1. S \cap FreeAt(ch) \subseteq {} \cup {m.top, m.dv}
    BY <1>1
  <2>. QED
    BY <1>1, <2>1 DEF Cleared
<1>3. S \cap Used(m) = {p} \cap Used(m) /\ BinsOnly(m, m)
  BY <1>1, SameIsBinsOnly
<1>. HIDE DEF S
<1>4. Resized(n1, m, p, nb)
  <2>1. Wrote(o1, m) /\ One(m.chunks, o1.chunks, p, y, TRUE)
    BY <1>1, SetInuseIs
  <2>. HIDE DEF o1
  <2>2. IsState(o1) /\ SameRest(o1, m) /\ SameTop(o1, m) /\ o1.bins = m.bins
    BY <2>1 DEF Wrote, SameRest, SameBins
  <2>3. BinsOnly(n1, o1) /\ n1.bins = o1.bins /\ n1.dv = NULL /\ n1.dvsize = 0
    BY <2>2, SetDvIs
  <2>. HIDE DEF n1
  <2>4. SameRest(n1, m) /\ SameTop(n1, m) /\ n1.bins = m.bins /\ DvGone(n1, m, S)
    BY <1>2, <2>2, <2>3 DEF BinsOnly, SameRest, SameTop, DvGone
  <2>5. One(m.chunks, n1.chunks, p, y, TRUE)
    <3>1. n1.chunks = o1.chunks
      BY <2>3 DEF BinsOnly
    <3>. QED
      BY <2>1, <3>1, Zenon
  <2>6. Sound(n1) /\ Frame(n1, m, S, {p}) /\ n1.chunks[p].size = y - p /\ n1.chunks[p].c
    BY <1>1, <1>2, <2>4, <2>5, MadeInuse
  <2>. QED
    BY <1>3, <2>6, ResizedChunk
<1>5. ASSUME next - p < nb, nb < y - p PROVE Resized(n2, m, p, nb)
  <2>1. z \in Nat /\ p < z /\ z < y /\ next < z /\ z - p = nb /\ y - z = y - p - nb
    BY <1>1, <1>5
  <2>2. Inside(ch, p, z, y)
    <3>. HIDE DEF z
    <3>. QED
      BY Zenon, <2>1 DEF Behind
  <2>3. o2 = ClearPinuse(SetSizeAndPinuseOfFree(SetInuse(m, p, z - p), z, y - z), y) /\ n2 = SetDv(o2, z, y - z)
    BY <2>1
  <2>. HIDE DEF o2, n2, z
  <2>4. Wrote(o2, m) /\ Two(m.chunks, o2.chunks, p, z, y, FALSE)
    BY <1>1, <2>2, <2>3, VictimGrowIs
  <2>5. IsState(o2) /\ SameRest(o2, m) /\ SameTop(o2, m) /\ o2.bins = m.bins
    BY <2>4 DEF Wrote, SameRest, SameBins
  <2>6. BinsOnly(n2, o2) /\ n2.bins = o2.bins /\ n2.dv = z /\ n2.dvsize = y - z
    BY <2>3, <2>5, SetDvIs
  <2>7. SameRest(n2, m) /\ SameTop(n2, m) /\ n2.bins = m.bins /\ n2.dv = z /\ n2.dvsize = y - z
    BY <2>5, <2>6 DEF BinsOnly, SameRest, SameTop
  <2>8. Two(m.chunks, n2.chunks, p, z, y, FALSE)
    <3>1. n2.chunks = o2.chunks
      BY <2>6 DEF BinsOnly
    <3>. QED
      BY <2>4, <3>1, Zenon
  <2>9. z \in Nat /\ p < z /\ z < y
    BY <2>1
  <2>10. Sound(n2) /\ Frame(n2, m, S, {p}) /\ n2.chunks[p].size = z - p /\ n2.chunks[p].c
    <3>1. \/ n2.bins = m.bins \cup {[at |-> z, size |-> y - z]} /\ SameDv(n2, m) /\ m.dv \notin S
          \/ n2.bins = m.bins /\ n2.dv = z /\ n2.dvsize = y - z /\ (m.dv \in S \/ m.dv = NULL)
          \/ /\ n2.bins = m.bins \cup {Dv(m)} /\ n2.dv = z /\ n2.dvsize = y - z
             /\ m.dv \notin S /\ m.dv # NULL
      BY <1>2, <2>7
    <3>2. SplitInUse(m, {}, p, z, y, S, n2)
      BY <1>1, <1>2, <2>7, <2>8, <2>9, <3>1 DEF SplitInUse
    <3>. QED
      BY <3>2, MadeSplit
  <2>11. nb <= n2.chunks[p].size
    BY <2>1, <2>10
  <2>. QED
    BY <1>3, <2>10, <2>11, ResizedChunk
<1>. QED
  BY SMTT(30), <1>4, <1>5

\* p grows into a chunk of a bin.
LEMMA GrowIntoFree ==
    ASSUME NEW m, Sound(m), NEW p \in Used(m), NEW next, NEW y, Behind(m, p, next, y), m.chunks[p].c,
           next # m.dv, NEW nb \in Nat, nb <= y - p
    PROVE  LET u == UnlinkChunk(m, next, m.chunks[next].size)
           IN /\ Resized(SetInuse(u, p, y - p), m, p, nb)
              /\ next - p < nb /\ nb < y - p => Resized(CutTo(u, p, y - p, nb), m, p, nb)
<1>. DEFINE ch == m.chunks
            S == {p} \cup {next}
            X == {} \cup {next}
            z == p + nb
            u == UnlinkChunk(m, next, ch[next].size)
            n1 == SetInuse(u, p, y - p)
            n2 == CutTo(u, p, y - p, nb)
<1>1. /\ Whole(m) /\ Binned(m, {}) /\ IsState(m) /\ Structure(ch, m.top, m.segs, m.regions)
      /\ p \in Nat /\ next \in Nat /\ y \in Nat /\ p < next /\ next < y
      /\ Block(ch, m.segs, p, y, S)
      /\ y \in DOMAIN ch /\ ch[y].c /\ ch[y].size > 0 /\ Ends(ch, p, y)
      /\ p \notin FreeAt(ch) /\ next \in FreeAt(ch) /\ next \notin Used(m)
      /\ m.top \notin S /\ m.dv # p /\ next # NULL
  BY Zenon DEF Behind
<1>2. next \in FreeAt(ch) \ ({m.top, m.dv} \cup {})
  BY <1>1
<1>3. Whole(u) /\ Binned(u, X) /\ BinsOnly(u, m) /\ SameDv(u, m)
  BY <1>1, <1>2, Unlinked
<1>4. u.chunks = ch /\ u.top = m.top /\ u.dv = m.dv /\ u.segs = m.segs /\ IsState(u)
  BY <1>3 DEF BinsOnly, SameRest, SameTop, SameDv
<1>. HIDE DEF u
<1>5. Cleared(u, X, p, y, S)
  <2>1. S \cap FreeAt(ch) \subseteq X \cup {u.top, u.dv} /\ X \cap FreeAt(ch) \subseteq S
    BY <1>1
  <2>. QED
    BY <1>1, <1>3, <1>4, <2>1 DEF Cleared
<1>6. S \cap Used(m) = {p} \cap Used(m) /\ u.dv \notin S /\ u.top \notin S
  BY <1>1, <1>4
<1>. HIDE DEF S, X
<1>7. Resized(n1, m, p, nb)
  <2>1. Ends(u.chunks, p, y) /\ y \in DOMAIN u.chunks
    BY <1>1, <1>4
  <2>2. Wrote(n1, u) /\ One(u.chunks, n1.chunks, p, y, TRUE)
    BY <1>4, <2>1, SetInuseIs
  <2>. HIDE DEF n1
  <2>3. SameRest(n1, u) /\ SameTop(n1, u) /\ n1.bins = u.bins /\ SameDv(n1, u)
    BY <2>2 DEF Wrote, SameBins, SameDv
  <2>4. Sound(n1) /\ Frame(n1, u, S, {p}) /\ n1.chunks[p].size = y - p /\ n1.chunks[p].c
    BY <1>5, <1>6, <2>1, <2>2, <2>3, MadeInuse
  <2>. QED
    BY <1>3, <1>6, <2>4, ResizedChunk
<1>8. ASSUME next - p < nb, nb < y - p PROVE Resized(n2, m, p, nb)
  <2>1. z \in Nat /\ p < z /\ z < y /\ next < z /\ z - p = nb
    BY <1>1, <1>8
  <2>2. Inside(ch, p, z, y)
    <3>. HIDE DEF z
    <3>. QED
      BY Zenon, <2>1 DEF Behind
  <2>3. n2 = CutTo(u, p, y - p, z - p)
    BY <2>1
  <2>. HIDE DEF n2, z
  <2>4. ToCut(u, X, p, z, y, S)
    BY <1>1, <1>4, <1>5, <1>6, <2>2 DEF ToCut
  <2>5. Sound(n2) /\ Frame(n2, u, S, {p}) /\ n2.chunks[p].size = z - p /\ n2.chunks[p].c
    BY <2>3, <2>4, CutToIs
  <2>6. nb <= n2.chunks[p].size
    BY <2>1, <2>5
  <2>. QED
    BY <1>3, <1>6, <2>5, <2>6, ResizedChunk
<1>. QED
  BY SMTT(30), <1>7, <1>8 DEF u

\* A heap and the chunk it has for the caller.
OutcomeFields(m, p) == Outcome(m, p).m = m /\ Outcome(m, p).p = p

\* The fields of an outcome.
LEMMA OutcomeIs ==
    ASSUME NEW m, NEW p PROVE OutcomeFields(m, p)
  BY DEF OutcomeFields, Outcome

\* The chunk was resized, or nothing was done.
TriedOk(o, m, p, nb) ==
    IF o.p = NULL THEN o.m = m ELSE o.p = p /\ Resized(o.m, m, p, nb)

\* A mapped chunk has a fencepost behind it.
LEMMA BehindDirect ==
    ASSUME NEW m, Whole(m), NEW p \in Used(m), ~m.chunks[p].c
    PROVE  LET y == p + m.chunks[p].size
           IN /\ p \in Direct(m.chunks) /\ DirectOk(m.chunks, p)
              /\ y \in DOMAIN m.chunks /\ y \in Nat /\ p < y
              /\ HeaderAt(m, y).p /\ m.chunks[y].size = 0
              /\ m.chunks[p].foot \in Nat /\ m.chunks[p].foot < p
<1>. DEFINE ch == m.chunks
            y == p + ch[p].size
<1>1. Structure(ch, m.top, m.segs, m.regions)
  BY DEF Whole
<1>2. p \in Direct(ch) /\ p \in Nat /\ ch[p].size \in Nat \ {0} /\ HeaderOk(ch[p]) /\ p \in DOMAIN ch
  BY UsedIs
<1>3. DirectOk(ch, p)
  BY <1>1, <1>2 DEF Structure
<1>4. y \in DOMAIN ch /\ ch[y].size = 0 /\ ch[p].foot < p
  BY <1>3 DEF DirectOk, After
<1>5. ch[y].p
  BY <1>1, <1>4, ChunkTypes DEF HeaderOk
<1>. QED
  BY <1>2, <1>3, <1>4, <1>5 DEF HeaderAt, HeaderOk

\* The checks of dlfree, try_realloc_chunk and the others do not fail.
LEMMA ChecksHold ==
    ASSUME NEW m, Whole(m), NEW p \in Used(m)
    PROVE  LET y == p + ChunkSize(m, p)
           IN OkAddress(m, p) /\ IsInuse(m, p) /\ p < y /\ HeaderAt(m, y).p
<1>1. OkAddress(m, p) /\ IsInuse(m, p) /\ ChunkSize(m, p) = m.chunks[p].size /\ m.chunks[p].c \in BOOLEAN
  BY ZenonT(60), UsedIs DEF HeaderOk
<1>2. CASE m.chunks[p].c
  <2>. DEFINE y == After(m.chunks, p)
  <2>1. y = p + ChunkSize(m, p)
    BY <1>1 DEF After
  <2>2. p < y /\ HeaderAt(m, y) = m.chunks[y] /\ m.chunks[y].p
    BY <1>2, BehindUsed
  <2>. HIDE DEF y
  <2>. QED
    BY <1>1, <2>1, <2>2
<1>3. CASE ~m.chunks[p].c
  BY <1>1, <1>3, BehindDirect
<1>. QED
  BY <1>1, <1>2, <1>3

\* try_realloc_chunk keeps the heap sound, whether it resizes the chunk or not.
LEMMA TryReallocIs ==
    ASSUME NEW m, Sound(m), NEW p \in Used(m), NEW nb \in Nat, nb >= MinChunk
    PROVE  TriedOk(TryRealloc(m, p, nb), m, p, nb)
<1>. DEFINE ch == m.chunks
            oldsize == ch[p].size
            next == p + oldsize
            o == TryRealloc(m, p, nb)
            nextsize == IF next = m.dv THEN m.dvsize ELSE ChunkSize(m, next)
            size == oldsize + nextsize
            rest == size - nb
            unlinked == UnlinkChunk(m, next, nextsize)
            cut == IF oldsize - nb >= MinChunk THEN CutTo(m, p, oldsize, nb) ELSE m
            onTop == SetTop(SetInuse(m, p, nb), p + nb, oldsize + m.topsize - nb)
            grown ==
              IF next = m.dv
              THEN Outcome(IF rest >= MinChunk
                           THEN SetDv(ClearPinuse(SetSizeAndPinuseOfFree(SetInuse(m, p, nb), p + nb, rest),
                                                  p + size), p + nb, rest)
                           ELSE SetDv(SetInuse(m, p, size), NULL, 0), p)
              ELSE Outcome(IF rest < MinChunk THEN SetInuse(unlinked, p, size)
                           ELSE CutTo(unlinked, p, size, nb), p)
<1>. SUFFICES TriedOk(o, m, p, nb)
  OBVIOUS
<1>1. Whole(m) /\ Binned(m, {}) /\ IsState(m) /\ Structure(ch, m.top, m.segs, m.regions)
  BY DEF Sound, Whole
<1>2. /\ p \in Nat /\ p # NULL /\ oldsize \in Nat \ {0} /\ ChunkSize(m, p) = oldsize
      /\ (IsMmapped(m, p) <=> ~ch[p].c) /\ ch[p].c \in BOOLEAN
  BY ZenonT(60), <1>1, UsedIs DEF HeaderOk
<1>3. Check(m, OkAddress(m, p) /\ IsInuse(m, p) /\ p < next /\ HeaderAt(m, next).p) = m
  BY <1>1, <1>2, ChecksHold DEF Check
<1>4. o = IF IsMmapped(m, p) THEN IF FitsMapped(m, p, nb) THEN Outcome(m, p) ELSE Outcome(m, NULL)
          ELSE IF oldsize >= nb
          THEN Outcome(cut, p)
          ELSE IF next = m.top
          THEN IF oldsize + m.topsize > nb
               THEN Outcome(onTop, p)
               ELSE Outcome(m, NULL)
          ELSE IF HeaderAt(m, next).c \/ size < nb THEN Outcome(m, NULL)
          ELSE grown
  BY ZenonT(60), <1>2, <1>3 DEF TryRealloc
<1>. HIDE DEF o, grown, cut, onTop
<1>5. TriedOk(Outcome(m, NULL), m, p, nb)
  BY OutcomeIs DEF TriedOk, OutcomeFields
<1>6. ASSUME NEW x, Resized(x, m, p, nb) PROVE TriedOk(Outcome(x, p), m, p, nb)
  BY <1>2, <1>6, OutcomeIs DEF TriedOk, OutcomeFields
<1>7. CASE IsMmapped(m, p)
  <2>1. CASE FitsMapped(m, p, nb)
    <3>1. Fits(m, p, nb)
      BY <1>2, <1>7, <2>1 DEF Fits, FitsMapped
    <3>2. Resized(m, m, p, nb)
      BY <3>1, ResizedSame
    <3>3. o = Outcome(m, p)
      BY <1>4, <1>7, <2>1
    <3>. QED
      BY <1>6, <3>2, <3>3
  <2>2. CASE ~FitsMapped(m, p, nb)
    <3>1. o = Outcome(m, NULL)
      BY <1>4, <1>7, <2>2
    <3>. QED
      BY <1>5, <3>1
  <2>. QED
    BY <2>1, <2>2
<1>8. CASE ~IsMmapped(m, p) /\ oldsize >= nb
  <2>0. o = Outcome(cut, p)
    BY <1>4, <1>8
  <2>1. CASE oldsize - nb >= MinChunk
    <3>. DEFINE z == p + nb
                n == CutTo(m, p, oldsize, nb)
    <3>1. /\ Block(ch, m.segs, p, next, {p}) /\ next \in DOMAIN ch /\ next \in Nat
          /\ ch[p].c /\ p \notin FreeAt(ch) /\ p # m.top
      <4>1. ch[p].c /\ p \notin FreeAt(ch) /\ p # m.top
        BY <1>1, <1>2, <1>8, UsedIs
      <4>2. next = After(ch, p)
        BY DEF After
      <4>. HIDE DEF next
      <4>. QED
        BY <1>1, <4>1, <4>2, BehindUsed
    <3>2. z \in Nat /\ p < z /\ z < next /\ z - p = nb /\ next - p = oldsize
      BY <1>2, <2>1, <3>1 DEF MinChunk
    <3>3. Inside(ch, p, z, next)
      <4>. HIDE DEF z, next
      <4>. QED
        BY <1>1, <3>1, <3>2, BlockInside
    <3>4. p # m.dv
      BY <1>1, <1>2, <3>1 DEF Binned
    <3>5. ToCut(m, {}, p, z, next, {p})
      BY <1>1, <3>1, <3>3, <3>4 DEF ToCut, Cleared
    <3>6. n = CutTo(m, p, next - p, z - p)
      BY <3>2
    <3>. HIDE DEF n, z, next
    <3>7. Sound(n) /\ Frame(n, m, {p}, {p}) /\ n.chunks[p].size = z - p /\ n.chunks[p].c
      BY <3>5, <3>6, CutToIs
    <3>8. Resized(n, m, p, nb)
      BY <3>2, <3>7 DEF Resized, Fits
    <3>9. cut = n
      BY <2>1 DEF cut, n
    <3>. QED
      BY <1>6, <2>0, <3>8, <3>9
  <2>2. CASE ~(oldsize - nb >= MinChunk)
    <3>1. Resized(m, m, p, nb)
      BY <1>2, <1>8, ResizedSame DEF Fits
    <3>2. cut = m
      BY <2>2 DEF cut
    <3>. QED
      BY <1>6, <2>0, <3>1, <3>2
  <2>. QED
    BY <2>1, <2>2
<1>9. CASE ~IsMmapped(m, p) /\ ~(oldsize >= nb) /\ next = m.top
  <2>1. CASE oldsize + m.topsize > nb
    <3>0. m.topsize \in Nat
      BY <1>1, ChunkTypes DEF Binned, FreeAt
    <3>1. Resized(onTop, m, p, nb)
      <4>1. After(ch, p) = m.top /\ ch[p].c /\ ch[p].size < nb /\ nb < ch[p].size + m.topsize
        BY <1>2, <1>9, <2>1, <3>0 DEF After
      <4>. QED
        BY <4>1, GrowIntoTop DEF onTop
    <3>2. o = Outcome(onTop, p)
      BY <1>4, <1>9, <2>1
    <3>. QED
      BY <1>6, <3>1, <3>2
  <2>2. CASE ~(oldsize + m.topsize > nb)
    <3>1. o = Outcome(m, NULL)
      BY <1>4, <1>9, <2>2
    <3>. QED
      BY <1>5, <3>1
  <2>. QED
    BY <2>1, <2>2
<1>10. CASE ~IsMmapped(m, p) /\ ~(oldsize >= nb) /\ next # m.top
  <2>1. CASE HeaderAt(m, next).c \/ size < nb
    <3>1. o = Outcome(m, NULL)
      BY <1>4, <1>10, <2>1
    <3>. QED
      BY <1>5, <3>1
  <2>2. CASE ~(HeaderAt(m, next).c \/ size < nb)
    <3>. DEFINE y == next + ch[next].size
    <3>1. next \in DOMAIN ch /\ HeaderAt(m, next) = ch[next] /\ ChunkSize(m, next) = ch[next].size
      <4>2. next = After(ch, p)
        BY DEF After
      <4>. HIDE DEF next
      <4>. QED
        BY <1>1, <1>2, <1>10, <4>2, BehindUsed
    <3>2. Behind(m, p, next, y)
      <4>1. next = After(ch, p)
        BY DEF After
      <4>2. y = After(ch, next)
        BY DEF After
      <4>3. next # m.top /\ ~ch[next].c /\ ch[p].c
        BY <1>2, <1>10, <2>2, <3>1
      <4>. HIDE DEF y, next
      <4>4. Behind(m, p, next, After(ch, next))
        BY <4>1, <4>3, BehindIs
      <4>. QED
        BY <4>2, <4>4
    <3>3. nextsize = ch[next].size
      <4>1. next # NULL
        BY <1>2 DEF NULL
      <4>. HIDE DEF next
      <4>. QED
        BY <1>1, <3>1, <4>1 DEF Binned
    <3>4. /\ size = y - p /\ rest = y - p - nb /\ p + size = y /\ nb <= y - p /\ next - p < nb
          /\ (rest >= MinChunk => nb < y - p)
      <4>1. ch[next].size \in Nat
        BY Zenon, <3>2 DEF Behind
      <4>. QED
        BY SMTT(30), <1>2, <1>10, <2>2, <3>3, <4>1 DEF MinChunk
    <3>5. o = grown
      BY <1>4, <1>10, <2>2
    <3>6. CASE next = m.dv
      <4>. DEFINE a == SetDv(SetInuse(m, p, y - p), NULL, 0)
                  b == SetDv(ClearPinuse(SetSizeAndPinuseOfFree(SetInuse(m, p, nb), p + nb, y - p - nb), y),
                             p + nb, y - p - nb)
      <4>1. Resized(a, m, p, nb) /\ (next - p < nb /\ nb < y - p => Resized(b, m, p, nb))
        <5>. HIDE DEF y, next
        <5>. QED
          BY SMTT(30), <1>2, <1>10, <3>2, <3>4, <3>6, GrowIntoDv
      <4>2. o = Outcome(IF rest >= MinChunk THEN b ELSE a, p)
        BY <3>4, <3>5, <3>6 DEF grown
      <4>. HIDE DEF a, b, rest, y, next
      <4>3. CASE rest >= MinChunk
        <5>1. o = Outcome(b, p)
          BY <4>2, <4>3
        <5>. QED
          BY <1>6, <3>4, <4>1, <4>3, <5>1
      <4>4. CASE ~(rest >= MinChunk)
        <5>1. o = Outcome(a, p)
          BY <4>2, <4>4
        <5>. QED
          BY <1>6, <4>1, <5>1
      <4>. QED
        BY <4>3, <4>4
    <3>7. CASE next # m.dv
      <4>. DEFINE u == UnlinkChunk(m, next, ch[next].size)
                  a == SetInuse(u, p, y - p)
                  b == CutTo(u, p, y - p, nb)
      <4>1. Resized(a, m, p, nb) /\ (next - p < nb /\ nb < y - p => Resized(b, m, p, nb))
        <5>. HIDE DEF y, next
        <5>. QED
          BY SMTT(30), <1>2, <1>10, <3>2, <3>4, <3>7, GrowIntoFree
      <4>2. o = Outcome(IF rest < MinChunk THEN a ELSE b, p)
        BY <3>3, <3>4, <3>5, <3>7 DEF grown
      <4>3. rest < MinChunk \/ rest >= MinChunk
        <5>1. y - p - nb \in Int
          <6>1. y \in Nat /\ p \in Nat /\ nb \in Nat
            BY Zenon, <1>2, <3>2 DEF Behind
          <6>. HIDE DEF y
          <6>. QED
            BY ONLY SMTT(30), <6>1
        <5>2. rest \in Int
          BY <3>4, <5>1
        <5>. HIDE DEF rest
        <5>. QED
          BY <5>2 DEF MinChunk
      <4>. HIDE DEF a, b, rest, y, next
      <4>4. CASE rest < MinChunk
        <5>1. o = Outcome(a, p)
          BY <4>2, <4>4
        <5>. QED
          BY <1>6, <4>1, <5>1
      <4>5. CASE ~(rest < MinChunk)
        <5>1. o = Outcome(b, p)
          BY <4>2, <4>5
        <5>. QED
          BY <1>6, <3>4, <4>1, <4>3, <4>5, <5>1
      <4>. QED
        BY <4>4, <4>5
    <3>. QED
      BY <3>6, <3>7
  <2>. QED
    BY <2>1, <2>2
<1>. QED
  BY <1>7, <1>8, <1>9, <1>10

-----------------------------------------------------------------------------
(* Loops. *)

\* A set of natural numbers that has an element has a least one.
LEMMA LeastExists ==
    ASSUME NEW S \in SUBSET Nat, NEW x \in S
    PROVE  \E k \in S : \A y \in S : k <= y
<1>1. IsWellFoundedOn(OpToRel(<, Nat), Nat)
  BY NatLessThanWellFounded
<1>2. PICK k \in S : \A y \in S : ~ (<<y, k>> \in OpToRel(<, Nat))
  <2>1. IsWellFoundedOn(OpToRel(<, Nat), S)
    BY <1>1, IsWellFoundedOnSubset
  <2>. QED
    BY <1>1, <2>1, WFMin
<1>3. \A y \in S : ~ (y < k)
  BY <1>2 DEF OpToRel
<1>. QED
  BY <1>3

\* What holds before a loop of n rounds and is kept by each of them holds
\* after every round.
LEMMA EachRound ==
    ASSUME NEW n \in Nat, NEW P, 0 \in P, \A k \in 1..n : k - 1 \in P => k \in P
    PROVE  \A k \in 0..n : k \in P
<1>. SUFFICES ASSUME NEW b \in 0..n, b \notin P PROVE FALSE
  OBVIOUS
<1>. DEFINE Bad == {k \in 0..n : k \notin P}
<1>1. Bad \in SUBSET Nat /\ b \in Bad
  OBVIOUS
<1>2. PICK k \in Bad : \A j \in Bad : k <= j
  <2>. HIDE DEF Bad
  <2>. QED
    BY <1>1, LeastExists
<1>3. k \in 0..n /\ k \notin P /\ k # 0
  OBVIOUS
<1>4. k - 1 \in 0..n /\ ~(k <= k - 1) /\ k \in 1..n
  BY <1>3
<1>. QED
  BY <1>2, <1>3, <1>4

-----------------------------------------------------------------------------
(* Sums. *)

\* The sums of the first sizes.
Sums(g, sizes, n) ==
    g = [i \in 0..n |-> IF i = 0 THEN 0 ELSE g[i - 1] + sizes[i]]

\* The sums of the sizes exist,
LEMMA SumsExist ==
    ASSUME NEW sizes, NEW n \in Nat
    PROVE  \E g : Sums(g, sizes, n)
<1>. DEFINE P == {k \in Nat : \E g : Sums(g, sizes, k)}
<1>1. 0 \in P
  <2>. DEFINE g == [i \in 0..0 |-> 0]
  <2>1. Sums(g, sizes, 0)
    BY DEF Sums
  <2>. HIDE DEF g
  <2>. QED
    BY <2>1
<1>2. ASSUME NEW k \in 1..n, k - 1 \in P PROVE k \in P
  <2>1. PICK g : Sums(g, sizes, k - 1)
    BY <1>2
  <2>. DEFINE R(h) == [i \in 0..k |-> IF i = 0 THEN 0 ELSE h[i - 1] + sizes[i]]
              h == [i \in 0..k |-> IF i = k THEN g[k - 1] + sizes[k] ELSE g[i]]
  <2>2. \A i \in 0..(k - 1) : g[i] = IF i = 0 THEN 0 ELSE g[i - 1] + sizes[i]
    BY <2>1 DEF Sums
  <2>3. h = R(h)
    <3>1. \A i \in 0..k : h[i] = IF i = k THEN g[k - 1] + sizes[k] ELSE g[i]
      OBVIOUS
    <3>2. \A i \in 0..k : h[i] = IF i = 0 THEN 0 ELSE h[i - 1] + sizes[i]
      <4>. TAKE i \in 0..k
      <4>1. CASE i = k
        <5>1. k - 1 \in 0..k /\ k - 1 # k /\ k # 0
          OBVIOUS
        <5>. HIDE DEF h
        <5>. QED
          BY <3>1, <4>1, <5>1
      <4>2. CASE i # k
        <5>1. i \in 0..(k - 1) /\ (i # 0 => i - 1 \in 0..k /\ i - 1 # k)
          BY <4>2
        <5>. HIDE DEF h
        <5>. QED
          BY <2>2, <3>1, <4>2, <5>1
      <4>. QED
        BY <4>1, <4>2
    <3>3. h = [i \in 0..k |-> h[i]]
      OBVIOUS
    <3>. HIDE DEF h
    <3>. QED
      BY <3>2, <3>3
  <2>4. Sums(h, sizes, k)
    <3>. HIDE DEF h
    <3>. QED
      BY <2>3 DEF Sums
  <2>. HIDE DEF h
  <2>. QED
    BY <2>4
<1>. HIDE DEF P
<1>3. \A k \in 0..n : k \in P
  BY <1>1, <1>2, EachRound
<1>. QED
  BY <1>3 DEF P

\* Two of them agree.
LEMMA SumsAgree ==
    ASSUME NEW sizes, NEW n \in Nat, NEW k \in 0..n, NEW g, NEW h, Sums(g, sizes, n), Sums(h, sizes, k)
    PROVE  \A i \in 0..k : h[i] = g[i]
<1>. DEFINE P == {i \in 0..k : h[i] = g[i]}
<1>1. /\ \A i \in 0..n : g[i] = IF i = 0 THEN 0 ELSE g[i - 1] + sizes[i]
      /\ \A i \in 0..k : h[i] = IF i = 0 THEN 0 ELSE h[i - 1] + sizes[i]
  BY DEF Sums
<1>2. 0 \in P
  BY <1>1
<1>3. ASSUME NEW i \in 1..k, i - 1 \in P PROVE i \in P
  BY <1>1, <1>3
<1>4. \A i \in 0..k : i \in P
  <2>. HIDE DEF P
  <2>. QED
    BY <1>2, <1>3, EachRound
<1>. QED
  BY <1>4

\* and SumUpTo is what it is meant to be.
LEMMA SumUpToIs ==
    ASSUME NEW sizes, Len(sizes) \in Nat, \A i \in 1..Len(sizes) : sizes[i] \in Nat \ {0}
    PROVE  /\ SumUpTo(sizes, 0) = 0
           /\ \A i \in 1..Len(sizes) : SumUpTo(sizes, i) = SumUpTo(sizes, i - 1) + sizes[i]
           /\ \A i \in 0..Len(sizes) : SumUpTo(sizes, i) \in Nat
           /\ \A i, j \in 0..Len(sizes) : i < j => SumUpTo(sizes, i) < SumUpTo(sizes, j)
<1>. DEFINE n == Len(sizes)
<1>1. PICK g : Sums(g, sizes, n)
  BY SumsExist
<1>2. ASSUME NEW k \in 0..n PROVE SumUpTo(sizes, k) = g[k]
  <2>. DEFINE R(f) == [i \in 0..k |-> IF i = 0 THEN 0 ELSE f[i - 1] + sizes[i]]
              h == CHOOSE f : f = R(f)
  <2>1. SumUpTo(sizes, k) = h[k]
    BY DEF SumUpTo
  <2>2. \E f : f = R(f)
    <3>1. k \in Nat
      OBVIOUS
    <3>2. \E f : Sums(f, sizes, k)
      BY <3>1, SumsExist
    <3>. QED
      BY <3>2 DEF Sums
  <2>3. h = R(h)
    <3>. HIDE DEF R
    <3>. QED
      BY <2>2
  <2>. HIDE DEF h
  <2>4. Sums(h, sizes, k)
    BY <2>3 DEF Sums
  <2>5. \A i \in 0..k : h[i] = g[i]
    BY <1>1, <2>4, SumsAgree
  <2>. QED
    BY <2>1, <2>5
<1>3. \A i \in 0..n : g[i] = IF i = 0 THEN 0 ELSE g[i - 1] + sizes[i]
  BY <1>1 DEF Sums
<1>4. \A k \in 0..n : g[k] \in Nat
  <2>. DEFINE P == {i \in 0..n : g[i] \in Nat}
  <2>1. 0 \in P
    BY <1>3
  <2>2. ASSUME NEW i \in 1..n, i - 1 \in P PROVE i \in P
    BY SMTT(30), <1>3, <2>2
  <2>3. \A i \in 0..n : i \in P
    <3>. HIDE DEF P
    <3>. QED
      BY <2>1, <2>2, EachRound
  <2>. QED
    BY <2>3
<1>5. ASSUME NEW i \in 0..n PROVE \A j \in 0..n : i < j => g[i] < g[j]
  <2>. DEFINE P == {j \in 0..n : i < j => g[i] < g[j]}
  <2>1. 0 \in P
    OBVIOUS
  <2>2. ASSUME NEW j \in 1..n, j - 1 \in P PROVE j \in P
    <3>1. g[j] = g[j - 1] + sizes[j] /\ g[j - 1] \in Nat /\ sizes[j] \in Nat \ {0} /\ g[i] \in Nat
      BY <1>3, <1>4
    <3>2. i < j => i = j - 1 \/ i < j - 1
      OBVIOUS
    <3>. QED
      BY <2>2, <3>1, <3>2
  <2>3. \A j \in 0..n : j \in P
    <3>. HIDE DEF P
    <3>. QED
      BY <2>1, <2>2, EachRound
  <2>. QED
    BY <2>3
<1>6. /\ 0 \in 0..n
      /\ \A i \in 1..n : i \in 0..n /\ i - 1 \in 0..n /\ i # 0
  OBVIOUS
<1>7. \A i \in 1..n : g[i] = g[i - 1] + sizes[i]
  BY <1>3, <1>6
<1>. HIDE DEF n
<1>8. \A i, j \in 0..n : i < j => SumUpTo(sizes, i) < SumUpTo(sizes, j)
  BY <1>2, <1>5
<1>. QED
  BY <1>2, <1>3, <1>4, <1>6, <1>7, <1>8 DEF n

-----------------------------------------------------------------------------
(* Dividing a chunk. *)

\* The heaps of the rounds of Divide.
Parts(g, b, starts, len, n) ==
    g = [i \in 0..n |-> IF i = 0 THEN b ELSE SetSizeAndPinuseOfInuse(g[i - 1], starts[i], len[i])]

\* The states of the loop of ialloc exist.
LEMMA PartsExist ==
    ASSUME NEW b, NEW starts, NEW len, NEW n \in Nat
    PROVE  \E g : Parts(g, b, starts, len, n)
<1>. DEFINE P == {k \in Nat : \E g : Parts(g, b, starts, len, k)}
<1>1. 0 \in P
  <2>. DEFINE g == [i \in 0..0 |-> b]
  <2>1. Parts(g, b, starts, len, 0)
    BY DEF Parts
  <2>. HIDE DEF g
  <2>. QED
    BY <2>1
<1>2. ASSUME NEW k \in 1..n, k - 1 \in P PROVE k \in P
  <2>1. PICK g : Parts(g, b, starts, len, k - 1)
    BY <1>2
  <2>. DEFINE Next1(i, x) == SetSizeAndPinuseOfInuse(x, starts[i], len[i])
              R(h) == [i \in 0..k |-> IF i = 0 THEN b ELSE Next1(i, h[i - 1])]
              h == [i \in 0..k |-> IF i = k THEN Next1(k, g[k - 1]) ELSE g[i]]
  <2>2. \A i \in 0..(k - 1) : g[i] = IF i = 0 THEN b ELSE Next1(i, g[i - 1])
    BY <2>1 DEF Parts
  <2>3. h = R(h)
    <3>. HIDE DEF Next1
    <3>1. \A i \in 0..k : h[i] = IF i = k THEN Next1(k, g[k - 1]) ELSE g[i]
      OBVIOUS
    <3>2. \A i \in 0..k : h[i] = IF i = 0 THEN b ELSE Next1(i, h[i - 1])
      <4>. TAKE i \in 0..k
      <4>1. CASE i = k
        <5>1. k - 1 \in 0..k /\ k - 1 # k /\ k # 0
          OBVIOUS
        <5>. HIDE DEF h
        <5>. QED
          BY <3>1, <4>1, <5>1
      <4>2. CASE i # k
        <5>1. i \in 0..(k - 1) /\ (i # 0 => i - 1 \in 0..k /\ i - 1 # k)
          BY <4>2
        <5>. HIDE DEF h
        <5>. QED
          BY <2>2, <3>1, <4>2, <5>1
      <4>. QED
        BY <4>1, <4>2
    <3>3. h = [i \in 0..k |-> h[i]]
      OBVIOUS
    <3>. HIDE DEF h
    <3>. QED
      BY <3>2, <3>3
  <2>4. Parts(h, b, starts, len, k)
    <3>. HIDE DEF h
    <3>. QED
      BY <2>3 DEF Parts
  <2>. HIDE DEF h
  <2>. QED
    BY <2>4
<1>. HIDE DEF P
<1>3. \A k \in 0..n : k \in P
  BY <1>1, <1>2, EachRound
<1>. QED
  BY <1>3 DEF P

\* The parts of a chunk, from p up to end, where nothing else is.
CutAt(ch, p, end, starts, len, n) ==
    /\ n \in Nat /\ n # 0 /\ end \in Nat
    /\ \A q \in DOMAIN ch : q \in Nat /\ (q <= p \/ end <= q)
    /\ p \in DOMAIN ch /\ p \in Nat /\ starts[1] = p
    /\ \A i \in 1..n : /\ starts[i] \in Nat /\ len[i] \in Nat /\ len[i] > 0 /\ p <= starts[i]
                       /\ starts[i] + len[i] = IF i = n THEN end ELSE starts[i + 1]
                       /\ starts[i] + len[i] <= end
    /\ \A i, j \in 1..n : i < j => starts[i] + len[i] <= starts[j]

\* The first of the starts.
Begun(starts, k) == {starts[i] : i \in 1..k}

\* What is there after k rounds.
AfterParts(n, b, p, starts, len, k) ==
    /\ Wrote(n, b)
    /\ DOMAIN n.chunks = DOMAIN b.chunks \cup Begun(starts, k)
    /\ \A i \in 1..k : n.chunks[starts[i]] = InuseHeader(len[i])
    /\ \A q \in DOMAIN b.chunks : q # p \/ k = 0 => n.chunks[q] = b.chunks[q]

\* One round of it.
LEMMA OnePart ==
    ASSUME NEW b, IsState(b), NEW p, NEW end, NEW starts, NEW len, NEW n,
           CutAt(b.chunks, p, end, starts, len, n),
           NEW k \in 1..n, NEW o, AfterParts(o, b, p, starts, len, k - 1)
    PROVE  AfterParts(SetSizeAndPinuseOfInuse(o, starts[k], len[k]), b, p, starts, len, k)
<1>. DEFINE a == starts[k]
            h == InuseHeader(len[k])
            o2 == SetSizeAndPinuseOfInuse(o, a, len[k])
            D == DOMAIN o.chunks
<1>1. /\ n \in Nat /\ n # 0 /\ end \in Nat
      /\ \A q \in DOMAIN b.chunks : q \in Nat /\ (q <= p \/ end <= q)
      /\ p \in DOMAIN b.chunks /\ p \in Nat /\ starts[1] = p
      /\ \A i \in 1..n : /\ starts[i] \in Nat /\ len[i] \in Nat /\ len[i] > 0 /\ p <= starts[i]
                         /\ starts[i] + len[i] <= end
      /\ \A i, j \in 1..n : i < j => starts[i] + len[i] <= starts[j]
  BY DEF CutAt
<1>2. /\ Wrote(o, b)
      /\ D = DOMAIN b.chunks \cup Begun(starts, k - 1)
      /\ \A i \in 1..(k - 1) : o.chunks[starts[i]] = InuseHeader(len[i])
      /\ \A q \in DOMAIN b.chunks : q # p \/ k - 1 = 0 => o.chunks[q] = b.chunks[q]
  BY DEF AfterParts
<1>3. IsState(o)
  BY <1>2 DEF Wrote, SameRest
<1>4. o2 = Put(o, a, h)
  BY DEF SetSizeAndPinuseOfInuse, InuseHeader
<1>5. Writes(o2, o, Placed(o.chunks, a, h))
  BY <1>3, <1>4, PutIs
<1>6. Wrote(o2, b) /\ o2.chunks = Placed(o.chunks, a, h)
  BY <1>2, <1>5 DEF Writes, Wrote, SameRest, SameBins, SameTop
<1>7. a \in Nat /\ len[k] \in Nat /\ len[k] > 0 /\ p <= a /\ a + len[k] <= end /\ h.size = len[k]
  BY <1>1 DEF InuseHeader, Header
<1>8. \A q \in D : q \notin (a + 1)..(a + len[k] - 1)
  <2>. SUFFICES ASSUME NEW q \in D PROVE q \notin (a + 1)..(a + len[k] - 1)
    OBVIOUS
  <2>1. CASE q \in DOMAIN b.chunks
    BY <1>1, <1>7, <2>1
  <2>2. CASE q \in Begun(starts, k - 1)
    <3>1. PICK i \in 1..(k - 1) : q = starts[i]
      BY <2>2 DEF Begun
    <3>2. i \in 1..n /\ i < k
      BY <1>1
    <3>3. starts[i] + len[i] <= a /\ starts[i] \in Nat /\ len[i] \in Nat
      BY <1>1, <3>2
    <3>. QED
      BY <1>7, <3>1, <3>3
  <2>. QED
    BY <1>2, <2>1, <2>2
<1>. HIDE DEF a, h, o2
<1>9. DOMAIN o2.chunks = D \cup {a} /\ \A x \in D \cup {a} : o2.chunks[x] = IF x = a THEN h ELSE o.chunks[x]
  <2>. DEFINE E == (D \ ((a + 1)..(a + h.size - 1))) \cup {a}
  <2>1. E = D \cup {a}
    BY <1>7, <1>8
  <2>2. o2.chunks = [x \in E |-> IF x = a THEN h ELSE o.chunks[x]]
    BY <1>6 DEF Placed
  <2>. HIDE DEF E
  <2>. QED
    BY <2>1, <2>2
<1>10. Begun(starts, k) = Begun(starts, k - 1) \cup {a}
  <2>1. 1..k = 1..(k - 1) \cup {k}
    BY <1>1
  <2>. QED
    BY <2>1 DEF Begun, a
<1>11. \A i \in 1..k : o2.chunks[starts[i]] = InuseHeader(len[i])
  <2>. TAKE i \in 1..k
  <2>1. CASE i = k
    BY <1>9, <2>1 DEF a, h
  <2>2. CASE i # k
    <3>1. i \in 1..(k - 1) /\ i \in 1..n /\ i < k
      BY <1>1, <2>2
    <3>2. starts[i] \in D /\ starts[i] # a
      <4>1. starts[i] \in Begun(starts, k - 1)
        BY <3>1 DEF Begun
      <4>2. starts[i] + len[i] <= starts[k] /\ len[i] \in Nat /\ len[i] > 0 /\ starts[i] \in Nat
        BY <1>1, <3>1
      <4>. QED
        BY <1>2, <1>7, <4>1, <4>2 DEF a
    <3>. QED
      BY <1>2, <1>9, <3>1, <3>2
  <2>. QED
    BY <2>1, <2>2
<1>12. \A q \in DOMAIN b.chunks : q # p \/ k = 0 => o2.chunks[q] = b.chunks[q]
  <2>. SUFFICES ASSUME NEW q \in DOMAIN b.chunks, q # p PROVE o2.chunks[q] = b.chunks[q]
    BY <1>1
  <2>1. q # a
    BY <1>1, <1>7
  <2>2. q \in D /\ o.chunks[q] = b.chunks[q]
    BY <1>2
  <2>. QED
    BY <1>9, <2>1, <2>2
<1>13. DOMAIN o2.chunks = DOMAIN b.chunks \cup Begun(starts, k)
  BY <1>2, <1>9, <1>10
<1>14. AfterParts(o2, b, p, starts, len, k)
  BY <1>6, <1>11, <1>12, <1>13 DEF AfterParts
<1>. QED
  BY <1>14 DEF o2, a

\* All of its rounds.
LEMMA PartsAre ==
    ASSUME NEW b, IsState(b), NEW p, NEW end, NEW starts, NEW len, NEW n,
           CutAt(b.chunks, p, end, starts, len, n), NEW g, Parts(g, b, starts, len, n)
    PROVE  AfterParts(g[n], b, p, starts, len, n)
<1>. DEFINE P == {k \in 0..n : AfterParts(g[k], b, p, starts, len, k)}
<1>1. n \in Nat /\ \A i \in 0..n : g[i] = IF i = 0 THEN b ELSE SetSizeAndPinuseOfInuse(g[i - 1], starts[i], len[i])
  BY DEF CutAt, Parts
<1>2. 0 \in P
  <2>1. g[0] = b
    BY <1>1
  <2>2. Wrote(b, b)
    BY DEF Wrote, SameRest, SameBins, SameTop
  <2>3. Begun(starts, 0) = {}
    BY DEF Begun
  <2>. QED
    BY <1>1, <2>1, <2>2, <2>3 DEF AfterParts
<1>3. ASSUME NEW k \in 1..n, k - 1 \in P PROVE k \in P
  <2>1. k \in 0..n /\ k # 0
    OBVIOUS
  <2>2. g[k] = SetSizeAndPinuseOfInuse(g[k - 1], starts[k], len[k])
    BY <1>1, <2>1
  <2>3. AfterParts(g[k - 1], b, p, starts, len, k - 1)
    BY <1>3
  <2>4. AfterParts(g[k], b, p, starts, len, k)
    BY <2>2, <2>3, OnePart
  <2>. QED
    BY <2>1, <2>4
<1>. HIDE DEF P
<1>4. \A k \in 0..n : k \in P
  BY <1>1, <1>2, <1>3, EachRound
<1>. QED
  BY <1>1, <1>4 DEF P

\* The parts are chunks in use, in the place of the one chunk p.
PartsMade(m, p, end, starts, len, n, o) ==
    /\ Sound(m) /\ p \in Used(m) /\ m.chunks[p].c /\ m.chunks[p].p /\ end = After(m.chunks, p)
    /\ CutAt(m.chunks, p, end, starts, len, n) /\ AfterParts(o, m, p, starts, len, n)

\* The chunk p is divided among the starts.
PartsDone(m, p, starts, len, n, o) ==
    /\ Sound(o) /\ Frame(o, m, {p}, Begun(starts, n))
    /\ \A i \in 1..n : o.chunks[starts[i]].c /\ o.chunks[starts[i]].size = len[i]

\* A chunk cut into parts in use is a sound heap.
LEMMA PartsSound ==
    ASSUME NEW m, NEW p, NEW end, NEW starts, NEW len, NEW n, NEW o, PartsMade(m, p, end, starts, len, n, o)
    PROVE  PartsDone(m, p, starts, len, n, o)
<1>1. /\ Sound(m) /\ p \in Used(m) /\ m.chunks[p].c /\ m.chunks[p].p /\ end = After(m.chunks, p)
      /\ CutAt(m.chunks, p, end, starts, len, n) /\ AfterParts(o, m, p, starts, len, n)
  BY DEF PartsMade
<1>. DEFINE ch == m.chunks
            ch2 == o.chunks
            N == Begun(starts, n)
            S == {p}
<1>2. Whole(m) /\ Binned(m, {}) /\ IsState(m) /\ Structure(ch, m.top, m.segs, m.regions)
  BY <1>1 DEF Sound, Whole
<1>3. /\ Block(ch, m.segs, p, end, S) /\ end \in Ord(ch) /\ end \in DOMAIN ch /\ ch[end].p
      /\ p \in DOMAIN ch /\ p \in Nat \ {0} /\ HeaderOk(ch[p]) /\ p \notin FreeAt(ch) /\ p # m.top /\ p # NULL
  BY <1>1, <1>2, BehindUsed, UsedIs
<1>4. /\ Run(ch, p, end) /\ S = DOMAIN ch \cap (p..(end - 1)) /\ end \in Nat /\ p < end
      /\ HeaderOk(ch[end]) /\ DOMAIN ch \ (p..(end - 1)) = DOMAIN ch \ S
      /\ m.top \notin p..(end - 1)
  BY <1>2, <1>3, BlockFacts
<1>5. /\ n \in Nat /\ n # 0
      /\ starts[1] = p
      /\ \A i \in 1..n : /\ starts[i] \in Nat /\ len[i] \in Nat /\ len[i] > 0 /\ p <= starts[i]
                         /\ starts[i] + len[i] = IF i = n THEN end ELSE starts[i + 1]
                         /\ starts[i] + len[i] <= end
      /\ \A i, j \in 1..n : i < j => starts[i] + len[i] <= starts[j]
  BY <1>1 DEF CutAt
<1>6. /\ Wrote(o, m)
      /\ DOMAIN ch2 = DOMAIN ch \cup N
      /\ \A i \in 1..n : ch2[starts[i]] = InuseHeader(len[i])
      /\ \A q \in DOMAIN ch : q # p \/ n = 0 => ch2[q] = ch[q]
  BY <1>1 DEF AfterParts
<1>7. \A i \in 1..n : Headed(ch2[starts[i]], len[i], TRUE, TRUE, 0)
  BY <1>5, <1>6, NewHeads
<1>8. \A i \in 1..n : /\ HeaderOk(ch2[starts[i]]) /\ ch2[starts[i]].size = len[i] /\ ch2[starts[i]].c
                      /\ ch2[starts[i]].p /\ ch2[starts[i]].foot = 0
                      /\ After(ch2, starts[i]) = starts[i] + len[i]
  BY <1>7 DEF Headed, After
<1>9. N \subseteq p..(end - 1) /\ p \in N
  <2>1. ASSUME NEW i \in 1..n PROVE starts[i] \in p..(end - 1)
    BY <1>3, <1>4, <1>5
  <2>2. 1 \in 1..n
    BY <1>5
  <2>. QED
    BY <1>5, <2>1, <2>2 DEF Begun
<1>10. ch2[p].p /\ ch2[p].foot = 0
  <2>1. 1 \in 1..n
    BY <1>5
  <2>. QED
    BY <1>5, <1>8, <2>1
<1>11. ch2[end] = ch[end] /\ end \in DOMAIN ch2 /\ ch2[end].p /\ ch2[end].foot = 0
  <2>1. end # p
    BY <1>3, <1>4
  <2>. QED
    BY <1>3, <1>4, <1>6, <2>1 DEF HeaderOk
<1>12. Other(ch, ch2, p, end, N)
  <2>1. DOMAIN ch2 = (DOMAIN ch \ (p..(end - 1))) \cup N
    BY <1>3, <1>4, <1>6, <1>9
  <2>2. \A q \in DOMAIN ch : q < p \/ q > end => ch2[q] = ch[q]
    BY <1>3, <1>4, <1>6
  <2>3. ch2[p].p = ch[p].p /\ ch2[p].foot = ch[p].foot
    <3>1. ch[p].p \in BOOLEAN /\ ch2[p].p \in BOOLEAN /\ ch[p].foot = 0
      <4>1. 1 \in 1..n
        BY <1>5
      <4>2. HeaderOk(ch2[p])
        BY <1>5, <1>8, <4>1
      <4>. QED
        BY <1>1, <1>3, <4>2 DEF HeaderOk
    <3>. QED
      BY <1>1, <1>10, <3>1
  <2>. QED
    BY <1>4, <1>9, <1>11, <2>1, <2>2, <2>3 DEF Other
<1>13. Pieces(ch2, N, end, m.top)
  <2>. SUFFICES ASSUME NEW i \in 1..n
                PROVE  LET q == starts[i] IN
                       /\ HeaderOk(ch2[q]) /\ ch2[q].size > 0 /\ (ch2[q].c \/ ch2[q].p)
                       /\ After(ch2, q) <= end
                       /\ \A r \in N : r <= q \/ After(ch2, q) <= r
                       /\ Tagged(ch2, q, After(ch2, q))
    BY DEF Pieces, Begun
  <2>. DEFINE q == starts[i]
  <2>1. HeaderOk(ch2[q]) /\ ch2[q].size > 0 /\ ch2[q].c /\ After(ch2, q) <= end /\ q \in Nat
    BY <1>5, <1>8
  <2>2. \A r \in N : r <= q \/ After(ch2, q) <= r
    <3>. SUFFICES ASSUME NEW j \in 1..n PROVE starts[j] <= q \/ starts[i] + len[i] <= starts[j]
      BY <1>8 DEF Begun
    <3>1. CASE i < j
      BY <1>5, <3>1
    <3>2. CASE j < i
      <4>1. starts[j] + len[j] <= starts[i] /\ starts[j] \in Nat /\ len[j] \in Nat
        BY <1>5, <3>2
      <4>. QED
        BY <2>1, <4>1
    <3>3. CASE i = j
      BY <2>1, <3>3
    <3>. QED
      BY <3>1, <3>2, <3>3
  <2>3. Tagged(ch2, q, After(ch2, q))
    <3>1. CASE i = n
      <4>1. After(ch2, q) = end
        BY <1>5, <1>8, <3>1
      <4>. QED
        BY <1>8, <1>11, <4>1 DEF Tagged
    <3>2. CASE i # n
      <4>1. i + 1 \in 1..n
        BY <1>5, <3>2
      <4>2. After(ch2, q) = starts[i + 1]
        BY <1>5, <1>8, <3>2
      <4>3. starts[i + 1] \in DOMAIN ch2
        BY <1>6, <4>1 DEF Begun
      <4>. QED
        BY <1>8, <4>1, <4>2, <4>3 DEF Tagged
    <3>. QED
      BY <3>1, <3>2
  <2>. QED
    BY <2>1, <2>2, <2>3
<1>14. Backs(ch2, p, end, N, m.top)
  BY <1>8, <1>11 DEF Backs, Begun
<1>15. \E k \in 1..Len(m.segs) : m.segs[k].base <= p /\ end < m.segs[k].base + m.segs[k].size
  BY <1>3 DEF Block
<1>16. \A i \in 1..Len(m.segs) : m.segs[i].record \notin p..(end - 1)
  BY <1>3 DEF Block
<1>. HIDE DEF N
<1>17. Structure(ch2, m.top, m.segs, m.regions)
  <2>1. PICK k \in 1..Len(m.segs) : m.segs[k].base <= p /\ end < m.segs[k].base + m.segs[k].size
    BY <1>15
  <2>2. p \in Nat
    BY <1>3
  <2>. HIDE DEF ch, ch2
  <2>. QED
    BY ONLY <1>2, <1>4, <1>12, <1>13, <1>14, <1>16, <2>1, <2>2, RetileStructure
<1>18. Retiled(ch, ch2, S, N, {})
  <2>1. Layout(ch, m.top)
    BY <1>2 DEF Structure
  <2>2. {q \in N : ~ch2[q].c} = {}
    BY <1>8 DEF N, Begun
  <2>3. p \in Nat
    BY <1>3
  <2>4. FreeAt(ch) \subseteq DOMAIN ch /\ Ord(ch) \subseteq DOMAIN ch
    BY DEF FreeAt, Ord
  <2>5. /\ \A q \in DOMAIN ch \ (p..(end - 1)) :
             q \in DOMAIN ch2 /\ ch2[q].size = ch[q].size /\ ch2[q].c = ch[q].c
        /\ Ord(ch2) = (Ord(ch) \ (p..(end - 1))) \cup N
        /\ FreeAt(ch2) = (FreeAt(ch) \ (p..(end - 1))) \cup {q \in N : ~ch2[q].c}
        /\ Direct(ch2) = Direct(ch)
    <3>. HIDE DEF ch, ch2
    <3>. QED
      BY ONLY <1>4, <1>12, <1>13, <1>14, <2>1, <2>3, RetileSets
  <2>6. DOMAIN ch2 = (DOMAIN ch \ (p..(end - 1))) \cup N
    BY <1>12 DEF Other
  <2>7. Ord(ch) \ (p..(end - 1)) = Ord(ch) \ S /\ FreeAt(ch) \ (p..(end - 1)) = FreeAt(ch) \ S
    <3>. DEFINE In == p..(end - 1)
    <3>1. DOMAIN ch \ In = DOMAIN ch \ S
      BY <1>4
    <3>. DEFINE D == DOMAIN ch
                O == Ord(ch)
                F == FreeAt(ch)
    <3>2. O \subseteq D /\ F \subseteq D /\ D \ In = D \ S
      BY <2>4, <3>1
    <3>. HIDE DEF In, S, D, O, F
    <3>3. O \ In = O \ S
      BY <3>2
    <3>4. F \ In = F \ S
      BY <3>2
    <3>. QED
      BY <3>3, <3>4 DEF O, F, In
  <2>. HIDE DEF ch, ch2, S
  <2>. QED
    BY <1>4, <2>2, <2>5, <2>6, <2>7 DEF Retiled
<1>19. Rebinned(o, m, S, {})
  <2>1. m.dv # p
    <3>1. m.dv # NULL => m.dv \in FreeAt(ch)
      BY <1>2 DEF Binned
    <3>. QED
      BY <1>3, <3>1
  <2>. QED
    BY <1>3, <1>6, <2>1, NoneFree DEF Wrote, SameBins, SameDv
<1>20. Cleared(m, {}, p, end, S)
  BY <1>2, <1>3 DEF Cleared
<1>21. Remade(m, {}, p, end, S, o, N, {})
  <2>1. SameRest(o, m) /\ o.top = m.top
    BY <1>6 DEF Wrote, SameTop
  <2>. QED
    BY <1>9, <1>17, <1>18, <1>19, <1>20, <2>1 DEF Remade
<1>22. Sound(o) /\ Frame(o, m, S, N \ {})
  BY <1>21, Resound
<1>23. N \ {} = N
  OBVIOUS
<1>24. Sound(o) /\ Frame(o, m, S, N)
  BY <1>22, <1>23
<1>. QED
  BY <1>8, <1>24 DEF PartsDone, N

-----------------------------------------------------------------------------
\* The chunk q of n is within the chunk p of m.
Within(n, q, m, p) == p <= q /\ q + n.chunks[q].size <= p + m.chunks[p].size

\* p is divided into chunks of the sizes.
Divided(n, m, p, sizes) ==
    /\ Sound(n) /\ Frame(n, m, {p}, Begun(Starts(p, sizes), Len(sizes)))
    /\ \A i \in 1..Len(sizes) : /\ n.chunks[Starts(p, sizes)[i]].c
                                /\ sizes[i] <= n.chunks[Starts(p, sizes)[i]].size
                                /\ Starts(p, sizes)[i] \notin DOMAIN m.chunks \ {p}
                                /\ Within(n, Starts(p, sizes)[i], m, p)
    /\ \A i, j \in 1..Len(sizes) : i # j => Starts(p, sizes)[i] # Starts(p, sizes)[j]

\* ialloc's division of a chunk keeps the heap sound: every element has the size asked for.
LEMMA DivideIs ==
    ASSUME NEW m, Sound(m), NEW p \in Used(m), m.chunks[p].c, m.chunks[p].p,
           NEW sizes, sizes \in Seq(MinChunk..MaxSize), sizes # <<>>,
           SumUpTo(sizes, Len(sizes)) <= m.chunks[p].size
    PROVE  Divided(Divide(m, p, sizes), m, p, sizes)
<1>. DEFINE n == Len(sizes)
            starts == Starts(p, sizes)
            end == p + ChunkSize(m, p)
            sizeOf(i) == IF i = Len(sizes) THEN Remaining(end - starts[i]) ELSE sizes[i]
            len == [i \in 1..n |-> sizeOf(i)]
            b == Check(m, ~IsMmapped(m, p))
            R(f) == [i \in 0..n |-> IF i = 0 THEN b ELSE SetSizeAndPinuseOfInuse(f[i - 1], starts[i], sizeOf(i))]
            g == CHOOSE f : f = R(f)
            o == Divide(m, p, sizes)
<1>1. o = g[n]
  BY DEF Divide
<1>2. Whole(m) /\ IsState(m)
  BY DEF Sound, Whole
<1>3. /\ p \in DOMAIN m.chunks /\ p \in Nat \ {0} /\ m.chunks[p].size \in Nat \ {0}
      /\ ChunkSize(m, p) = m.chunks[p].size /\ ~IsMmapped(m, p)
  BY <1>2, UsedIs
<1>4. b = m
  BY <1>3 DEF Check
<1>5. n \in Nat /\ n # 0 /\ DOMAIN sizes = 1..n /\ \A i \in 1..n : sizes[i] \in MinChunk..MaxSize
  <2>. DEFINE T == MinChunk..MaxSize
  <2>. HIDE DEF T
  <2>1. sizes \in Seq(T)
    BY DEF T
  <2>2. n \in Nat /\ DOMAIN sizes = 1..n /\ \A i \in 1..n : sizes[i] \in T
    BY <2>1, LenProperties, ElementOfSeq
  <2>3. n # 0
    BY <2>1, EmptySeq
  <2>. QED
    BY <2>2, <2>3 DEF T
<1>6. \A i \in 1..n : sizes[i] \in Nat \ {0} /\ sizes[i] >= 2
  BY SMTT(30), <1>5, SizeAssumption DEF MinChunk
<1>. DEFINE sum(i) == SumUpTo(sizes, i)
<1>7. /\ sum(0) = 0
      /\ \A i \in 1..n : sum(i) = sum(i - 1) + sizes[i]
      /\ \A i \in 0..n : sum(i) \in Nat
      /\ \A i, j \in 0..n : i < j => sum(i) < sum(j)
      /\ sum(n) <= m.chunks[p].size
  <2>1. sum(n) <= m.chunks[p].size
    OBVIOUS
  <2>2. \A i \in 1..n : sizes[i] \in Nat \ {0}
    BY <1>6
  <2>. QED
    BY <1>5, <2>1, <2>2, SumUpToIs
<1>8. \A i \in 1..n : starts[i] = p + sum(i - 1)
  BY <1>5 DEF Starts
<1>9. end \in Nat /\ end = p + m.chunks[p].size /\ end = After(m.chunks, p)
  BY <1>3 DEF After
<1>. HIDE DEF sum, n, starts, end, b, o
<1>10. \A i \in 1..n : len[i] = IF i = n THEN Remaining(end - starts[i]) ELSE sizes[i]
  BY DEF n
<1>10a. \A i \in 1..n : sizeOf(i) = len[i]
  BY <1>10 DEF n
<1>. HIDE DEF len
<1>11. Parts(g, m, starts, len, n)
  <2>1. PICK f : Parts(f, b, starts, len, n)
    BY <1>5, PartsExist
  <2>2. \A h : R(h) = [i \in 0..n |-> IF i = 0 THEN b ELSE SetSizeAndPinuseOfInuse(h[i - 1], starts[i], len[i])]
    <3>. TAKE h
    <3>1. \A i \in 0..n : i # 0 => i \in 1..n
      BY <1>5
    <3>. HIDE DEF sizeOf
    <3>. QED
      BY <1>10a, <3>1
  <2>. HIDE DEF R
  <2>3. f = R(f)
    BY <2>1, <2>2 DEF Parts
  <2>4. g = R(g)
    BY <2>3
  <2>. HIDE DEF g
  <2>. QED
    BY <1>4, <2>2, <2>4 DEF Parts
<1>. HIDE DEF g, R
<1>12. \A i \in 1..n : /\ starts[i] \in Nat /\ p <= starts[i] /\ len[i] \in Nat /\ len[i] > 0
                       /\ starts[i] + len[i] = IF i = n THEN end ELSE starts[i + 1]
                       /\ starts[i] + len[i] <= end /\ sizes[i] <= len[i]
  <2>. TAKE i \in 1..n
  <2>1. /\ i - 1 \in 0..n /\ i \in 0..n /\ sum(i) = sum(i - 1) + sizes[i] /\ sum(i - 1) \in Nat /\ sum(i) \in Nat
        /\ starts[i] = p + sum(i - 1) /\ sizes[i] \in Nat \ {0} /\ sum(n) \in Nat
    BY <1>5, <1>6, <1>7, <1>8
  <2>2. sum(i) <= sum(n)
    <3>1. i = n \/ i < n
      BY <1>5
    <3>2. n \in 0..n
      BY <1>5
    <3>3. i < n => sum(i) < sum(n)
      BY <1>7, <2>1, <3>2
    <3>. QED
      BY <2>1, <3>1, <3>3
  <2>3. starts[i] + sizes[i] <= end /\ starts[i] \in Nat /\ p <= starts[i]
    <3>. DEFINE a == sum(i - 1)
                d == sum(i)
                e == sum(n)
                s == m.chunks[p].size
    <3>1. /\ a \in Nat /\ d \in Nat /\ e \in Nat /\ s \in Nat /\ p \in Nat /\ d = a + sizes[i]
          /\ d <= e /\ e <= s /\ starts[i] = p + a /\ end = p + s /\ sizes[i] \in Nat
      BY <1>3, <1>7, <1>9, <2>1, <2>2
    <3>. HIDE DEF a, d, e, s
    <3>. QED
      BY ONLY <3>1
  <2>4. CASE i = n
    <3>1. len[i] = Remaining(end - starts[i])
      BY <1>10, <2>4
    <3>2. end \in Nat /\ starts[i] \in Nat /\ sizes[i] \in Nat \ {0} /\ starts[i] + sizes[i] <= end /\ p <= starts[i]
      BY <1>9, <2>1, <2>3
    <3>3. len[i] \in Nat /\ len[i] > 0 /\ starts[i] + len[i] = end /\ sizes[i] <= len[i]
      BY ONLY <3>1, <3>2 DEF Remaining
    <3>. QED
      BY <2>4, <3>2, <3>3
  <2>5. CASE i # n
    <3>1. i + 1 \in 1..n
      BY <1>5, <2>5
    <3>2. starts[i + 1] = p + sum(i)
      BY <1>8, <3>1
    <3>3. len[i] = sizes[i]
      BY <1>10, <2>5
    <3>4. /\ starts[i] = p + sum(i - 1) /\ sum(i) = sum(i - 1) + sizes[i] /\ sizes[i] \in Nat \ {0}
          /\ sum(i - 1) \in Nat /\ starts[i] + sizes[i] <= end /\ starts[i] \in Nat /\ p <= starts[i]
      BY <2>1, <2>3
    <3>5. p \in Nat
      BY <1>3
    <3>6. /\ len[i] \in Nat /\ len[i] > 0 /\ starts[i] + len[i] = starts[i + 1]
          /\ starts[i] + len[i] <= end /\ sizes[i] <= len[i]
      BY ONLY <3>2, <3>3, <3>4, <3>5
    <3>. QED
      BY <2>3, <2>5, <3>5, <3>4, <3>6
  <2>. QED
    BY <2>4, <2>5
<1>13. \A i, j \in 1..n : i < j => starts[i] + len[i] <= starts[j]
  <2>. SUFFICES ASSUME NEW i \in 1..n, NEW j \in 1..n, i < j PROVE starts[i] + len[i] <= starts[j]
    OBVIOUS
  <2>1. i # n /\ i + 1 \in 1..n /\ i \in 0..n /\ j - 1 \in 0..n /\ (i = j - 1 \/ i < j - 1)
    BY <1>5
  <2>2. starts[i] + len[i] = p + sum(i) /\ starts[j] = p + sum(j - 1)
    <3>1. starts[i + 1] = p + sum((i + 1) - 1)
      BY <1>8, <2>1
    <3>2. (i + 1) - 1 = i
      BY <1>5
    <3>3. starts[i] + len[i] = starts[i + 1]
      BY <1>12, <2>1
    <3>. QED
      BY <1>8, <3>1, <3>2, <3>3
  <2>3. sum(i) \in Nat /\ sum(j - 1) \in Nat /\ sum(i) <= sum(j - 1)
    BY SMTT(30), <1>7, <2>1
  <2>. QED
    BY <1>3, <2>2, <2>3
<1>14. CutAt(m.chunks, p, end, starts, len, n)
  <2>1. \A q \in DOMAIN m.chunks : q \in Nat /\ (q <= p \/ end <= q)
    <3>1. Layout(m.chunks, m.top) /\ p \in Ord(m.chunks)
      BY <1>2, UsedIs DEF Whole, Structure
    <3>. QED
      BY <1>9, <3>1 DEF Layout
  <2>2. starts[1] = p
    <3>1. 1 \in 1..n /\ 1 - 1 = 0
      BY <1>5
    <3>. QED
      BY <1>3, <1>7, <1>8, <3>1
  <2>. QED
    BY <1>3, <1>5, <1>9, <1>12, <1>13, <2>1, <2>2 DEF CutAt
<1>15. AfterParts(o, m, p, starts, len, n)
  BY <1>1, <1>2, <1>11, <1>14, PartsAre
<1>16. PartsMade(m, p, end, starts, len, n, o)
  BY <1>9, <1>14, <1>15 DEF PartsMade
<1>17. PartsDone(m, p, starts, len, n, o)
  BY <1>16, PartsSound
<1>18. \A i, j \in 1..n : i # j => starts[i] # starts[j]
  <2>. SUFFICES ASSUME NEW i \in 1..n, NEW j \in 1..n, i < j PROVE starts[i] # starts[j]
    BY <1>5
  <2>. QED
    BY <1>12, <1>13
<1>19. Divided(o, m, p, sizes)
  <2>1. \A i \in 1..n : o.chunks[starts[i]].c /\ sizes[i] <= o.chunks[starts[i]].size
    BY <1>12, <1>17 DEF PartsDone
  <2>2. \A i \in 1..n : starts[i] \notin DOMAIN m.chunks \ {p}
    <3>1. \A i \in 1..n : p <= starts[i] /\ starts[i] < end
      BY <1>9, <1>12
    <3>2. \A q \in DOMAIN m.chunks : q \in Nat /\ (q <= p \/ end <= q)
      BY <1>14 DEF CutAt
    <3>. QED
      BY SMTT(30), <1>3, <1>9, <1>12, <3>1, <3>2
  <2>3. \A i \in 1..n : Within(o, starts[i], m, p)
    <3>1. \A i \in 1..n : p <= starts[i] /\ starts[i] + len[i] <= end /\ o.chunks[starts[i]].size = len[i]
      BY <1>12, <1>17 DEF PartsDone
    <3>. QED
      BY <1>9, <3>1 DEF Within
  <2>. QED
    BY <1>17, <1>18, <2>1, <2>2, <2>3 DEF PartsDone, Divided, starts, n
<1>. QED
  BY <1>19 DEF o

-----------------------------------------------------------------------------
(* A part of the address space, from b up to e, is given other chunks.     *)

\* The first header of the part says what it said of the chunk before.
Marked(ch, ch2, p, b) == After(ch, p) = b /\ Tagged(ch2, p, b)

\* Outside, ch2 is as ch, and no chunk of ch crosses the border.
Outside(ch, top, ch2, b, e) ==
    LET W == b..(e - 1) IN
    /\ b \in Nat /\ e \in Nat
    /\ DOMAIN ch2 \ W = DOMAIN ch \ W
    /\ \A q \in DOMAIN ch \ W : ch2[q] = ch[q]
    /\ \A p \in Ord(ch) \ W : p >= e \/ (After(ch, p) <= b /\ (p = top \/ After(ch, p) \notin W \/ Marked(ch, ch2, p, b)))
    /\ \A p \in (Ord(ch) \cap W) \ {top} : After(ch, p) \in W

\* The chunks inside are laid out among themselves.
InsideOk(ch2, top2, b, e) ==
    LET W == b..(e - 1) IN
    /\ \A p \in DOMAIN ch2 \cap W : p \in Nat \ {0} /\ HeaderOk(ch2[p])
    /\ \A p \in Ord(ch2) \cap W : /\ After(ch2, p) <= e
                                  /\ \A q \in DOMAIN ch2 \cap W : q <= p \/ After(ch2, p) <= q
                                  /\ p # top2 => Tagged(ch2, p, After(ch2, p))
    /\ \A q \in Ord(ch2) \cap W : ~ch2[q].p => \E p \in (Ord(ch2) \cap W) \ {top2} : After(ch2, p) = q

\* Top stays, or is one of those exchanged.
TopSwap(ch2, top, top2, b, e) ==
    LET W == b..(e - 1) IN
    \/ top2 = top /\ top \notin W
    \/ top2 # NULL /\ top2 \in FreeAt(ch2) \cap W /\ (top \in W \/ top = NULL)
    \/ top2 = NULL /\ top \in W

\* Layout is kept when what is from b up to e is exchanged.
LEMMA LayoutSwap ==
    ASSUME NEW ch, NEW top, Layout(ch, top), NEW ch2, NEW top2, NEW b, NEW e,
           Outside(ch, top, ch2, b, e), InsideOk(ch2, top2, b, e), TopSwap(ch2, top, top2, b, e)
    PROVE  /\ Layout(ch2, top2)
           /\ Ord(ch2) \ (b..(e - 1)) = Ord(ch) \ (b..(e - 1))
           /\ FreeAt(ch2) \ (b..(e - 1)) = FreeAt(ch) \ (b..(e - 1))
           /\ Direct(ch2) \ (b..(e - 1)) = Direct(ch) \ (b..(e - 1))
<1>. DEFINE W == b..(e - 1)
<1>1. /\ b \in Nat /\ e \in Nat
      /\ DOMAIN ch2 \ W = DOMAIN ch \ W
      /\ \A q \in DOMAIN ch \ W : ch2[q] = ch[q]
      /\ \A p \in Ord(ch) \ W : p >= e \/ (After(ch, p) <= b /\ (p = top \/ After(ch, p) \notin W \/ Marked(ch, ch2, p, b)))
      /\ \A p \in (Ord(ch) \cap W) \ {top} : After(ch, p) \in W
  BY DEF Outside
<1>2. /\ \A p \in DOMAIN ch2 \cap W : p \in Nat \ {0} /\ HeaderOk(ch2[p])
      /\ \A p \in Ord(ch2) \cap W : /\ After(ch2, p) <= e
                                    /\ \A q \in DOMAIN ch2 \cap W : q <= p \/ After(ch2, p) <= q
                                    /\ p # top2 => Tagged(ch2, p, After(ch2, p))
      /\ \A q \in Ord(ch2) \cap W : ~ch2[q].p => \E p \in (Ord(ch2) \cap W) \ {top2} : After(ch2, p) = q
  BY DEF InsideOk
<1>3. /\ \A p \in DOMAIN ch : p \in Nat \ {0} /\ HeaderOk(ch[p]) /\ ch[p].size \in Nat
      /\ \A p \in Ord(ch), q \in DOMAIN ch : q <= p \/ After(ch, p) <= q
      /\ \A p \in Ord(ch) \ {top} : Tagged(ch, p, After(ch, p))
      /\ \A q \in Ord(ch) : ~ch[q].p => \E p \in Ord(ch) \ {top} : After(ch, p) = q
      /\ top # NULL => top \in FreeAt(ch)
  BY DEF Layout, HeaderOk
<1>3a. \A q \in Nat : q \notin W <=> q < b \/ q >= e
  BY <1>1
<1>. HIDE DEF W
<1>4. \A q : q \notin W => /\ q \in DOMAIN ch2 <=> q \in DOMAIN ch
                           /\ q \in DOMAIN ch => ch2[q] = ch[q] /\ After(ch2, q) = After(ch, q)
                           /\ q \in Ord(ch2) <=> q \in Ord(ch)
                           /\ q \in FreeAt(ch2) <=> q \in FreeAt(ch)
                           /\ q \in Direct(ch2) <=> q \in Direct(ch)
  BY <1>1 DEF After, Ord, FreeAt, Direct
<1>5. Ord(ch) \subseteq DOMAIN ch /\ Ord(ch2) \subseteq DOMAIN ch2
  BY DEF Ord
<1>6. \A p \in Ord(ch) : p \in Nat /\ After(ch, p) \in Nat /\ p < After(ch, p)
  BY <1>3 DEF Ord, After
<1>7. \A p \in Ord(ch2) \cap W : p \in Nat /\ After(ch2, p) \in Nat /\ p < After(ch2, p)
  BY <1>2 DEF Ord, After, HeaderOk
<1>8. ASSUME NEW p \in DOMAIN ch2 PROVE p \in Nat \ {0} /\ HeaderOk(ch2[p])
  BY <1>2, <1>3, <1>4
<1>9. ASSUME NEW p \in Ord(ch2), NEW q \in DOMAIN ch2 PROVE q <= p \/ After(ch2, p) <= q
  <2>. p \in Nat /\ q \in Nat
    BY <1>5, <1>8
  <2>1. CASE p \in W /\ q \in W
    BY <1>2, <2>1
  <2>2. CASE p \notin W /\ q \notin W
    <3>1. p \in Ord(ch) /\ p \in DOMAIN ch /\ q \in DOMAIN ch /\ After(ch2, p) = After(ch, p)
      BY <1>4, <1>5, <2>2
    <3>. QED
      BY <1>3, <3>1
  <2>3. CASE p \in W /\ q \notin W
    <3>1. After(ch2, p) <= e /\ After(ch2, p) \in Nat
      BY <1>2, <1>7, <2>3
    <3>2. q < b \/ q >= e
      BY <1>3a, <2>3
    <3>3. ~(p < b)
      BY <1>3a, <2>3
    <3>. QED
      BY <1>1, <3>1, <3>2, <3>3
  <2>4. CASE p \notin W /\ q \in W
    <3>1. p \in Ord(ch) /\ After(ch2, p) = After(ch, p) /\ After(ch, p) \in Nat
      BY <1>4, <1>5, <1>6, <2>4
    <3>2. p >= e \/ After(ch, p) <= b
      BY <1>1, <2>4, <3>1
    <3>3. ~(q < b) /\ ~(q >= e)
      BY <1>3a, <2>4
    <3>. QED
      BY <1>1, <3>1, <3>2, <3>3
  <2>. QED
    BY <2>1, <2>2, <2>3, <2>4
<1>10. ASSUME NEW p \in Ord(ch2) \ {top2} PROVE Tagged(ch2, p, After(ch2, p))
  <2>1. CASE p \in W
    BY <1>2, <2>1
  <2>2. CASE p \notin W
    <3>1. p \in Ord(ch) /\ p \in DOMAIN ch /\ ch2[p] = ch[p] /\ After(ch2, p) = After(ch, p)
      BY <1>4, <1>5, <2>2
    <3>2. p # top
      <4>1. NULL \notin DOMAIN ch
        BY <1>3 DEF NULL
      <4>. QED
        BY <2>2, <3>1, <4>1 DEF TopSwap, W
    <3>3. Tagged(ch, p, After(ch, p)) /\ After(ch, p) \in Nat /\ p < After(ch, p) /\ p \in Nat
      BY <1>3, <1>6, <3>1, <3>2
    <3>8. CASE Marked(ch, ch2, p, b)
      BY <3>1, <3>8 DEF Marked
    <3>9. CASE ~Marked(ch, ch2, p, b)
      <4>4. After(ch, p) \notin W
        <5>1. p >= e \/ After(ch, p) \notin W
          BY <1>1, <2>2, <3>1, <3>2, <3>9
        <5>2. p >= e => After(ch, p) >= e
          BY <1>1, <3>3
        <5>. QED
          BY <1>3a, <3>3, <5>1, <5>2
      <4>5. After(ch, p) \in DOMAIN ch
        BY <3>3 DEF Tagged
      <4>6. After(ch, p) \in DOMAIN ch2 /\ ch2[After(ch, p)] = ch[After(ch, p)]
        BY <1>4, <4>4, <4>5
      <4>. QED
        BY <3>1, <3>3, <4>6 DEF Tagged
    <3>. QED
      BY <3>8, <3>9
  <2>. QED
    BY <2>1, <2>2
<1>11. ASSUME NEW q \in Ord(ch2), ~ch2[q].p PROVE \E p \in Ord(ch2) \ {top2} : After(ch2, p) = q
  <2>1. CASE q \in W
    BY <1>2, <1>11, <2>1
  <2>2. CASE q \notin W
    <3>1. q \in Ord(ch) /\ ~ch[q].p
      BY <1>4, <1>5, <1>11, <2>2
    <3>2. PICK p \in Ord(ch) \ {top} : After(ch, p) = q
      BY <1>3, <3>1
    <3>3. p \notin W
      BY <1>1, <2>2, <3>2
    <3>4. p \in Ord(ch2) /\ After(ch2, p) = q
      BY <1>4, <1>5, <3>2, <3>3
    <3>5. p # top2
      <4>1. p # NULL
        BY <1>3, <1>5, <3>2 DEF NULL
      <4>. QED
        BY <3>2, <3>3, <4>1 DEF TopSwap, W
    <3>. QED
      BY <3>4, <3>5
  <2>. QED
    BY <2>1, <2>2
<1>12. top2 # NULL => top2 \in FreeAt(ch2)
  <2>1. CASE top2 = top /\ top \notin W
    BY <1>3, <1>4, <2>1
  <2>2. CASE top2 \in FreeAt(ch2)
    BY <2>2
  <2>. QED
    BY <2>1, <2>2 DEF TopSwap, W
<1>13. Layout(ch2, top2)
  BY <1>8, <1>9, <1>10, <1>11, <1>12 DEF Layout
<1>14. Ord(ch2) \ W = Ord(ch) \ W /\ FreeAt(ch2) \ W = FreeAt(ch) \ W /\ Direct(ch2) \ W = Direct(ch) \ W
  BY <1>4
<1>. QED
  BY <1>13, <1>14 DEF W

\* Segments and mapped chunks of which nothing changes.
LEMMA SegmentKept ==
    ASSUME NEW ch, NEW top, NEW seg, SegmentOk(ch, top, seg), NEW ch2, NEW top2,
           seg.record # NULL \/ top2 = top,
           \A q : Holds(seg, q) /\ (q \in DOMAIN ch \/ q \in DOMAIN ch2) =>
             q \in DOMAIN ch /\ q \in DOMAIN ch2 /\ ch2[q] = ch[q],
           seg.base \in Nat, seg.size \in Nat \ {0}
    PROVE  SegmentOk(ch2, top2, seg)
<1>1. Limit(seg, top2) = Limit(seg, top) /\ Holds(seg, seg.base)
  BY DEF Limit, Holds
<1>. DEFINE l == Limit(seg, top)
<1>2. /\ seg.base \in Ord(ch) /\ ch[seg.base].p
      /\ l \in DOMAIN ch /\ Holds(seg, l)
      /\ \A q \in DOMAIN ch : Holds(seg, q) => q <= l /\ (q < l => q \in Ord(ch))
      /\ seg.record = NULL => After(ch, top) + TopFoot = seg.base + seg.size
      /\ seg.record # NULL => /\ seg.record \in Ord(ch) /\ Holds(seg, seg.record)
                              /\ seg.record + TopFoot <= seg.base + seg.size
                              /\ ch[seg.record].c /\ ch[seg.record].size = SegmentSize
                              /\ ch[l].size = 0
  BY DEF SegmentOk
<1>3. \A q : Holds(seg, q) => /\ q \in DOMAIN ch <=> q \in DOMAIN ch2
                              /\ q \in DOMAIN ch => ch2[q] = ch[q] /\ After(ch2, q) = After(ch, q)
                              /\ q \in Ord(ch) <=> q \in Ord(ch2)
  BY DEF After, Ord
<1>. HIDE DEF l
<1>4. seg.base \in Ord(ch2) /\ ch2[seg.base].p /\ l \in DOMAIN ch2 /\ ch2[l] = ch[l]
  BY <1>1, <1>2, <1>3 DEF Ord
<1>5. \A q \in DOMAIN ch2 : Holds(seg, q) => q <= l /\ (q < l => q \in Ord(ch2))
  BY <1>2, <1>3
<1>6. seg.record = NULL => After(ch2, top2) + TopFoot = seg.base + seg.size
  <2>1. seg.record = NULL => l = top /\ top2 = top
    BY DEF Limit, l
  <2>. QED
    BY <1>2, <1>3, <2>1
<1>7. seg.record # NULL => seg.record \in Ord(ch2) /\ ch2[seg.record] = ch[seg.record]
  BY <1>2, <1>3 DEF Ord
<1>. QED
  BY <1>1, <1>2, <1>4, <1>5, <1>6, <1>7 DEF SegmentOk, l

\* A mapped chunk stays one when nothing changes in its region.
LEMMA DirectKept ==
    ASSUME NEW ch, NEW p \in Direct(ch), DirectOk(ch, p), NEW ch2,
           ch[p].foot \in Nat, p \in Nat, ch[p].size \in Nat,
           \A q \in Nat : p - ch[p].foot <= q /\ q < After(ch, p) + MmapFootPad
               /\ (q \in DOMAIN ch \/ q \in DOMAIN ch2) =>
             q \in DOMAIN ch /\ q \in DOMAIN ch2 /\ ch2[q] = ch[q],
           \A q \in DOMAIN ch2 : q \in Nat
    PROVE  DirectOk(ch2, p) /\ p \in Direct(ch2) /\ DirectSpace(ch2, p) = DirectSpace(ch, p) /\ ch2[p] = ch[p]
<1>. DEFINE y == After(ch, p)
<1>1. /\ ch[p].foot < p /\ y \in DOMAIN ch /\ ch[y].size = 0 /\ p \in DOMAIN ch
      /\ \A q \in DOMAIN ch : p - ch[p].foot <= q /\ q < y + MmapFootPad => q = p \/ q = y
  BY DEF DirectOk, Direct
<1>2. y \in Nat /\ y = p + ch[p].size
  BY DEF After
<1>. HIDE DEF y
<1>3. /\ p - ch[p].foot <= p /\ p < y + MmapFootPad
      /\ p - ch[p].foot <= y /\ y < y + MmapFootPad
  BY <1>2 DEF MmapFootPad
<1>4. ch2[p] = ch[p] /\ p \in DOMAIN ch2 /\ ch2[y] = ch[y] /\ y \in DOMAIN ch2
  BY <1>1, <1>2, <1>3 DEF y
<1>5. After(ch2, p) = y
  BY <1>2, <1>4 DEF After
<1>6. \A q \in DOMAIN ch2 : p - ch[p].foot <= q /\ q < y + MmapFootPad => q = p \/ q = y
  BY <1>1 DEF y
<1>7. DirectOk(ch2, p)
  BY <1>1, <1>4, <1>5, <1>6 DEF DirectOk
<1>. QED
  BY <1>4, <1>5, <1>7 DEF Direct, DirectSpace, y

-----------------------------------------------------------------------------
(* Spaces that come and go. *)

\* The addresses from b up to e.
Space(b, e) == [base |-> b, end |-> e]

\* Two spaces with no address in common are apart.
LEMMA ApartIs ==
    ASSUME NEW s, NEW t, s.base \in Nat, s.end \in Nat, t.base \in Nat, t.end \in Nat,
           s.base < s.end, t.base < t.end,
           \A q \in Nat : ~(s.base <= q /\ q < s.end /\ t.base <= q /\ q < t.end)
    PROVE  Separate(s, t)
<1>1. CASE s.base <= t.base
  <2>1. ~(s.base <= t.base /\ t.base < s.end /\ t.base <= t.base /\ t.base < t.end)
    OBVIOUS
  <2>. QED
    BY <1>1, <2>1 DEF Separate
<1>2. CASE t.base <= s.base
  <2>1. ~(s.base <= s.base /\ s.base < s.end /\ t.base <= s.base /\ s.base < t.end)
    OBVIOUS
  <2>. QED
    BY <1>2, <2>1 DEF Separate
<1>. QED
  BY <1>1, <1>2

\* What SpacesOk says, for citing.
LEMMA SpaceFacts ==
    ASSUME NEW S, NEW rg, SpacesOk(S, rg)
    PROVE  /\ \A s \in S : s.base \in Nat \ {0} /\ s.end \in Nat /\ s.base < s.end
           /\ \A s, t \in S : s # t => Separate(s, t)
           /\ \A r \in DOMAIN rg : /\ r \in Nat \ {0} /\ rg[r] \in Nat \ {0}
                                   /\ \E s \in S : s.base <= r /\ r + rg[r] <= s.end
           /\ \A r, q \in DOMAIN rg : r # q => r + rg[r] <= q \/ q + rg[q] <= r
           /\ \A s \in S : \A a \in Nat : s.base <= a /\ a < s.end =>
                \E r \in DOMAIN rg : r <= a /\ a < r + rg[r]
<1>1. /\ \A s \in S : s.base \in Nat \ {0} /\ s.end \in Nat /\ s.base < s.end
      /\ \A s, t \in S : s # t => Separate(s, t)
      /\ \A r \in DOMAIN rg : /\ r \in Nat \ {0} /\ rg[r] \in Nat \ {0}
                              /\ \E s \in S : s.base <= r /\ r + rg[r] <= s.end
      /\ \A r, q \in DOMAIN rg : r # q => r + rg[r] <= q \/ q + rg[q] <= r
      /\ \A s \in S : \A a \in s.base..(s.end - 1) :
           \E r \in DOMAIN rg : r <= a /\ a < r + rg[r]
  BY DEF SpacesOk
<1>2. ASSUME NEW s \in S, NEW a \in Nat, s.base <= a, a < s.end PROVE a \in s.base..(s.end - 1)
  BY <1>1, <1>2
<1>. QED
  BY <1>1, <1>2

\* A region given by the system is apart from all spaces.
LEMMA AddSpace ==
    ASSUME NEW S, NEW rg, SpacesOk(S, rg), NEW a \in Nat \ {0}, NEW size \in Nat \ {0},
           \A r \in DOMAIN rg : a + size <= r \/ r + rg[r] <= a,
           NEW s, s = Space(a, a + size)
    PROVE  /\ SpacesOk(S \cup {s}, With(rg, a, size))
           /\ \A t \in S : Separate(s, t)
           /\ a \notin DOMAIN rg
<1>1. s.base = a /\ s.end = a + size /\ a + size \in Nat /\ a < a + size
  BY DEF Space
<1>2. /\ \A t \in S : t.base \in Nat \ {0} /\ t.end \in Nat /\ t.base < t.end
      /\ \A t, u \in S : t # u => Separate(t, u)
      /\ \A r \in DOMAIN rg : /\ r \in Nat \ {0} /\ rg[r] \in Nat \ {0}
                              /\ \E t \in S : t.base <= r /\ r + rg[r] <= t.end
      /\ \A r, q \in DOMAIN rg : r # q => r + rg[r] <= q \/ q + rg[q] <= r
      /\ \A t \in S : \A x \in Nat : t.base <= x /\ x < t.end =>
           \E r \in DOMAIN rg : r <= x /\ x < r + rg[r]
  BY SpaceFacts
<1>3. ASSUME NEW t \in S PROVE Separate(s, t)
  <2>1. ASSUME NEW q \in Nat, s.base <= q, q < s.end, t.base <= q, q < t.end PROVE FALSE
    <3>1. PICK r \in DOMAIN rg : r <= q /\ q < r + rg[r]
      BY <1>2, <2>1
    <3>2. a + size <= r \/ r + rg[r] <= a
      OBVIOUS
    <3>. QED
      BY <1>1, <1>2, <2>1, <3>1, <3>2
  <2>. QED
    BY <1>1, <1>2, <2>1, ApartIs
<1>4. a \notin DOMAIN rg
  <2>1. SUFFICES ASSUME a \in DOMAIN rg PROVE FALSE
    OBVIOUS
  <2>2. a + size <= a \/ a + rg[a] <= a
    BY <2>1
  <2>. QED
    BY <1>2, <2>1, <2>2
<1>. DEFINE rg2 == With(rg, a, size)
<1>5. DOMAIN rg2 = DOMAIN rg \cup {a} /\ rg2[a] = size /\ \A r \in DOMAIN rg : rg2[r] = rg[r]
  BY <1>4 DEF With
<1>. HIDE DEF rg2
<1>6. \A t \in S \cup {s} : t.base \in Nat \ {0} /\ t.end \in Nat /\ t.base < t.end
  BY <1>1, <1>2
<1>7. \A t, u \in S \cup {s} : t # u => Separate(t, u)
  BY <1>2, <1>3 DEF Separate
<1>8. ASSUME NEW r \in DOMAIN rg2
      PROVE  r \in Nat \ {0} /\ rg2[r] \in Nat \ {0} /\ \E t \in S \cup {s} : t.base <= r /\ r + rg2[r] <= t.end
  <2>1. CASE r = a
    BY <1>1, <1>5, <2>1
  <2>2. CASE r \in DOMAIN rg
    BY <1>2, <1>5, <2>2
  <2>. QED
    BY <1>5, <2>1, <2>2
<1>9. \A r, q \in DOMAIN rg2 : r # q => r + rg2[r] <= q \/ q + rg2[q] <= r
  BY <1>2, <1>5
<1>10. ASSUME NEW t \in S \cup {s}, NEW x \in t.base..(t.end - 1)
       PROVE  \E r \in DOMAIN rg2 : r <= x /\ x < r + rg2[r]
  <2>1. x \in Nat /\ t.base <= x /\ x < t.end
    BY <1>6
  <2>2. CASE t \in S
    <3>1. PICK r \in DOMAIN rg : r <= x /\ x < r + rg[r]
      BY <1>2, <2>1, <2>2
    <3>. QED
      BY <1>5, <3>1
  <2>3. CASE t = s
    BY <1>1, <1>5, <2>1, <2>3
  <2>. QED
    BY <2>2, <2>3
<1>11. SpacesOk(S \cup {s}, rg2)
  BY <1>6, <1>7, <1>8, <1>9, <1>10 DEF SpacesOk
<1>. QED
  BY <1>3, <1>4, <1>11 DEF rg2

\* The regions from a to the end of a space go, and what is left of it stays.
LEMMA ShrinkSpace ==
    ASSUME NEW S, NEW rg, SpacesOk(S, rg), NEW s \in S, NEW a \in Nat,
           s.base <= a, a < s.end, s.base < a => a \in DOMAIN rg,
           NEW T, T = IF a = s.base THEN {} ELSE {Space(s.base, a)}
    PROVE  SpacesOk((S \ {s}) \cup T, Restrict(rg, DOMAIN rg \ (a..(s.end - 1))))
<1>. DEFINE rg2 == Restrict(rg, DOMAIN rg \ (a..(s.end - 1)))
            S2 == (S \ {s}) \cup T
            u == Space(s.base, a)
<1>1. /\ \A t \in S : t.base \in Nat \ {0} /\ t.end \in Nat /\ t.base < t.end
      /\ \A t, v \in S : t # v => Separate(t, v)
      /\ \A r \in DOMAIN rg : /\ r \in Nat \ {0} /\ rg[r] \in Nat \ {0}
                              /\ \E t \in S : t.base <= r /\ r + rg[r] <= t.end
      /\ \A r, q \in DOMAIN rg : r # q => r + rg[r] <= q \/ q + rg[q] <= r
      /\ \A t \in S : \A x \in Nat : t.base <= x /\ x < t.end =>
           \E r \in DOMAIN rg : r <= x /\ x < r + rg[r]
  BY SpaceFacts
<1>2. u.base = s.base /\ u.end = a
  BY DEF Space
<1>3. \A t \in S2 : t \in S \ {s} \/ (t = u /\ s.base < a)
  BY <1>1
<1>4. S \ {s} \subseteq S2 /\ (s.base < a => u \in S2)
  BY <1>1
<1>5. DOMAIN rg2 \subseteq DOMAIN rg /\ (\A r \in DOMAIN rg2 : rg2[r] = rg[r] /\ ~(a <= r /\ r < s.end))
  BY <1>1 DEF Restrict
<1>6. \A r \in DOMAIN rg : ~(a <= r /\ r < s.end) => r \in DOMAIN rg2
  BY <1>1 DEF Restrict
<1>. HIDE DEF rg2, S2, u
<1>7. \A t \in S2 : t.base \in Nat \ {0} /\ t.end \in Nat /\ t.base < t.end
  BY <1>1, <1>2, <1>3
<1>8. ASSUME NEW t \in S2, NEW v \in S2, t # v PROVE Separate(t, v)
  <2>1. CASE t \in S \ {s} /\ v \in S \ {s}
    BY <1>1, <1>8, <2>1
  <2>2. ASSUME NEW w \in S \ {s} PROVE Separate(w, u) /\ Separate(u, w)
    <3>1. Separate(w, s)
      BY <1>1
    <3>. QED
      BY <1>1, <1>2, <3>1 DEF Separate
  <2>. QED
    BY <1>3, <1>8, <2>1, <2>2
<1>9. ASSUME NEW r \in DOMAIN rg2
      PROVE  r \in Nat \ {0} /\ rg2[r] \in Nat \ {0} /\ \E t \in S2 : t.base <= r /\ r + rg2[r] <= t.end
  <2>1. r \in DOMAIN rg /\ rg2[r] = rg[r] /\ ~(a <= r /\ r < s.end)
    BY <1>5
  <2>2. PICK t \in S : t.base <= r /\ r + rg[r] <= t.end
    BY <1>1, <2>1
  <2>3. r \in Nat \ {0} /\ rg[r] \in Nat \ {0}
    BY <1>1, <2>1
  <2>4. CASE t = s
    <3>1. r < a
      <4>1. r + rg[r] <= s.end /\ s.end \in Nat
        BY <1>1, <2>2, <2>4
      <4>2. r < s.end
        BY <2>3, <4>1
      <4>. QED
        BY <2>1, <2>3, <4>2
    <3>2. s.base < a /\ a \in DOMAIN rg
      BY <1>1, <2>2, <2>3, <2>4, <3>1
    <3>3. r + rg[r] <= a
      <4>1. r + rg[r] <= a \/ a + rg[a] <= r
        BY <1>1, <2>1, <3>1, <3>2, <2>3
      <4>2. rg[a] \in Nat
        BY <1>1, <3>2
      <4>. QED
        BY <2>3, <3>1, <4>1, <4>2
    <3>. QED
      BY <1>2, <1>4, <2>1, <2>2, <2>3, <2>4, <3>2, <3>3
  <2>5. CASE t # s
    <3>1. t \in S2
      BY <1>4, <2>5
    <3>. QED
      BY <2>1, <2>2, <2>3, <3>1
  <2>. QED
    BY <2>4, <2>5
<1>10. \A r, q \in DOMAIN rg2 : r # q => r + rg2[r] <= q \/ q + rg2[q] <= r
  BY <1>1, <1>5
<1>11. ASSUME NEW t \in S2, NEW x \in t.base..(t.end - 1)
       PROVE  \E r \in DOMAIN rg2 : r <= x /\ x < r + rg2[r]
  <2>1. x \in Nat /\ t.base <= x /\ x < t.end
    BY <1>7
  <2>2. CASE t \in S \ {s}
    <3>1. PICK r \in DOMAIN rg : r <= x /\ x < r + rg[r]
      BY <1>1, <2>1, <2>2
    <3>2. PICK v \in S : v.base <= r /\ r + rg[r] <= v.end
      BY <1>1
    <3>3. r \in Nat /\ rg[r] \in Nat \ {0}
      BY <1>1
    <3>4. v.base <= x /\ x < v.end
      BY <1>1, <2>1, <3>1, <3>2, <3>3
    <3>5. v = t
      BY <1>1, <2>1, <2>2, <3>4, SameSpace
    <3>6. ~(a <= r /\ r < s.end)
      <4>1. r < v.end
        BY SMTT(30), <1>1, <3>2, <3>3
      <4>2. Separate(t, s)
        BY <1>1, <2>2
      <4>. QED
        BY <1>1, <2>2, <3>2, <3>3, <3>5, <4>1, <4>2 DEF Separate
    <3>. QED
      BY <1>5, <1>6, <3>1, <3>6
  <2>3. CASE t = u /\ s.base < a
    <3>1. PICK r \in DOMAIN rg : r <= x /\ x < r + rg[r]
      BY <1>1, <1>2, <2>1, <2>3
    <3>2. ~(a <= r /\ r < s.end)
      BY <1>1, <1>2, <2>1, <2>3, <3>1
    <3>. QED
      BY <1>5, <1>6, <3>1, <3>2
  <2>. QED
    BY <1>3, <2>2, <2>3
<1>12. SpacesOk(S2, rg2)
  BY <1>7, <1>8, <1>9, <1>10, <1>11 DEF SpacesOk
<1>. QED
  BY <1>12 DEF S2, rg2

\* Two spaces that follow each other make one.
LEMMA JoinSpaces ==
    ASSUME NEW S, NEW rg, SpacesOk(S, rg), NEW s \in S, NEW t \in S, s.end = t.base
    PROVE  SpacesOk((S \ {s, t}) \cup {Space(s.base, t.end)}, rg)
<1>. DEFINE S2 == (S \ {s, t}) \cup {Space(s.base, t.end)}
            u == Space(s.base, t.end)
<1>1. /\ \A v \in S : v.base \in Nat \ {0} /\ v.end \in Nat /\ v.base < v.end
      /\ \A v, w \in S : v # w => Separate(v, w)
      /\ \A r \in DOMAIN rg : /\ r \in Nat \ {0} /\ rg[r] \in Nat \ {0}
                              /\ \E v \in S : v.base <= r /\ r + rg[r] <= v.end
      /\ \A r, q \in DOMAIN rg : r # q => r + rg[r] <= q \/ q + rg[q] <= r
      /\ \A v \in S : \A x \in Nat : v.base <= x /\ x < v.end =>
           \E r \in DOMAIN rg : r <= x /\ x < r + rg[r]
  BY SpaceFacts
<1>2. u.base = s.base /\ u.end = t.end
  BY DEF Space
<1>3. S2 = (S \ {s, t}) \cup {u}
  OBVIOUS
<1>. HIDE DEF u, S2
<1>4. \A v \in S2 : v.base \in Nat \ {0} /\ v.end \in Nat /\ v.base < v.end
  BY <1>1, <1>2, <1>3
<1>5. ASSUME NEW v \in S \ {s, t} PROVE Separate(v, u) /\ Separate(u, v)
  <2>1. Separate(v, s) /\ Separate(v, t)
    BY <1>1
  <2>2. /\ v.base \in Nat /\ v.end \in Nat /\ v.base < v.end /\ s.base \in Nat /\ t.base \in Nat
        /\ t.end \in Nat /\ s.base < s.end /\ t.base < t.end
    BY <1>1
  <2>. QED
    BY <1>2, <2>1, <2>2 DEF Separate
<1>6. \A v, w \in S2 : v # w => Separate(v, w)
  BY <1>1, <1>3, <1>5
<1>7. ASSUME NEW r \in DOMAIN rg
      PROVE  r \in Nat \ {0} /\ rg[r] \in Nat \ {0} /\ \E v \in S2 : v.base <= r /\ r + rg[r] <= v.end
  <2>1. r \in Nat \ {0} /\ rg[r] \in Nat \ {0}
    BY <1>1
  <2>2. PICK v \in S : v.base <= r /\ r + rg[r] <= v.end
    BY <1>1
  <2>3. CASE v \in {s, t}
    <3>1. u.base <= r /\ r + rg[r] <= u.end /\ u \in S2
      BY <1>1, <1>2, <1>3, <2>1, <2>2, <2>3
    <3>. QED
      BY <2>1, <3>1
  <2>4. CASE v \notin {s, t}
    BY <1>3, <2>1, <2>2, <2>4
  <2>. QED
    BY <2>3, <2>4
<1>8. ASSUME NEW v \in S2, NEW x \in v.base..(v.end - 1)
      PROVE  \E r \in DOMAIN rg : r <= x /\ x < r + rg[r]
  <2>1. x \in Nat /\ v.base <= x /\ x < v.end
    BY <1>4
  <2>2. CASE v \in S
    BY <1>1, <2>1, <2>2
  <2>3. CASE v = u
    <3>1. \/ s.base <= x /\ x < s.end
          \/ t.base <= x /\ x < t.end
      BY <1>1, <1>2, <2>1, <2>3
    <3>. QED
      BY <1>1, <2>1, <3>1
  <2>. QED
    BY <1>3, <2>2, <2>3
<1>9. SpacesOk(S2, rg)
  BY <1>1, <1>4, <1>6, <1>7, <1>8 DEF SpacesOk
<1>. QED
  BY <1>9 DEF S2

-----------------------------------------------------------------------------
(* A part of the address space is given other chunks, and a space to them. *)

\* A segment, and whether the first one has top.
SegmentType == [base : Nat \ {0}, size : Nat \ {0}, record : Nat]

\* Structure, whichever segments have records.
Body(ch, top, segs, rg) ==
    /\ Layout(ch, top)
    /\ segs \in Seq(SegmentType)
    /\ \A i \in 1..Len(segs) : SegmentOk(ch, top, segs[i])
    /\ \A i, j \in 1..Len(segs) : segs[i].base = segs[j].base => i = j
    /\ \A p \in Direct(ch) : DirectOk(ch, p)
    /\ Homes(ch, segs)
    /\ SpacesOk(Spaces(ch, segs), rg)

FirstHasTop(top, segs) ==
    /\ top # NULL <=> Len(segs) > 0
    /\ \A i \in 1..Len(segs) : segs[i].record = NULL <=> i = 1

\* Structure is Body with top in the first segment.
LEMMA StructureIsBody ==
    ASSUME NEW ch, NEW top, NEW segs, NEW rg
    PROVE  Structure(ch, top, segs, rg) <=> Body(ch, top, segs, rg) /\ FirstHasTop(top, segs)
  BY DEF Structure, Body, FirstHasTop, SegmentsOk, SegmentType

\* The types of segments, from their sequence alone.
LEMMA SequenceTypes ==
    ASSUME NEW segs, segs \in Seq(SegmentType)
    PROVE  /\ Len(segs) \in Nat /\ DOMAIN segs = 1..Len(segs)
           /\ \A i \in 1..Len(segs) : /\ segs[i] \in SegmentType
                                      /\ segs[i].base \in Nat \ {0} /\ segs[i].size \in Nat \ {0}
                                      /\ segs[i].record \in Nat
<1>1. Len(segs) \in Nat /\ DOMAIN segs = 1..Len(segs) /\ \A i \in 1..Len(segs) : segs[i] \in SegmentType
  OBVIOUS
<1>. QED
  BY <1>1 DEF SegmentType

\* An exchange of the headers, the space s for the spaces T, the segments and the regions.
Swapped(ch, top, segs, rg, ch2, top2, segs2, rg2, b, e, s, T) ==
    LET W == b..(e - 1) IN
    /\ Body(ch, top, segs, rg)
    /\ Outside(ch, top, ch2, b, e) /\ InsideOk(ch2, top2, b, e) /\ TopSwap(ch2, top, top2, b, e)
    /\ \A t \in Spaces(ch, segs) \ {s} : t.end <= b \/ e <= t.base
    /\ \A p \in Direct(ch) : DirectSpace(ch, p) = s => p \in W /\ After(ch, p) \in W
    /\ segs2 \in Seq(SegmentType)
    /\ \A i, j \in 1..Len(segs2) : segs2[i].base = segs2[j].base => i = j
    /\ \A i \in 1..Len(segs2) :
         \/ SegmentOk(ch2, top2, segs2[i]) /\ SegmentSpace(segs2[i]) \in T
         \/ \E j \in 1..Len(segs) : /\ segs2[i] = segs[j] /\ SegmentSpace(segs[j]) # s
                                    /\ segs[j].record # NULL \/ top2 = top
    /\ \A j \in 1..Len(segs) : SegmentSpace(segs[j]) # s => \E i \in 1..Len(segs2) : segs2[i] = segs[j]
    /\ \A j \in 1..Len(segs), q \in DOMAIN ch \ W : SegmentSpace(segs[j]) = s /\ Holds(segs[j], q) =>
         \E i \in 1..Len(segs2) : /\ Holds(segs2[i], q)
                                  /\ segs[j].record # NULL => segs2[i].record = segs[j].record
    /\ \A p \in Direct(ch2) \cap W : DirectOk(ch2, p) /\ DirectSpace(ch2, p) \in T
    /\ \A t \in T : \/ \E i \in 1..Len(segs2) : t = SegmentSpace(segs2[i])
                    \/ \E p \in Direct(ch2) \cap W : t = DirectSpace(ch2, p)
    /\ \A p \in Ord(ch2) \cap W : \E i \in 1..Len(segs2) : Holds(segs2[i], p)
    /\ \A q \in DOMAIN ch2 \cap W : ch2[q].size = 0 =>
         \/ \E i \in 1..Len(segs2) : segs2[i].record # NULL /\ q = segs2[i].record + SegmentSize
         \/ \E p \in Direct(ch2) : q = After(ch2, p)
    /\ SpacesOk((Spaces(ch, segs) \ {s}) \cup T, rg2)

\* What is known of the spaces that are not touched.
SwapKept(ch, top, segs, ch2, top2, b, e, s) ==
    LET W == b..(e - 1) IN
    /\ Layout(ch2, top2)
    /\ Ord(ch2) \ W = Ord(ch) \ W /\ Direct(ch2) \ W = Direct(ch) \ W /\ FreeAt(ch2) \ W = FreeAt(ch) \ W
    /\ DOMAIN ch2 \ W = DOMAIN ch \ W
    /\ \A q \in DOMAIN ch \ W : ch2[q] = ch[q]
    /\ \A j \in 1..Len(segs) :
         SegmentSpace(segs[j]) # s /\ (segs[j].record # NULL \/ top2 = top) => SegmentOk(ch2, top2, segs[j])
    /\ \A p \in Direct(ch) : DirectSpace(ch, p) # s =>
         /\ p \notin W /\ p \in Direct(ch2) /\ ch2[p] = ch[p]
         /\ DirectOk(ch2, p) /\ DirectSpace(ch2, p) = DirectSpace(ch, p)

\* What an exchange leaves alone.
LEMMA SwapKeeps ==
    ASSUME NEW ch, NEW top, NEW segs, NEW rg, NEW ch2, NEW top2, NEW b, NEW e, NEW s,
           Body(ch, top, segs, rg),
           Outside(ch, top, ch2, b, e), InsideOk(ch2, top2, b, e), TopSwap(ch2, top, top2, b, e),
           \A t \in Spaces(ch, segs) \ {s} : t.end <= b \/ e <= t.base
    PROVE  SwapKept(ch, top, segs, ch2, top2, b, e, s)
<1>. DEFINE W == b..(e - 1)
<1>1. /\ Layout(ch, top) /\ segs \in Seq(SegmentType)
      /\ \A i \in 1..Len(segs) : SegmentOk(ch, top, segs[i])
      /\ \A p \in Direct(ch) : DirectOk(ch, p)
  BY DEF Body
<1>2. /\ Layout(ch2, top2)
      /\ Ord(ch2) \ W = Ord(ch) \ W /\ Direct(ch2) \ W = Direct(ch) \ W /\ FreeAt(ch2) \ W = FreeAt(ch) \ W
  BY <1>1, LayoutSwap
<1>3. /\ b \in Nat /\ e \in Nat /\ DOMAIN ch2 \ W = DOMAIN ch \ W
      /\ \A q \in DOMAIN ch \ W : ch2[q] = ch[q]
  BY DEF Outside
<1>4. /\ \A q \in DOMAIN ch : q \in Nat /\ HeaderOk(ch[q])
      /\ \A q \in DOMAIN ch2 : q \in Nat
  BY <1>1, <1>2 DEF Layout
<1>5. \A q \in W : b <= q /\ q < e
  BY <1>3
<1>6. \A q : q \notin W => (q \in DOMAIN ch2 <=> q \in DOMAIN ch) /\ (q \in DOMAIN ch => ch2[q] = ch[q])
  BY <1>3
<1>. HIDE DEF W
<1>7. ASSUME NEW j \in 1..Len(segs), SegmentSpace(segs[j]) # s, segs[j].record # NULL \/ top2 = top
      PROVE  SegmentOk(ch2, top2, segs[j])
  <2>. DEFINE seg == segs[j]
  <2>1. seg.base \in Nat /\ seg.size \in Nat \ {0}
    BY <1>1, SequenceTypes
  <2>2. SegmentSpace(seg) \in Spaces(ch, segs) \ {s}
    BY <1>7 DEF Spaces
  <2>3. SegmentSpace(seg).base = seg.base /\ SegmentSpace(seg).end = seg.base + seg.size
    BY DEF SegmentSpace
  <2>. HIDE DEF seg
  <2>4. seg.base + seg.size <= b \/ e <= seg.base
    BY <2>2, <2>3
  <2>5. ASSUME NEW q, Holds(seg, q), q \in DOMAIN ch \/ q \in DOMAIN ch2
        PROVE  q \in DOMAIN ch /\ q \in DOMAIN ch2 /\ ch2[q] = ch[q]
    <3>1. q \in Nat
      BY <1>4, <2>5
    <3>2. seg.base <= q /\ q < seg.base + seg.size
      BY <2>5 DEF Holds
    <3>3. q \notin W
      <4>1. ~(b <= q /\ q < e)
        BY <1>3, <2>1, <2>4, <3>1, <3>2
      <4>. QED
        BY <1>5, <4>1
    <3>. QED
      BY <1>6, <2>5, <3>3
  <2>6. SegmentOk(ch, top, seg) /\ (seg.record # NULL \/ top2 = top)
    BY <1>1, <1>7 DEF seg
  <2>7. SegmentOk(ch2, top2, seg)
    BY ONLY <2>1, <2>5, <2>6, SegmentKept
  <2>. QED
    BY <2>7 DEF seg
<1>8. ASSUME NEW p \in Direct(ch), DirectSpace(ch, p) # s
      PROVE  /\ p \notin W /\ p \in Direct(ch2) /\ ch2[p] = ch[p]
             /\ DirectOk(ch2, p) /\ DirectSpace(ch2, p) = DirectSpace(ch, p)
  <2>1. p \in DOMAIN ch /\ p \in Nat /\ ch[p].foot \in Nat /\ ch[p].size \in Nat
    BY <1>4 DEF Direct, HeaderOk
  <2>2. DirectOk(ch, p) /\ ch[p].foot < p
    BY <1>1 DEF DirectOk
  <2>3. DirectSpace(ch, p) \in Spaces(ch, segs) \ {s}
    BY <1>8 DEF Spaces
  <2>4. DirectSpace(ch, p).base = p - ch[p].foot /\ DirectSpace(ch, p).end = After(ch, p) + MmapFootPad
    BY DEF DirectSpace
  <2>5. After(ch, p) + MmapFootPad <= b \/ e <= p - ch[p].foot
    BY <2>3, <2>4
  <2>6. After(ch, p) \in Nat /\ p <= After(ch, p)
    BY <2>1 DEF After
  <2>7. ASSUME NEW q \in Nat, p - ch[p].foot <= q, q < After(ch, p) + MmapFootPad PROVE q \notin W
    <3>1. ~(b <= q /\ q < e)
      BY <1>3, <2>1, <2>5, <2>6, <2>7 DEF MmapFootPad
    <3>. QED
      BY <1>5, <3>1
  <2>8. p \notin W
    <3>1. p - ch[p].foot <= p /\ p < After(ch, p) + MmapFootPad
      BY <2>1, <2>6 DEF MmapFootPad
    <3>. QED
      BY <2>1, <2>7, <3>1
  <2>9. \A q \in Nat : p - ch[p].foot <= q /\ q < After(ch, p) + MmapFootPad
               /\ (q \in DOMAIN ch \/ q \in DOMAIN ch2) =>
             q \in DOMAIN ch /\ q \in DOMAIN ch2 /\ ch2[q] = ch[q]
    BY <1>6, <2>7
  <2>10. DirectOk(ch2, p) /\ p \in Direct(ch2) /\ DirectSpace(ch2, p) = DirectSpace(ch, p) /\ ch2[p] = ch[p]
    BY ONLY <1>4, <1>8, <2>1, <2>2, <2>9, DirectKept
  <2>. QED
    BY <2>8, <2>10
<1>. QED
  BY <1>2, <1>3, <1>7, <1>8 DEF SwapKept, W

\* Body is kept by an exchange.
LEMMA SwapBody ==
    ASSUME NEW ch, NEW top, NEW segs, NEW rg, NEW ch2, NEW top2, NEW segs2, NEW rg2, NEW b, NEW e, NEW s, NEW T,
           Swapped(ch, top, segs, rg, ch2, top2, segs2, rg2, b, e, s, T)
    PROVE  /\ Body(ch2, top2, segs2, rg2) /\ SwapKept(ch, top, segs, ch2, top2, b, e, s)
           /\ Spaces(ch2, segs2) = (Spaces(ch, segs) \ {s}) \cup T
<1>. DEFINE W == b..(e - 1)
<1>1. /\ Body(ch, top, segs, rg)
      /\ Outside(ch, top, ch2, b, e) /\ InsideOk(ch2, top2, b, e) /\ TopSwap(ch2, top, top2, b, e)
      /\ \A t \in Spaces(ch, segs) \ {s} : t.end <= b \/ e <= t.base
      /\ SpacesOk((Spaces(ch, segs) \ {s}) \cup T, rg2)
      /\ segs2 \in Seq(SegmentType)
      /\ \A i, j \in 1..Len(segs2) : segs2[i].base = segs2[j].base => i = j
  BY DEF Swapped
<1>2. /\ \A p \in Direct(ch) : DirectSpace(ch, p) = s => p \in W /\ After(ch, p) \in W
      /\ \A i \in 1..Len(segs2) :
           \/ SegmentOk(ch2, top2, segs2[i]) /\ SegmentSpace(segs2[i]) \in T
           \/ \E j \in 1..Len(segs) : /\ segs2[i] = segs[j] /\ SegmentSpace(segs[j]) # s
                                      /\ segs[j].record # NULL \/ top2 = top
      /\ \A j \in 1..Len(segs) : SegmentSpace(segs[j]) # s => \E i \in 1..Len(segs2) : segs2[i] = segs[j]
      /\ \A j \in 1..Len(segs), q \in DOMAIN ch \ W : SegmentSpace(segs[j]) = s /\ Holds(segs[j], q) =>
           \E i \in 1..Len(segs2) : /\ Holds(segs2[i], q)
                                    /\ segs[j].record # NULL => segs2[i].record = segs[j].record
  BY DEF Swapped
<1>3. /\ \A p \in Direct(ch2) \cap W : DirectOk(ch2, p) /\ DirectSpace(ch2, p) \in T
      /\ \A t \in T : \/ \E i \in 1..Len(segs2) : t = SegmentSpace(segs2[i])
                      \/ \E p \in Direct(ch2) \cap W : t = DirectSpace(ch2, p)
      /\ \A p \in Ord(ch2) \cap W : \E i \in 1..Len(segs2) : Holds(segs2[i], p)
      /\ \A q \in DOMAIN ch2 \cap W : ch2[q].size = 0 =>
           \/ \E i \in 1..Len(segs2) : segs2[i].record # NULL /\ q = segs2[i].record + SegmentSize
           \/ \E p \in Direct(ch2) : q = After(ch2, p)
  BY DEF Swapped
<1>4. SwapKept(ch, top, segs, ch2, top2, b, e, s)
  BY <1>1, SwapKeeps
<1>5. /\ Layout(ch2, top2)
      /\ Ord(ch2) \ W = Ord(ch) \ W /\ Direct(ch2) \ W = Direct(ch) \ W
      /\ DOMAIN ch2 \ W = DOMAIN ch \ W
      /\ \A q \in DOMAIN ch \ W : ch2[q] = ch[q]
      /\ \A j \in 1..Len(segs) :
           SegmentSpace(segs[j]) # s /\ (segs[j].record # NULL \/ top2 = top) => SegmentOk(ch2, top2, segs[j])
      /\ \A p \in Direct(ch) : DirectSpace(ch, p) # s =>
           /\ p \notin W /\ p \in Direct(ch2) /\ ch2[p] = ch[p]
           /\ DirectOk(ch2, p) /\ DirectSpace(ch2, p) = DirectSpace(ch, p)
  BY <1>4 DEF SwapKept
<1>6. /\ Homes(ch, segs) /\ \A i \in 1..Len(segs) : SegmentOk(ch, top, segs[i])
  BY <1>1 DEF Body
<1>. HIDE DEF W
<1>7. \A i \in 1..Len(segs2) : SegmentOk(ch2, top2, segs2[i])
  BY <1>2, <1>5
<1>8. ASSUME NEW p \in Direct(ch2), p \notin W
      PROVE  p \in Direct(ch) /\ DirectSpace(ch, p) # s /\ DirectOk(ch2, p) /\ DirectSpace(ch2, p) = DirectSpace(ch, p)
  <2>1. p \in Direct(ch)
    BY <1>5, <1>8
  <2>2. DirectSpace(ch, p) # s
    BY <1>2, <1>8, <2>1
  <2>. QED
    BY <1>5, <2>1, <2>2
<1>9. \A p \in Direct(ch2) : DirectOk(ch2, p)
  BY <1>3, <1>8
<1>10. ASSUME NEW p \in Ord(ch2) PROVE \E i \in 1..Len(segs2) : Holds(segs2[i], p)
  <2>1. CASE p \in W
    BY <1>3, <2>1
  <2>2. CASE p \notin W
    <3>1. p \in Ord(ch) \ W /\ p \in DOMAIN ch \ W
      BY <1>5, <2>2 DEF Ord
    <3>2. PICK j \in 1..Len(segs) : Holds(segs[j], p)
      BY <1>6, <3>1 DEF Homes
    <3>. QED
      BY <1>2, <3>1, <3>2
  <2>. QED
    BY <2>1, <2>2
<1>11. ASSUME NEW q \in DOMAIN ch2, ch2[q].size = 0
       PROVE  \/ \E i \in 1..Len(segs2) : segs2[i].record # NULL /\ q = segs2[i].record + SegmentSize
              \/ \E p \in Direct(ch2) : q = After(ch2, p)
  <2>1. CASE q \in W
    BY <1>3, <1>11, <2>1
  <2>2. CASE q \notin W
    <3>1. q \in DOMAIN ch \ W /\ ch[q].size = 0
      BY <1>5, <1>11, <2>2
    <3>2. CASE \E j \in 1..Len(segs) : segs[j].record # NULL /\ q = segs[j].record + SegmentSize
      <4>1. PICK j \in 1..Len(segs) : segs[j].record # NULL /\ q = segs[j].record + SegmentSize
        BY <3>2
      <4>2. Holds(segs[j], q)
        <5>1. SegmentOk(ch, top, segs[j])
          BY <1>6
        <5>2. Limit(segs[j], top) = q
          BY <4>1 DEF Limit
        <5>. QED
          BY <5>1, <5>2 DEF SegmentOk
      <4>3. \E i \in 1..Len(segs2) : segs2[i].record = segs[j].record
        BY <1>2, <3>1, <4>1, <4>2
      <4>. QED
        BY <4>1, <4>3
    <3>3. CASE \E p \in Direct(ch) : q = After(ch, p)
      <4>1. PICK p \in Direct(ch) : q = After(ch, p)
        BY <3>3
      <4>2. DirectSpace(ch, p) # s
        BY <1>2, <3>1, <4>1
      <4>3. p \in Direct(ch2) /\ ch2[p] = ch[p]
        BY <1>5, <4>2
      <4>. QED
        BY <4>1, <4>3 DEF After
    <3>. QED
      BY <1>6, <3>1, <3>2, <3>3 DEF Homes
  <2>. QED
    BY <2>1, <2>2
<1>12. Homes(ch2, segs2)
  BY <1>10, <1>11 DEF Homes
<1>13. Spaces(ch2, segs2) = (Spaces(ch, segs) \ {s}) \cup T
  <2>1. ASSUME NEW t \in Spaces(ch2, segs2) PROVE t \in (Spaces(ch, segs) \ {s}) \cup T
    <3>1. CASE \E p \in Direct(ch2) : t = DirectSpace(ch2, p)
      <4>1. PICK p \in Direct(ch2) : t = DirectSpace(ch2, p)
        BY <3>1
      <4>2. p \notin W => DirectSpace(ch, p) = t /\ t # s /\ p \in Direct(ch)
        BY <1>8, <4>1
      <4>3. p \in W => t \in T
        BY <1>3, <4>1
      <4>. QED
        BY <4>2, <4>3 DEF Spaces
    <3>2. CASE \E i \in 1..Len(segs2) : t = SegmentSpace(segs2[i])
      <4>1. PICK i \in 1..Len(segs2) : t = SegmentSpace(segs2[i])
        BY <3>2
      <4>2. t \in T \/ \E j \in 1..Len(segs) : t = SegmentSpace(segs[j]) /\ t # s
        BY <1>2, <4>1
      <4>. QED
        BY <4>2 DEF Spaces
    <3>. QED
      BY <3>1, <3>2 DEF Spaces
  <2>2. ASSUME NEW t \in Spaces(ch, segs), t # s PROVE t \in Spaces(ch2, segs2)
    <3>1. CASE \E p \in Direct(ch) : t = DirectSpace(ch, p)
      <4>1. PICK p \in Direct(ch) : t = DirectSpace(ch, p)
        BY <3>1
      <4>2. p \in Direct(ch2) /\ DirectSpace(ch2, p) = t
        BY <1>5, <2>2, <4>1
      <4>. QED
        BY <4>2 DEF Spaces
    <3>2. CASE \E j \in 1..Len(segs) : t = SegmentSpace(segs[j])
      <4>1. \E i \in 1..Len(segs2) : t = SegmentSpace(segs2[i])
        BY <1>2, <2>2, <3>2
      <4>. QED
        BY <4>1 DEF Spaces
    <3>. QED
      BY <3>1, <3>2 DEF Spaces
  <2>3. ASSUME NEW t \in T PROVE t \in Spaces(ch2, segs2)
    BY <1>3 DEF Spaces
  <2>. QED
    BY <2>1, <2>2, <2>3
<1>. QED
  BY <1>1, <1>4, <1>5, <1>7, <1>9, <1>12, <1>13 DEF Body

-----------------------------------------------------------------------------
(* A heap of which only the part W of the address space was changed. *)

\* Nothing differs outside of W.
SameOutside(ch, ch2, W) ==
    /\ DOMAIN ch2 \ W = DOMAIN ch \ W
    /\ \A q \in DOMAIN ch \ W : ch2[q] = ch[q]

\* The kinds of chunks are the same there.
LEMMA OutsideSets ==
    ASSUME NEW ch, NEW ch2, NEW W, SameOutside(ch, ch2, W)
    PROVE  /\ Ord(ch2) \ W = Ord(ch) \ W /\ FreeAt(ch2) \ W = FreeAt(ch) \ W
           /\ Direct(ch2) \ W = Direct(ch) \ W
<1>1. \A q : q \notin W => (q \in DOMAIN ch2 <=> q \in DOMAIN ch) /\ (q \in DOMAIN ch => ch2[q] = ch[q])
  BY DEF SameOutside
<1>. QED
  BY <1>1 DEF Ord, FreeAt, Direct

\* The bins, the victim and the flags are as they were.
SameLists(n, m) == n.bins = m.bins /\ SameDv(n, m) /\ n.use_mmap = m.use_mmap

\* No free chunk but top, and X, was in W, and none is but top; of what callers
\* hold, S was in W, and T is.
Exchanged(m, n, X, W, S, T) ==
    /\ Whole(m) /\ Binned(m, X) /\ m.dv \notin X
    /\ Whole(n) /\ SameLists(n, m)
    /\ n.topsize = IF n.top = NULL THEN 0 ELSE n.chunks[n.top].size
    /\ SameOutside(m.chunks, n.chunks, W)
    /\ X \subseteq W /\ FreeAt(m.chunks) \cap W \subseteq {m.top} \cup X
    /\ FreeAt(n.chunks) \cap W \subseteq {n.top}
    /\ n.top = m.top \/ (m.top \in W \cup {NULL} /\ n.top \in W \cup {NULL})
    /\ Used(m) \cap W = S /\ Used(n) \cap W = T
    /\ SegmentRecords(n.segs) \ W = SegmentRecords(m.segs) \ W
    /\ Counts(n, m)

\* A sound heap stays sound when headers are exchanged inside of W.
LEMMA ExchangeSound ==
    ASSUME NEW m, NEW n, NEW X, NEW W, NEW S, NEW T, Exchanged(m, n, X, W, S, T)
    PROVE  Sound(n) /\ Frame(n, m, S, T)
<1>. DEFINE ch == m.chunks
            ch2 == n.chunks
<1>1. /\ Whole(m) /\ Binned(m, X) /\ m.dv \notin X
      /\ Whole(n) /\ SameLists(n, m)
      /\ n.topsize = IF n.top = NULL THEN 0 ELSE n.chunks[n.top].size
      /\ SameOutside(ch, ch2, W)
      /\ X \subseteq W /\ FreeAt(ch) \cap W \subseteq {m.top} \cup X
      /\ FreeAt(ch2) \cap W \subseteq {n.top}
      /\ n.top = m.top \/ (m.top \in W \cup {NULL} /\ n.top \in W \cup {NULL})
      /\ Used(m) \cap W = S /\ Used(n) \cap W = T
      /\ SegmentRecords(n.segs) \ W = SegmentRecords(m.segs) \ W
  BY DEF Exchanged
<1>1a. \A q \in DOMAIN ch \ W : ch2[q] = ch[q]
  BY <1>1 DEF SameOutside
<1>1b. Ord(ch2) \ W = Ord(ch) \ W /\ FreeAt(ch2) \ W = FreeAt(ch) \ W /\ Direct(ch2) \ W = Direct(ch) \ W
  <2>. HIDE DEF ch, ch2
  <2>. QED
    BY <1>1, OutsideSets
<1>2. /\ Ord(ch2) \ W = Ord(ch) \ W /\ FreeAt(ch2) \ W = FreeAt(ch) \ W /\ Direct(ch2) \ W = Direct(ch) \ W
      /\ \A q \in DOMAIN ch \ W : ch2[q] = ch[q]
  BY <1>1a, <1>1b
<1>3. /\ m.bins = Entries(ch, FreeAt(ch) \ ({m.top, m.dv} \cup X))
      /\ IF m.dv = NULL THEN m.dvsize = 0
         ELSE m.dv \in FreeAt(ch) \ {m.top} /\ m.dvsize = ch[m.dv].size
  BY <1>1 DEF Binned
<1>4. FreeAt(ch) \subseteq DOMAIN ch /\ Ord(ch) \subseteq DOMAIN ch /\ Direct(ch) \subseteq DOMAIN ch
      /\ NULL \notin FreeAt(ch) /\ NULL \notin FreeAt(ch2)
  BY <1>1, ChunkTypes DEF FreeAt, Ord, Direct, Whole, NULL
<1>5. FreeAt(ch2) \ {n.top} = FreeAt(ch) \ ({m.top} \cup X)
  <2>1. ASSUME NEW q \in FreeAt(ch2), q # n.top PROVE q \in FreeAt(ch) \ ({m.top} \cup X)
    <3>1. q \notin W
      BY <1>1, <2>1
    <3>2. q \in FreeAt(ch) /\ q \notin X
      BY <1>1, <1>2, <3>1
    <3>3. q # m.top
      BY <1>1, <1>4, <2>1, <3>1
    <3>. QED
      BY <3>2, <3>3
  <2>2. ASSUME NEW q \in FreeAt(ch), q # m.top, q \notin X PROVE q \in FreeAt(ch2) \ {n.top}
    <3>1. q \notin W
      BY <1>1, <2>2
    <3>2. q \in FreeAt(ch2)
      BY <1>2, <3>1
    <3>3. q # n.top
      BY <1>1, <1>4, <2>2, <3>1
    <3>. QED
      BY <3>2, <3>3
  <2>. QED
    BY <2>1, <2>2
<1>6. \A q \in FreeAt(ch) \ ({m.top} \cup X) : ch2[q] = ch[q]
  <2>1. ASSUME NEW q \in FreeAt(ch) \ ({m.top} \cup X) PROVE ch2[q] = ch[q]
    <3>1. q \in DOMAIN ch /\ q \notin W
      BY <1>1, <1>4
    <3>. QED
      BY <1>2, <3>1
  <2>. QED
    BY <2>1
<1>7. n.dv = m.dv /\ n.dvsize = m.dvsize /\ n.bins = m.bins
  BY <1>1 DEF SameLists, SameDv
<1>8. n.bins = Entries(ch2, FreeAt(ch2) \ {n.top, n.dv})
  <2>1. FreeAt(ch2) \ {n.top, n.dv} = FreeAt(ch) \ ({m.top, m.dv} \cup X)
    BY <1>5, <1>7
  <2>2. \A q \in FreeAt(ch) \ ({m.top, m.dv} \cup X) : ch2[q] = ch[q]
    BY <1>6
  <2>. QED
    BY <1>3, <1>7, <2>1, <2>2 DEF Entries
<1>9. IF n.dv = NULL THEN n.dvsize = 0
      ELSE n.dv \in FreeAt(ch2) \ {n.top} /\ n.dvsize = ch2[n.dv].size
  <2>1. m.dv # NULL => m.dv \in FreeAt(ch) \ ({m.top} \cup X) /\ m.dvsize = ch[m.dv].size
    BY <1>1, <1>3
  <2>2. m.dv # NULL => m.dv \in FreeAt(ch2) \ {n.top} /\ ch2[m.dv] = ch[m.dv]
    BY <1>5, <1>6, <2>1
  <2>. QED
    BY <1>3, <1>7, <2>1, <2>2
<1>10. Sound(n)
  BY <1>1, <1>8, <1>9 DEF Sound, Binned
<1>. DEFINE R == SegmentRecords(m.segs)
            R2 == SegmentRecords(n.segs)
<1>11. ASSUME NEW q, q \notin W PROVE q \in Used(n) <=> q \in Used(m)
  <2>1. (q \in R2 <=> q \in R) /\ (q \in Ord(ch2) <=> q \in Ord(ch))
        /\ (q \in FreeAt(ch2) <=> q \in FreeAt(ch)) /\ (q \in Direct(ch2) <=> q \in Direct(ch))
    BY <1>1, <1>2, <1>11
  <2>. QED
    BY <2>1 DEF Used
<1>12. Used(n) = (Used(m) \ S) \cup T
  <2>1. ASSUME NEW q PROVE q \in Used(n) <=> q \in (Used(m) \ S) \cup T
    BY <1>1, <1>11
  <2>. QED
    BY <2>1
<1>13. ASSUME NEW q \in Used(m) \ S PROVE ch2[q] = ch[q]
  <2>1. q \notin W /\ q \in DOMAIN ch
    BY <1>1, <1>4 DEF Used
  <2>. QED
    BY <1>2, <2>1
<1>14. Frame(n, m, S, T)
  <2>1. Counts(n, m)
    BY DEF Exchanged
  <2>. QED
    BY <1>1, <1>12, <1>13, <2>1 DEF Frame, SameLists
<1>. QED
  BY <1>10, <1>14

\* The addresses from b up to e.
Window(b, e) == b..(e - 1)

\* A state of which the memory from b up to e was given back.
Unmapped(n, m, b, e) ==
    /\ IsState(n) /\ SameLists(n, m) /\ SameTop(n, m)
    /\ n.segs = m.segs /\ n.least_addr = m.least_addr /\ n.aborted = m.aborted
    /\ n.trim_check = m.trim_check /\ n.footprint = m.footprint - (e - b)
    /\ n.chunks = Restrict(m.chunks, DOMAIN m.chunks \ Window(b, e))
    /\ n.regions = Restrict(m.regions, DOMAIN m.regions \ Window(b, e))

\* Unmap gives back what is said.
LEMMA UnmapIs ==
    ASSUME NEW m, IsState(m), NEW a \in Nat, NEW size \in Nat, NEW e, e = a + size,
           NEW x, x = Unmap(m, a, size)
    PROVE  Unmapped(x, m, a, e)
<1>. DEFINE raw == a..(a + size - 1)
            gone == Window(a, a + size)
            ch == Restrict(m.chunks, DOMAIN m.chunks \ gone)
            rg == Restrict(m.regions, DOMAIN m.regions \ gone)
            k(g) == [m EXCEPT !.chunks = Restrict(m.chunks, DOMAIN m.chunks \ g)]
            n == Unmap(m, a, size)
            fp == m.footprint - size
<1>1. n = [k(raw) EXCEPT !.regions = Restrict(k(raw).regions, DOMAIN k(raw).regions \ raw),
                         !.footprint = k(raw).footprint - size]
  BY DEF Unmap, Forget
<1>2. raw = gone
  BY DEF Window
<1>. HIDE DEF n, raw, gone
<1>3. n = [k(gone) EXCEPT !.regions = Restrict(k(gone).regions, DOMAIN k(gone).regions \ gone),
                          !.footprint = k(gone).footprint - size]
  BY <1>1, <1>2
<1>4. k(gone).regions = m.regions /\ k(gone).footprint = m.footprint
  BY DEF IsState, Fields
<1>5. n = [[m EXCEPT !.chunks = ch] EXCEPT !.regions = rg, !.footprint = fp]
  BY <1>3, <1>4
<1>. HIDE DEF fp, ch, rg
<1>6. /\ IsState(n) /\ SameLists(n, m) /\ SameTop(n, m)
      /\ n.segs = m.segs /\ n.least_addr = m.least_addr /\ n.aborted = m.aborted
      /\ n.trim_check = m.trim_check
      /\ n.chunks = ch /\ n.regions = rg /\ n.footprint = fp
  BY <1>5 DEF IsState, Fields, SameLists, SameDv, SameTop
<1>7. x = n /\ gone = Window(a, e)
  BY DEF n, gone
<1>8. fp = m.footprint - (e - a)
  <2>1. e - a = size
    OBVIOUS
  <2>. QED
    BY <2>1 DEF fp
<1>. QED
  BY <1>6, <1>7, <1>8 DEF ch, rg, Unmapped

-----------------------------------------------------------------------------
(* Mapped chunks that come and go. *)

\* What Body says of the types and of where chunks end.
LEMMA BodyTypes ==
    ASSUME NEW ch, NEW top, NEW segs, NEW rg, Body(ch, top, segs, rg)
    PROVE  /\ \A p \in DOMAIN ch : p \in Nat \ {0} /\ HeaderOk(ch[p]) /\ ch[p].size \in Nat /\ ch[p].foot \in Nat
                                   /\ ch[p].c \in BOOLEAN /\ ch[p].p \in BOOLEAN
           /\ \A p \in Ord(ch) : p \in DOMAIN ch /\ p \in Nat /\ After(ch, p) \in Nat /\ p < After(ch, p)
           /\ \A p \in Ord(ch), q \in DOMAIN ch : q <= p \/ After(ch, p) <= q
           /\ top # NULL => top \in FreeAt(ch)
           /\ FreeAt(ch) \subseteq Ord(ch)
           /\ \A p \in Direct(ch) : /\ p \in DOMAIN ch /\ ch[p].size > 0 /\ p \notin Ord(ch) /\ ch[p].foot < p
                                    /\ After(ch, p) \in Nat /\ p < After(ch, p) /\ p \in Nat \ {0}
           /\ \A i \in 1..Len(segs) : /\ segs[i].base \in Nat \ {0} /\ segs[i].size \in Nat \ {0}
                                      /\ segs[i].record \in Nat
           /\ Len(segs) \in Nat
<1>1. /\ Layout(ch, top) /\ segs \in Seq(SegmentType) /\ \A p \in Direct(ch) : DirectOk(ch, p)
  BY DEF Body
<1>2. /\ \A p \in DOMAIN ch : p \in Nat \ {0} /\ HeaderOk(ch[p])
      /\ \A p \in Ord(ch), q \in DOMAIN ch : q <= p \/ After(ch, p) <= q
      /\ top # NULL => top \in FreeAt(ch)
  BY <1>1 DEF Layout
<1>3. \A p \in DOMAIN ch : ch[p].size \in Nat /\ ch[p].foot \in Nat /\ ch[p].c \in BOOLEAN /\ ch[p].p \in BOOLEAN
                           /\ (ch[p].size = 0 => ch[p].c /\ ch[p].p)
  BY <1>2 DEF HeaderOk
<1>4. \A p \in Ord(ch) : p \in DOMAIN ch /\ p \in Nat /\ After(ch, p) \in Nat /\ p < After(ch, p)
  BY <1>2, <1>3 DEF Ord, After
<1>5. FreeAt(ch) \subseteq Ord(ch)
  BY <1>3 DEF FreeAt, Ord
<1>6. \A p \in Direct(ch) : /\ p \in DOMAIN ch /\ ch[p].size > 0 /\ p \notin Ord(ch) /\ ch[p].foot < p
                            /\ After(ch, p) \in Nat /\ p < After(ch, p) /\ p \in Nat \ {0}
  <2>1. ASSUME NEW p \in Direct(ch)
        PROVE  /\ p \in DOMAIN ch /\ ch[p].size > 0 /\ p \notin Ord(ch) /\ ch[p].foot < p
               /\ p \in Nat \ {0} /\ ch[p].size \in Nat
    BY <1>1, <1>2, <1>3 DEF Direct, Ord, DirectOk
  <2>. QED
    BY <2>1 DEF After
<1>. QED
  BY <1>1, <1>2, <1>3, <1>4, <1>5, <1>6, SequenceTypes

\* Where a chunk ends.
LEMMA ChunkInSegment ==
    ASSUME NEW ch, NEW top, NEW segs, NEW rg, Body(ch, top, segs, rg), NEW p \in Ord(ch)
    PROVE  \E i \in 1..Len(segs) :
             /\ segs[i].base <= p /\ p < segs[i].base + segs[i].size
             /\ After(ch, p) < segs[i].base + segs[i].size
<1>1. PICK i \in 1..Len(segs) : Holds(segs[i], p)
  BY DEF Body, Homes
<1>2. SegmentOk(ch, top, segs[i])
  BY DEF Body
<1>. DEFINE seg == segs[i]
            l == Limit(seg, top)
<1>3. /\ l \in DOMAIN ch /\ Holds(seg, l) /\ p <= l
      /\ seg.record = NULL => After(ch, top) + TopFoot = seg.base + seg.size
      /\ seg.record # NULL => ch[l].size = 0
  <2>1. p \in DOMAIN ch
    BY DEF Ord
  <2>. QED
    BY <1>1, <1>2, <2>1 DEF SegmentOk
<1>4. /\ p \in Nat /\ After(ch, p) \in Nat /\ p < After(ch, p) /\ l \in Nat
      /\ seg.base \in Nat /\ seg.size \in Nat /\ ch[p].size > 0
      /\ l <= p \/ After(ch, p) <= l
  BY SMTT(30), <1>3, BodyTypes DEF Ord
<1>5. seg.record = NULL => l = top
  BY DEF Limit
<1>. HIDE DEF l, seg
<1>6. seg.base <= p /\ p < seg.base + seg.size /\ l < seg.base + seg.size
  BY <1>1, <1>3 DEF Holds, seg
<1>7. CASE p < l
  <2>1. After(ch, p) <= l
    BY <1>4, <1>7
  <2>. QED
    BY <1>4, <1>6, <2>1 DEF seg
<1>8. CASE p = l
  <2>1. seg.record = NULL /\ p = top
    BY <1>3, <1>4, <1>5, <1>8
  <2>2. After(ch, p) < seg.base + seg.size
    BY <1>3, <1>4, <2>1 DEF TopFoot, SegmentSize, MinChunk
  <2>. QED
    BY <1>6, <2>2 DEF seg
<1>. QED
  BY <1>3, <1>4, <1>7, <1>8

\* A part of the address space in which whole segments are, or none.
LEMMA ApartOutside ==
    ASSUME NEW ch, NEW top, NEW segs, NEW rg, Body(ch, top, segs, rg), NEW b \in Nat \ {0}, NEW e \in Nat, NEW ch2,
           SameOutside(ch, ch2, b..(e - 1)),
           \A i \in 1..Len(segs) : \/ segs[i].base + segs[i].size <= b
                                   \/ e <= segs[i].base
                                   \/ b <= segs[i].base /\ segs[i].base + segs[i].size <= e
    PROVE  /\ Outside(ch, top, ch2, b, e)
           /\ (\A i \in 1..Len(segs) : segs[i].base + segs[i].size <= b \/ e <= segs[i].base) =>
                Ord(ch) \cap (b..(e - 1)) = {} /\ top \notin b..(e - 1)
<1>. DEFINE W == b..(e - 1)
<1>1. \A q \in Nat : q \in W <=> b <= q /\ q < e
  OBVIOUS
<1>2. DOMAIN ch2 \ W = DOMAIN ch \ W /\ \A q \in DOMAIN ch \ W : ch2[q] = ch[q]
  BY DEF SameOutside
<1>2a. NULL \notin W
  BY <1>1 DEF NULL
<1>. HIDE DEF W
<1>3. \A p \in Ord(ch) : p \in Nat \ {0} /\ After(ch, p) \in Nat /\ p < After(ch, p)
  BY BodyTypes DEF Ord
<1>4. ASSUME NEW p \in Ord(ch)
      PROVE  \/ p < b /\ After(ch, p) <= b /\ After(ch, p) \notin W
             \/ p >= e
             \/ b <= p /\ p < e /\ After(ch, p) \in W /\
                \E i \in 1..Len(segs) : b <= segs[i].base /\ segs[i].base + segs[i].size <= e /\ Holds(segs[i], p)
  <2>1. PICK i \in 1..Len(segs) :
             /\ segs[i].base <= p /\ p < segs[i].base + segs[i].size
             /\ After(ch, p) < segs[i].base + segs[i].size
    BY ChunkInSegment
  <2>2. segs[i].base \in Nat /\ segs[i].size \in Nat
    BY BodyTypes
  <2>3. CASE segs[i].base + segs[i].size <= b
    <3>1. p < b /\ After(ch, p) < b
      BY SMTT(30), <1>3, <2>1, <2>2, <2>3
    <3>. QED
      BY <1>1, <1>3, <3>1
  <2>4. CASE e <= segs[i].base
    BY <1>3, <2>1, <2>2, <2>4
  <2>5. CASE b <= segs[i].base /\ segs[i].base + segs[i].size <= e
    <3>1. b <= p /\ p < e /\ b <= After(ch, p) /\ After(ch, p) < e
      BY SMTT(30), <1>3, <2>1, <2>2, <2>5
    <3>. QED
      BY <1>1, <1>3, <2>1, <2>5, <3>1 DEF Holds
  <2>. QED
    BY <2>3, <2>4, <2>5
<1>5. Outside(ch, top, ch2, b, e)
  <2>1. ASSUME NEW p \in Ord(ch) \ W PROVE p >= e \/ (After(ch, p) <= b /\ After(ch, p) \notin W)
    BY <1>1, <1>3, <1>4
  <2>2. ASSUME NEW p \in Ord(ch) \cap W PROVE After(ch, p) \in W
    BY <1>1, <1>3, <1>4
  <2>. QED
    BY <1>2, <2>1, <2>2 DEF Outside, W
<1>6. ASSUME \A i \in 1..Len(segs) : segs[i].base + segs[i].size <= b \/ e <= segs[i].base
      PROVE  Ord(ch) \cap W = {}
  <2>1. SUFFICES ASSUME NEW p \in Ord(ch), p \in W PROVE FALSE
    OBVIOUS
  <2>2. b <= p /\ p < e
    BY <1>1, <1>3, <2>1
  <2>3. PICK i \in 1..Len(segs) : b <= segs[i].base /\ segs[i].base + segs[i].size <= e /\ Holds(segs[i], p)
    BY <1>3, <1>4, <2>2
  <2>4. segs[i].base \in Nat /\ segs[i].size \in Nat
    BY BodyTypes
  <2>. QED
    BY SMTT(30), <1>3, <1>6, <2>2, <2>3, <2>4 DEF Holds
<1>7. Ord(ch) \cap W = {} => top \notin W
  BY <1>2a, BodyTypes
<1>. QED
  BY <1>5, <1>6, <1>7 DEF W

\* A mapped chunk and its space are given back.
\* What goes with the mapped chunk p, from b up to e.
Dropped(ch, top, segs, rg, p, b, e, ch2, rg2) ==
    /\ Body(ch2, top, segs, rg2)
    /\ DOMAIN ch \cap Window(b, e) = {p, After(ch, p)}
    /\ DOMAIN ch2 = DOMAIN ch \ Window(b, e)
    /\ SameOutside(ch, ch2, Window(b, e))
    /\ top \notin Window(b, e) /\ b \in Nat \ {0} /\ e \in Nat
    /\ \A i \in 1..Len(segs) : segs[i].base + segs[i].size <= b \/ e <= segs[i].base
    /\ Spaces(ch, segs) = Spaces(ch2, segs) \cup {Space(b, e)}
    /\ \A t \in Spaces(ch2, segs) : t.end <= b \/ e <= t.base

\* A mapped chunk and its region may be given back.
LEMMA DropDirect ==
    ASSUME NEW ch, NEW top, NEW segs, NEW rg, Body(ch, top, segs, rg), NEW p \in Direct(ch),
           NEW b, b = p - ch[p].foot, NEW e, e = After(ch, p) + MmapFootPad,
           NEW ch3, ch3 = Restrict(ch, DOMAIN ch \ Window(b, e)),
           NEW rg3, rg3 = Restrict(rg, DOMAIN rg \ Window(b, e))
    PROVE  Dropped(ch, top, segs, rg, p, b, e, ch3, rg3)
<1>. DEFINE W == b..(e - 1)
            ch2 == Restrict(ch, DOMAIN ch \ W)
            rg2 == Restrict(rg, DOMAIN rg \ W)
            s == DirectSpace(ch, p)
            y == After(ch, p)
<1>1. /\ p \in Nat \ {0} /\ ch[p].foot \in Nat /\ ch[p].foot < p /\ p \in DOMAIN ch
      /\ y \in Nat /\ p < y /\ p \notin Ord(ch)
  BY BodyTypes
<1>2. DirectOk(ch, p) /\ SpacesOk(Spaces(ch, segs), rg)
  BY DEF Body
<1>3. s \in Spaces(ch, segs) /\ s.base = b /\ s.end = e
  BY DEF Spaces, DirectSpace
<1>4. \A q \in Nat : q \in W <=> b <= q /\ q < e
  BY <1>1
<1>5. /\ b \in Nat \ {0} /\ e \in Nat /\ b <= p /\ p < e /\ b <= y /\ y < e /\ b < e /\ NULL \notin W
  BY <1>1 DEF MmapFootPad, NULL
<1>6. DOMAIN ch2 = DOMAIN ch \ W /\ \A q \in DOMAIN ch2 : ch2[q] = ch[q]
  BY DEF Restrict
<1>6a. rg2 = Restrict(rg, DOMAIN rg \ (s.base..(s.end - 1)))
  BY <1>3
<1>. HIDE DEF W, ch2, rg2, s, y
<1>7. SameOutside(ch, ch2, W)
  BY <1>6 DEF SameOutside
<1>8. ASSUME NEW t \in Spaces(ch, segs), t # s PROVE t.end <= b \/ e <= t.base
  <2>1. Separate(t, s)
    BY <1>2, <1>3, <1>8, SpaceFacts
  <2>. QED
    BY <1>3, <2>1 DEF Separate
<1>9. ASSUME NEW i \in 1..Len(segs)
      PROVE  SegmentSpace(segs[i]) # s /\ (segs[i].base + segs[i].size <= b \/ e <= segs[i].base)
  <2>. DEFINE t == SegmentSpace(segs[i])
  <2>1. t \in Spaces(ch, segs) /\ t.base = segs[i].base /\ t.end = segs[i].base + segs[i].size
    BY DEF Spaces, SegmentSpace
  <2>2. segs[i].base \in Nat \ {0} /\ segs[i].size \in Nat \ {0} /\ segs[i].base \in Ord(ch)
    BY BodyTypes DEF Body, SegmentOk
  <2>3. t # s
    <3>1. SUFFICES ASSUME t = s PROVE FALSE
      OBVIOUS
    <3>2. segs[i].base = b
      BY <1>3, <2>1, <3>1
    <3>3. segs[i].base = p \/ segs[i].base = y
      <4>1. \A q \in DOMAIN ch : b <= q /\ q < e => q = p \/ q = y
        BY <1>2 DEF DirectOk, y
      <4>. QED
        BY <1>5, <2>2, <3>2, <4>1 DEF Ord
    <3>4. ch[y].size = 0
      BY <1>2 DEF DirectOk, y
    <3>. QED
      BY <1>1, <2>2, <3>3, <3>4 DEF Ord
  <2>. QED
    BY <1>8, <2>1, <2>3
<1>10. Outside(ch, top, ch2, b, e) /\ Ord(ch) \cap W = {} /\ top \notin W
  BY <1>5, <1>7, <1>9, ApartOutside DEF W
<1>11. DOMAIN ch2 \cap W = {}
  BY <1>6
<1>12. InsideOk(ch2, top, b, e)
  BY <1>11 DEF InsideOk, Ord, W
<1>13. TopSwap(ch2, top, top, b, e)
  BY <1>10 DEF TopSwap, W
<1>14. Swapped(ch, top, segs, rg, ch2, top, segs, rg2, b, e, s, {})
  <2>1. ASSUME NEW q \in Direct(ch), DirectSpace(ch, q) = s PROVE q \in W /\ After(ch, q) \in W
    <3>1. q \in Nat /\ ch[q].foot \in Nat /\ ch[q].foot < q /\ After(ch, q) \in Nat /\ q < After(ch, q)
      BY BodyTypes
    <3>2. q - ch[q].foot = b /\ After(ch, q) + MmapFootPad = e
      BY <1>3, <2>1 DEF DirectSpace
    <3>3. b <= q /\ q < e /\ b <= After(ch, q) /\ After(ch, q) < e
      BY <3>1, <3>2 DEF MmapFootPad
    <3>. QED
      BY <1>4, <3>1, <3>3
  <2>2. SpacesOk((Spaces(ch, segs) \ {s}) \cup {}, rg2)
    <3>1. ASSUME NEW T, T = {}
          PROVE  SpacesOk((Spaces(ch, segs) \ {s}) \cup T, Restrict(rg, DOMAIN rg \ (b..(s.end - 1))))
      <4>1. T = IF b = s.base THEN {} ELSE {Space(s.base, b)}
        BY <1>3, <3>1
      <4>2. b \in Nat /\ s.base <= b /\ b < s.end /\ (s.base < b => b \in DOMAIN rg)
        BY <1>3, <1>5
      <4>. QED
        BY ONLY <1>2, <1>3, <4>1, <4>2, ShrinkSpace
    <3>. QED
      BY <1>3, <1>6a, <3>1
  <2>3. segs \in Seq(SegmentType) /\ \A i, j \in 1..Len(segs) : segs[i].base = segs[j].base => i = j
    BY DEF Body
  <2>4. \A q \in Direct(ch2) \cap W : FALSE
    BY <1>11 DEF Direct
  <2>5. \A q \in Ord(ch2) \cap W : FALSE
    BY <1>11 DEF Ord
  <2>. QED
    BY <1>8, <1>9, <1>10, <1>11, <1>12, <1>13, <2>1, <2>2, <2>3, <2>4, <2>5 DEF Swapped, W
<1>15. Body(ch2, top, segs, rg2) /\ Spaces(ch2, segs) = (Spaces(ch, segs) \ {s}) \cup {}
  BY <1>14, SwapBody
<1>17. s = Space(b, e)
  BY <1>3 DEF s, DirectSpace, Space
<1>18. /\ Spaces(ch, segs) = Spaces(ch2, segs) \cup {Space(b, e)}
       /\ \A t \in Spaces(ch2, segs) : t.end <= b \/ e <= t.base
  BY <1>3, <1>8, <1>15, <1>17
<1>16. DOMAIN ch \cap W = {p, y}
  <2>1. \A q \in DOMAIN ch : b <= q /\ q < e => q = p \/ q = y
    BY <1>2 DEF DirectOk, y
  <2>2. y \in DOMAIN ch
    BY <1>2 DEF DirectOk, y
  <2>3. \A q \in DOMAIN ch : q \in Nat
    BY BodyTypes
  <2>. QED
    BY <1>1, <1>4, <1>5, <2>1, <2>2, <2>3
<1>19. Window(b, e) = W
  BY DEF Window, W
<1>20. DOMAIN ch2 = DOMAIN ch \ W
  BY <1>6
<1>21. ch3 = ch2 /\ rg3 = rg2
  BY <1>19 DEF ch2, rg2
<1>22. y = After(ch, p)
  BY DEF y
<1>23. b \in Nat \ {0} /\ e \in Nat
  BY <1>5
<1>24. SameOutside(ch, ch2, W) /\ top \notin W
  BY <1>7, <1>9, <1>10, <1>19
<1>25. \A i \in 1..Len(segs) : segs[i].base + segs[i].size <= b \/ e <= segs[i].base
  BY <1>7, <1>9, <1>10
<1>26. Body(ch2, top, segs, rg2)
  BY <1>15
<1>27. DOMAIN ch \cap W = {p, After(ch, p)}
  BY <1>16, <1>22
<1>. QED
  BY <1>18, <1>19, <1>20, <1>21, <1>23, <1>24, <1>25, <1>26, <1>27 DEF Dropped

-----------------------------------------------------------------------------
(* Arithmetic. *)

\* The quotient by a constant.
LEMMA DivIs ==
    ASSUME NEW x \in Nat, NEW d \in Nat \ {0}
    PROVE  /\ x \div d \in Nat /\ x % d \in Nat
           /\ d * (x \div d) <= x /\ x < d * (x \div d) + d
           /\ d * (x \div d) \in Nat
  OBVIOUS

\* The remainder, where the offset of a mapped chunk is computed.
LEMMA ModIs ==
    ASSUME NEW x \in Nat, NEW d \in Nat \ {0}
    PROVE  /\ x % d \in 0..(d - 1)
           /\ x < d => x % d = x
           /\ x >= d /\ x < 2 * d => x % d = x - d
  OBVIOUS

\* Rounding up either overflows, and then gives less, or leaves room for all.
LEMMA GranularityAlignIs ==
    ASSUME NEW nb \in Nat, NEW k \in Nat, k <= Granularity, GranularityAlign(nb + k) > nb
    PROVE  GranularityAlign(nb + k) \in Nat /\ GranularityAlign(nb + k) >= nb + k
<1>. DEFINE G == Granularity
            M == MaxSize + 1
            w == nb + k + G - 1
            x == w % M
            r == G * (x \div G)
<1>1. G \in Nat \ {0} /\ M \in Nat \ {0} /\ M > 2 * G /\ MaxSize \in Nat
  BY GranularityAssumption, SizeAssumption
<1>2. w \in Nat /\ w = nb + k + G - 1
  BY <1>1
<1>3. r = GranularityAlign(nb + k)
  BY <1>1 DEF GranularityAlign, Wrap
<1>. HIDE DEF G, M, w
<1>4a. /\ x \in 0..(M - 1)
       /\ w < M => x = w
       /\ w >= M /\ w < 2 * M => x = w - M
  BY ONLY <1>1, <1>2, ModIs
<1>4b. x \in Nat
  BY ONLY <1>1, <1>4a
<1>4. /\ x \in 0..(M - 1) /\ x \in Nat
      /\ w < M => x = w
      /\ w >= M /\ w < 2 * M => x = w - M
  BY ONLY <1>4a, <1>4b
<1>. HIDE DEF x
<1>5. r \in Nat /\ r <= x /\ x < r + G
  BY <1>1, <1>4, DivIs
<1>. HIDE DEF r
<1>6. r > nb
  BY <1>3
<1>7. w < M
  <2>1. SUFFICES ASSUME w >= M PROVE FALSE
    BY <1>1, <1>2
  <2>2. CASE nb >= M
    BY <1>1, <1>4, <1>5, <1>6, <2>2
  <2>3. CASE nb < M
    <3>1. w < 2 * M
      BY <1>1, <1>2, <2>3 DEF G
    <3>2. x = w - M
      BY <1>4, <2>1, <3>1
    <3>. QED
      BY <1>1, <1>2, <1>5, <1>6, <3>2 DEF G
  <2>. QED
    BY <1>1, <2>2, <2>3
<1>8. r >= nb + k
  BY <1>1, <1>2, <1>4, <1>5, <1>7 DEF G
<1>. QED
  BY <1>3, <1>5, <1>8

\* The aligned place leaves room for a chunk before it, and is not far.
LEMMA AlignedAtIs ==
    ASSUME NEW p \in Nat, NEW d \in Nat \ {0}, (p + 1) % d # 0
    PROVE  AlignedAt(p, d) \in Nat /\ AlignedAt(p, d) - p >= MinChunk /\ AlignedAt(p, d) - p <= d + 1
<1>. DEFINE q == (p + d) \div d
            br == d * q - 1
<1>1. d * q \in Nat /\ d * q <= p + d /\ p + d < d * q + d
  BY DivIs
<1>2. d * q # p + 1
  <2>1. q \in Nat
    BY DivIs
  <2>2. (d * q) % d = 0
    <3>. HIDE DEF q
    <3>. QED
      BY <2>1
  <2>. QED
    BY <2>2
<1>3. AlignedAt(p, d) = IF br - p >= MinChunk THEN br ELSE br + d
  BY DEF AlignedAt
<1>4. d > 1
  BY ModIs
<1>. HIDE DEF q
<1>. QED
  BY <1>1, <1>2, <1>3, <1>4 DEF MinChunk

-----------------------------------------------------------------------------
(* Sums. *)

\* The intervals are apart, and x has length w[x].
Lengths(w, iv, S) ==
    /\ IsFiniteSet(S)
    /\ \A x \in S : IsFiniteSet(iv[x]) /\ Cardinality(iv[x]) = w[x]
    /\ \A x, y \in S : x # y => iv[x] \cap iv[y] = {}

\* The sums of all subsets, as MapThenSumSet builds them.
SumsOfSets(g, w, S) ==
    g = [s \in SUBSET S |-> IF s = {} THEN 0 ELSE w[CHOOSE x \in s : TRUE] + g[s \ {CHOOSE x \in s : TRUE}]]

\* Taking one of them away.
LEMMA CoveredWithout ==
    ASSUME NEW w, NEW iv, NEW S, Lengths(w, iv, S), NEW s \in SUBSET S, NEW x \in s,
           IsFiniteSet(Covered(iv, s \ {x}))
    PROVE  /\ IsFiniteSet(Covered(iv, s))
           /\ Cardinality(Covered(iv, s)) = w[x] + Cardinality(Covered(iv, s \ {x}))
<1>. DEFINE A == Covered(iv, s \ {x})
            B == iv[x]
<1>1. Covered(iv, s) = B \cup A
  BY DEF Covered
<1>2. B \cap A = {}
  BY DEF Covered, Lengths
<1>3. IsFiniteSet(B) /\ Cardinality(B) = w[x]
  BY DEF Lengths
<1>. HIDE DEF A, B
<1>4. IsFiniteSet(B \cup A) /\ Cardinality(B \cup A) = Cardinality(B) + Cardinality(A) - Cardinality(B \cap A)
  BY <1>3, FS_Union DEF A
<1>5. Cardinality(B \cap A) = 0
  BY <1>2, FS_EmptySet
<1>6. Cardinality(A) \in Nat /\ Cardinality(B) \in Nat
  BY <1>3, FS_CardinalityType DEF A
<1>. QED
  BY <1>1, <1>3, <1>4, <1>5, <1>6 DEF A

\* By the number of things in the set.
LEMMA CoveredFinite ==
    ASSUME NEW w, NEW iv, NEW S, Lengths(w, iv, S)
    PROVE  \A s \in SUBSET S : IsFiniteSet(Covered(iv, s))
<1>. DEFINE n == Cardinality(S)
            P == {k \in 0..n : \A s \in SUBSET S : Cardinality(s) = k => IsFiniteSet(Covered(iv, s))}
<1>1. n \in Nat /\ \A s \in SUBSET S : IsFiniteSet(s) /\ Cardinality(s) \in 0..n
  BY FS_CardinalityType, FS_Subset DEF Lengths
<1>. HIDE DEF n
<1>2. 0 \in P
  <2>1. \A s \in SUBSET S : Cardinality(s) = 0 => s = {}
    BY <1>1, FS_EmptySet
  <2>2. Covered(iv, {}) = {} /\ IsFiniteSet({})
    BY FS_EmptySet DEF Covered
  <2>. QED
    BY <1>1, <2>1, <2>2
<1>3. ASSUME NEW k \in 1..n, k - 1 \in P PROVE k \in P
  <2>1. ASSUME NEW s \in SUBSET S, Cardinality(s) = k PROVE IsFiniteSet(Covered(iv, s))
    <3>1. s # {}
      BY <2>1, FS_EmptySet
    <3>2. PICK x \in s : TRUE
      BY <3>1
    <3>3. Cardinality(s \ {x}) = k - 1 /\ s \ {x} \in SUBSET S
      BY <1>1, <2>1, FS_RemoveElement
    <3>4. IsFiniteSet(Covered(iv, s \ {x}))
      BY <1>3, <3>3
    <3>. QED
      BY <3>4, CoveredWithout
  <2>. QED
    BY <1>1, <2>1
<1>. HIDE DEF P
<1>4. \A k \in 0..n : k \in P
  BY <1>1, <1>2, <1>3, EachRound
<1>. QED
  BY <1>1, <1>4 DEF P

\* There are such sums.
LEMMA SumsOfSetsExist ==
    ASSUME NEW w, NEW iv, NEW S, Lengths(w, iv, S)
    PROVE  \E g : SumsOfSets(g, w, S)
<1>. DEFINE C(s) == Cardinality(Covered(iv, s))
            g == [s \in SUBSET S |-> C(s)]
<1>1. \A s \in SUBSET S : g[s] = IF s = {} THEN 0 ELSE w[CHOOSE x \in s : TRUE] + g[s \ {CHOOSE x \in s : TRUE}]
  <2>. TAKE s \in SUBSET S
  <2>1. g[s] = C(s)
    OBVIOUS
  <2>2. CASE s = {}
    <3>1. Covered(iv, s) = {}
      BY <2>2 DEF Covered
    <3>. QED
      BY <2>1, <2>2, <3>1, FS_EmptySet
  <2>3. CASE s # {}
    <3>. DEFINE x == CHOOSE x \in s : TRUE
    <3>1. x \in s
      BY <2>3
    <3>. HIDE DEF x
    <3>2. s \ {x} \in SUBSET S
      OBVIOUS
    <3>3. g[s \ {x}] = C(s \ {x})
      BY <3>2
    <3>. HIDE DEF g
    <3>4. C(s) = w[x] + C(s \ {x})
      BY <3>1, <3>2, CoveredFinite, CoveredWithout
    <3>. HIDE DEF C
    <3>5. g[s] = w[x] + g[s \ {x}]
      BY <2>1, <3>3, <3>4
    <3>. QED
      BY <2>3, <3>5 DEF x
  <2>. QED
    BY <2>2, <2>3
<1>2. g = [s \in SUBSET S |-> g[s]]
  OBVIOUS
<1>. HIDE DEF g
<1>3. SumsOfSets(g, w, S)
  BY <1>1, <1>2 DEF SumsOfSets
<1>. QED
  BY <1>3

\* The sum of the lengths is how much is covered.
LEMMA SumsOfSetsAre ==
    ASSUME NEW w, NEW iv, NEW S, Lengths(w, iv, S), NEW g, SumsOfSets(g, w, S)
    PROVE  g[S] = Cardinality(Covered(iv, S)) /\ IsFiniteSet(Covered(iv, S))
<1>. DEFINE n == Cardinality(S)
            C(s) == Cardinality(Covered(iv, s))
            P == {k \in 0..n : \A s \in SUBSET S : Cardinality(s) = k => g[s] = C(s)}
<1>1. n \in Nat /\ \A s \in SUBSET S : IsFiniteSet(s) /\ Cardinality(s) \in 0..n
  BY FS_CardinalityType, FS_Subset DEF Lengths
<1>. HIDE DEF n
<1>2. \A s \in SUBSET S : IsFiniteSet(Covered(iv, s))
  BY CoveredFinite
<1>3. 0 \in P
  <2>1. \A s \in SUBSET S : Cardinality(s) = 0 => s = {}
    BY <1>1, FS_EmptySet
  <2>2. C({}) = 0
    BY FS_EmptySet DEF Covered
  <2>3. g[{}] = 0
    BY DEF SumsOfSets
  <2>. HIDE DEF C
  <2>. QED
    BY <1>1, <2>1, <2>2, <2>3
<1>4. ASSUME NEW k \in 1..n, k - 1 \in P PROVE k \in P
  <2>1. ASSUME NEW s \in SUBSET S, Cardinality(s) = k PROVE g[s] = C(s)
    <3>1. s # {}
      BY <2>1, FS_EmptySet
    <3>. DEFINE x == CHOOSE x \in s : TRUE
    <3>2. x \in s
      BY <3>1
    <3>3. g[s] = w[x] + g[s \ {x}]
      BY <3>1 DEF SumsOfSets
    <3>. HIDE DEF x
    <3>4. Cardinality(s \ {x}) = k - 1 /\ s \ {x} \in SUBSET S
      BY <1>1, <2>1, <3>2, FS_RemoveElement
    <3>5. g[s \ {x}] = C(s \ {x})
      BY <1>4, <3>4
    <3>6. C(s) = w[x] + C(s \ {x})
      BY <1>2, <3>2, <3>4, CoveredWithout
    <3>. HIDE DEF C
    <3>. QED
      BY <3>3, <3>5, <3>6
  <2>. HIDE DEF C
  <2>. QED
    BY <1>1, <2>1
<1>. HIDE DEF P, C
<1>5. \A k \in 0..n : k \in P
  BY <1>1, <1>3, <1>4, EachRound
<1>6. S \in SUBSET S /\ n \in 0..n
  BY <1>1
<1>. QED
  BY <1>2, <1>5, <1>6 DEF P, n, C

\* So it is for MapThenSumSet.
LEMMA SumSetIs ==
    ASSUME NEW w, NEW iv, NEW S, Lengths(w, iv, S)
    PROVE  /\ MapThenSumSet(LAMBDA x : w[x], S) = Cardinality(Covered(iv, S))
           /\ IsFiniteSet(Covered(iv, S))
<1>. DEFINE R(f) == [s \in SUBSET S |-> IF s = {} THEN 0
                       ELSE w[CHOOSE x \in s : TRUE] + f[s \ {CHOOSE x \in s : TRUE}]]
            g == CHOOSE f : f = R(f)
<1>1. MapThenSumSet(LAMBDA x : w[x], S) = g[S]
  BY DEF MapThenSumSet, MapThenFoldSet
<1>2. \E f : f = R(f)
  <2>1. PICK f : SumsOfSets(f, w, S)
    BY SumsOfSetsExist
  <2>2. f = R(f)
    BY <2>1 DEF SumsOfSets
  <2>. HIDE DEF R
  <2>. QED
    BY <2>2
<1>3. g = R(g)
  <2>. HIDE DEF R
  <2>. QED
    BY <1>2
<1>4. SumsOfSets(g, w, S)
  <2>. HIDE DEF g
  <2>. QED
    BY <1>3 DEF SumsOfSets
<1>. HIDE DEF g
<1>. QED
  BY <1>1, <1>4, SumsOfSetsAre

\* Regions that are apart have their sizes as lengths.
LEMMA ApartLengths ==
    ASSUME NEW rg, NEW S \in SUBSET DOMAIN rg, IsFiniteSet(S),
           \A r \in S : r \in Nat /\ rg[r] \in Nat \ {0},
           \A r, q \in S : r # q => r + rg[r] <= q \/ q + rg[q] <= r
    PROVE  Lengths(rg, Extent(rg), S)
<1>2. ASSUME NEW r \in S
      PROVE  IsFiniteSet(Extent(rg)[r]) /\ Cardinality(Extent(rg)[r]) = rg[r]
  <2>. DEFINE e == r + rg[r] - 1
  <2>1. r \in Int /\ e \in Int /\ ~(r > e) /\ e - r + 1 = rg[r]
    OBVIOUS
  <2>2. Extent(rg)[r] = r..e
    BY DEF Extent
  <2>. HIDE DEF e
  <2>3. IsFiniteSet(r..e) /\ Cardinality(r..e) = e - r + 1
    BY <2>1, FS_Interval
  <2>. QED
    BY <2>1, <2>2, <2>3
<1>3. ASSUME NEW r \in S, NEW q \in S, r # q
      PROVE  Extent(rg)[r] \cap Extent(rg)[q] = {}
  <2>1. Extent(rg)[r] = r..(r + rg[r] - 1) /\ Extent(rg)[q] = q..(q + rg[q] - 1)
    BY DEF Extent
  <2>2. r + rg[r] <= q \/ q + rg[q] <= r
    BY <1>3
  <2>3. r \in Nat /\ q \in Nat /\ rg[r] \in Nat /\ rg[q] \in Nat
    OBVIOUS
  <2>. QED
    BY <2>1, <2>2, <2>3
<1>. QED
  BY <1>2, <1>3 DEF Lengths

\* So do those there are addresses for.
LEMMA RegionLengths ==
    ASSUME NEW rg, NEW S \in SUBSET DOMAIN rg, NEW lo \in Nat, NEW hi \in Nat,
           \A r \in S : r \in Nat /\ rg[r] \in Nat \ {0} /\ lo <= r /\ r <= hi,
           \A r, q \in S : r # q => r + rg[r] <= q \/ q + rg[q] <= r
    PROVE  Lengths(rg, Extent(rg), S)
<1>1. IsFiniteSet(S)
  <2>1. S \in SUBSET Nat /\ \A r \in S : r <= hi
    OBVIOUS
  <2>. QED
    BY <2>1, FS_BoundedSetOfNaturals
<1>. QED
  BY <1>1, ApartLengths

\* The regions of a space are as long as the space,
LEMMA SpaceFilled ==
    ASSUME NEW spaces, NEW rg, SpacesOk(spaces, rg), NEW s \in spaces,
           NEW within, within = {r \in DOMAIN rg : s.base <= r /\ r < s.end}
    PROVE  s.base \in within /\ MapThenSumSet(LAMBDA r : rg[r], within) = s.end - s.base
<1>1. s.base \in Nat \ {0} /\ s.end \in Nat /\ s.base < s.end
  BY DEF SpacesOk
<1>2. ASSUME NEW r \in within
      PROVE  r \in Nat /\ rg[r] \in Nat \ {0} /\ s.base <= r /\ r + rg[r] <= s.end
  <2>1. /\ r \in Nat /\ rg[r] \in Nat \ {0} /\ s.base <= r /\ r < s.end
    BY <1>2 DEF SpacesOk
  <2>2. PICK t \in spaces : t.base <= r /\ r + rg[r] <= t.end
    BY <1>2 DEF SpacesOk
  <2>3. t.base \in Nat /\ t.end \in Nat
    BY DEF SpacesOk
  <2>4. t = s
    <3>1. t # s => Separate(t, s)
      BY DEF SpacesOk
    <3>. QED
      BY <1>1, <2>1, <2>2, <2>3, <3>1 DEF Separate
  <2>. QED
    BY <2>1, <2>2, <2>4
<1>3. ASSUME NEW a \in s.base..(s.end - 1)
      PROVE  \E r \in within : r <= a /\ a < r + rg[r]
  <2>1. PICK r \in DOMAIN rg : r <= a /\ a < r + rg[r]
    BY <1>3 DEF SpacesOk
  <2>2. r \in Nat /\ rg[r] \in Nat
    BY DEF SpacesOk
  <2>3. PICK t \in spaces : t.base <= r /\ r + rg[r] <= t.end
    BY DEF SpacesOk
  <2>4. t.base \in Nat /\ t.end \in Nat
    BY DEF SpacesOk
  <2>5. t = s
    <3>1. t # s => Separate(t, s)
      BY DEF SpacesOk
    <3>. QED
      BY <1>1, <2>1, <2>2, <2>3, <2>4, <3>1 DEF Separate
  <2>6. r \in within
    BY <1>1, <2>1, <2>2, <2>3, <2>5
  <2>. QED
    BY <2>1, <2>6
<1>4. s.base \in within
  <2>1. s.base \in s.base..(s.end - 1)
    BY <1>1
  <2>2. PICK r \in within : r <= s.base /\ s.base < r + rg[r]
    BY <1>3, <2>1
  <2>3. r = s.base
    BY <1>1, <1>2, <2>2
  <2>. QED
    BY <2>2, <2>3
<1>5. Lengths(rg, Extent(rg), within)
  <2>1. \A r, q \in within : r # q => r + rg[r] <= q \/ q + rg[q] <= r
    BY DEF SpacesOk
  <2>2. \A r \in within : r \in Nat /\ rg[r] \in Nat \ {0} /\ s.base <= r /\ r <= s.end
    BY <1>1, <1>2
  <2>3. within \in SUBSET DOMAIN rg
    OBVIOUS
  <2>. QED
    BY <1>1, <2>1, <2>2, <2>3, RegionLengths
<1>6. Covered(Extent(rg), within) = s.base..(s.end - 1)
  <2>1. \A r \in within : Extent(rg)[r] = r..(r + rg[r] - 1)
    BY DEF Extent
  <2>2. \A a \in s.base..(s.end - 1) : \E r \in within : a \in Extent(rg)[r]
    <3>. TAKE a \in s.base..(s.end - 1)
    <3>1. PICK r \in within : r <= a /\ a < r + rg[r]
      BY <1>3
    <3>2. a \in r..(r + rg[r] - 1)
      BY <1>1, <1>2, <3>1
    <3>. QED
      BY <2>1, <3>2
  <2>3. \A r \in within : \A a \in Extent(rg)[r] : a \in s.base..(s.end - 1)
    <3>. TAKE r \in within
    <3>. TAKE a \in Extent(rg)[r]
    <3>1. a \in r..(r + rg[r] - 1)
      BY <2>1
    <3>. QED
      BY <1>1, <1>2, <3>1
  <2>. HIDE <1>3
  <2>. QED
    BY <2>2, <2>3 DEF Covered
<1>7. Cardinality(s.base..(s.end - 1)) = s.end - s.base
  <2>. DEFINE a == s.base
              e == s.end - 1
  <2>1. a \in Int /\ e \in Int /\ a <= e /\ e - a + 1 = s.end - s.base
    BY <1>1
  <2>. HIDE DEF a, e
  <2>2. Cardinality(a..e) = e - a + 1
    BY ONLY <2>1, FS_Interval
  <2>. QED
    BY ONLY <2>1, <2>2 DEF a, e
<1>8. MapThenSumSet(LAMBDA r : rg[r], within) = Cardinality(Covered(Extent(rg), within))
  BY <1>5, SumSetIs
<1>. QED
  BY <1>4, <1>6, <1>7, <1>8

\* and the system takes them back.
LEMMA CanUnmapSpace ==
    ASSUME NEW m, NEW spaces, SpacesOk(spaces, m.regions), NEW s \in spaces
    PROVE  CanUnmap(m, s.base, s.end - s.base)
<1>. DEFINE within == {r \in DOMAIN m.regions : s.base <= r /\ r < s.base + (s.end - s.base)}
<1>1. within = {r \in DOMAIN m.regions : s.base <= r /\ r < s.end}
  BY DEF SpacesOk
<1>. HIDE DEF within
<1>2. s.base \in within /\ MapThenSumSet(LAMBDA r : m.regions[r], within) = s.end - s.base
  BY <1>1, SpaceFilled
<1>. QED
  BY <1>2 DEF CanUnmap, within

\* Regions are apart.
RegionsApart(rg) ==
    /\ \A r \in DOMAIN rg : r \in Nat /\ rg[r] \in Nat \ {0}
    /\ \A r, q \in DOMAIN rg : r # q => r + rg[r] <= q \/ q + rg[q] <= r

\* The regions of spaces are apart.
LEMMA SpacesApart ==
    ASSUME NEW spaces, NEW rg, SpacesOk(spaces, rg)
    PROVE  RegionsApart(rg)
  BY DEF SpacesOk, RegionsApart

\* A new region counts,
LEMMA MapCounts ==
    ASSUME NEW m, NEW n, RegionsApart(m.regions), NEW a \in Nat, NEW size \in Nat,
           \A r \in DOMAIN m.regions : a + size <= r \/ r + m.regions[r] <= a, size > 0,
           n.regions = With(m.regions, a, size), n.footprint = m.footprint + size
    PROVE  Counts(n, m)
<1>. DEFINE rg == m.regions
            rg2 == n.regions
            A == Covered(Extent(rg), DOMAIN rg)
            e == a + size - 1
            B == a..e
<1>1. SUFFICES ASSUME Counted(m) PROVE Counted(n)
  BY DEF Counts
<1>2. IsFiniteSet(A) /\ m.footprint = Cardinality(A)
  BY <1>1 DEF Counted
<1>3. a \in Int /\ e \in Int /\ ~(a > e) /\ e - a + 1 = size
  OBVIOUS
<1>4. \A r \in DOMAIN rg : Extent(rg)[r] = r..(r + rg[r] - 1)
  BY DEF Extent
<1>5. DOMAIN rg2 = DOMAIN rg \cup {a} /\ a \notin DOMAIN rg
      /\ \A r \in DOMAIN rg2 : rg2[r] = IF r = a THEN size ELSE rg[r]
  BY DEF With, RegionsApart
<1>6. \A r \in DOMAIN rg2 : Extent(rg2)[r] = IF r = a THEN B ELSE Extent(rg)[r]
  BY <1>4, <1>5 DEF Extent
<1>. HIDE DEF rg2
<1>7. Covered(Extent(rg2), DOMAIN rg2) = A \cup B
  BY <1>5, <1>6 DEF Covered
<1>8. A \cap B = {}
  <2>1. ASSUME NEW r \in DOMAIN rg, NEW x \in Extent(rg)[r] PROVE x \notin B
    <3>1. x \in r..(r + rg[r] - 1)
      BY <1>4
    <3>2. r \in Nat /\ rg[r] \in Nat /\ (a + size <= r \/ r + rg[r] <= a)
      BY DEF RegionsApart
    <3>. QED
      BY <3>1, <3>2
  <2>. QED
    BY <2>1 DEF Covered
<1>. HIDE DEF e
<1>9. IsFiniteSet(B) /\ Cardinality(B) = size
  BY <1>3, FS_Interval
<1>. HIDE DEF A, B
<1>10. IsFiniteSet(A \cup B) /\ Cardinality(A \cup B) = Cardinality(A) + Cardinality(B) - Cardinality(A \cap B)
  BY <1>2, <1>9, FS_Union
<1>11. Cardinality(A \cap B) = 0
  BY <1>8, FS_EmptySet
<1>12. Cardinality(A) \in Nat
  BY <1>2, FS_CardinalityType
<1>13. n.footprint = Cardinality(A \cup B)
  BY <1>2, <1>9, <1>10, <1>11, <1>12
<1>14. IsFiniteSet(A \cup B)
  BY <1>10
<1>. QED
  BY <1>7, <1>13, <1>14 DEF Counted, rg2

\* and those that are given back no longer do.
LEMMA UnmapCounts ==
    ASSUME NEW m, NEW n, RegionsApart(m.regions), NEW a \in Nat, NEW size \in Nat,
           CanUnmap(m, a, size), NEW e, e = a + size,
           n.regions = Restrict(m.regions, DOMAIN m.regions \ Window(a, e)),
           n.footprint = m.footprint - (e - a)
    PROVE  Counts(n, m)
<1>. DEFINE rg == m.regions
            rg2 == n.regions
            iv == Extent(rg)
            within == {r \in DOMAIN rg : a <= r /\ r < a + size}
            A == Covered(iv, DOMAIN rg)
            B == Covered(iv, within)
            C == Covered(iv, DOMAIN rg \ within)
<1>1. SUFFICES ASSUME Counted(m) PROVE Counted(n)
  BY DEF Counts
<1>2. IsFiniteSet(A) /\ m.footprint = Cardinality(A)
  BY <1>1 DEF Counted
<1>3. IsFiniteSet(B) /\ Cardinality(B) = size
  <2>. DEFINE hi == a + size
  <2>1. \A r \in within : r \in Nat /\ rg[r] \in Nat \ {0} /\ a <= r /\ r <= hi
    BY DEF RegionsApart
  <2>2. \A r, q \in within : r # q => r + rg[r] <= q \/ q + rg[q] <= r
    BY DEF RegionsApart
  <2>3. within \in SUBSET DOMAIN rg /\ hi \in Nat
    OBVIOUS
  <2>4. MapThenSumSet(LAMBDA r : rg[r], within) = size
    BY DEF CanUnmap
  <2>. HIDE DEF within, hi, rg
  <2>5. Lengths(rg, iv, within)
    BY <2>1, <2>2, <2>3, RegionLengths
  <2>. HIDE DEF iv
  <2>6. MapThenSumSet(LAMBDA r : rg[r], within) = Cardinality(B) /\ IsFiniteSet(B)
    BY <2>5, SumSetIs
  <2>. QED
    BY <2>4, <2>6
<1>4. A = B \cup C
  BY DEF Covered
<1>5. B \cap C = {}
  <2>1. \A r \in DOMAIN rg : iv[r] = r..(r + rg[r] - 1)
    BY DEF Extent
  <2>2. ASSUME NEW r \in DOMAIN rg, NEW q \in DOMAIN rg, r # q, NEW x \in iv[r] PROVE x \notin iv[q]
    <3>1. x \in r..(r + rg[r] - 1) /\ iv[q] = q..(q + rg[q] - 1)
      BY <2>1
    <3>2. r \in Nat /\ q \in Nat /\ rg[r] \in Nat /\ rg[q] \in Nat /\ (r + rg[r] <= q \/ q + rg[q] <= r)
      BY <2>2 DEF RegionsApart
    <3>. QED
      BY <3>1, <3>2
  <2>. HIDE DEF iv
  <2>. QED
    BY <2>2 DEF Covered
<1>6. Covered(Extent(rg2), DOMAIN rg2) = C
  <2>1. DOMAIN rg2 = DOMAIN rg \ within
    <3>1. Window(a, e) = a..(a + size - 1)
      BY DEF Window
    <3>2. DOMAIN rg2 = DOMAIN rg \ Window(a, e)
      BY DEF Restrict
    <3>3. \A r \in DOMAIN rg : r \in Nat
      BY DEF RegionsApart
    <3>4. \A r \in DOMAIN rg : r \in within <=> r \in Window(a, e)
      BY <3>1, <3>3
    <3>. HIDE DEF within, rg2, rg
    <3>. QED
      BY <3>2, <3>4
  <2>2. \A r \in DOMAIN rg2 : rg2[r] = rg[r]
    BY <2>1 DEF Restrict
  <2>. HIDE DEF within, rg2
  <2>3. \A r \in DOMAIN rg2 : Extent(rg2)[r] = iv[r]
    BY <2>1, <2>2 DEF Extent
  <2>. HIDE DEF iv
  <2>. QED
    BY <2>1, <2>3 DEF Covered
<1>. HIDE DEF A, B, C, rg2
<1>7. IsFiniteSet(C)
  BY <1>2, <1>4, FS_Subset
<1>8. Cardinality(A) = Cardinality(B) + Cardinality(C) - Cardinality(B \cap C)
  BY <1>3, <1>4, <1>7, FS_Union
<1>9. Cardinality(B \cap C) = 0
  BY <1>5, FS_EmptySet
<1>10. Cardinality(C) \in Nat
  BY <1>7, FS_CardinalityType
<1>11. n.footprint = Cardinality(C)
  BY <1>2, <1>3, <1>8, <1>9, <1>10
<1>. QED
  BY <1>6, <1>7, <1>11 DEF Counted, rg2

-----------------------------------------------------------------------------
(* Mapped chunks. *)

\* A heap without the chunks S.
Freed(n, m, S) == Sound(n) /\ Frame(n, m, S, {})

\* A mapped chunk is freed.
LEMMA FreeMmappedIs ==
    ASSUME NEW m, Sound(m), NEW p \in Used(m), ~m.chunks[p].c
    PROVE  Freed(FreeMmapped(m, p), m, {p})
<1>. DEFINE ch == m.chunks
            b == p - ch[p].foot
            e == After(ch, p) + MmapFootPad
            W == b..(e - 1)
            size == ChunkSize(m, p) + ch[p].foot + MmapFootPad
            n == Unmap(m, b, size)
<1>1. Whole(m) /\ Binned(m, {}) /\ Structure(ch, m.top, m.segs, m.regions) /\ IsState(m)
  BY DEF Sound, Whole
<1>2. /\ p \in Direct(ch) /\ HeaderAt(m, p) = ch[p] /\ ChunkSize(m, p) = ch[p].size
      /\ ch[p].size \in Nat /\ ch[p].foot \in Nat /\ p \in Nat
  BY ZenonT(60), <1>1, UsedIs DEF HeaderOk
<1>3. FreeMmapped(m, p) = IF CanUnmap(m, b, size) THEN n ELSE m
  BY <1>2 DEF FreeMmapped
<1>4. b + size = e
  BY <1>2 DEF After, MmapFootPad
<1>5. CanUnmap(m, b, size)
  <2>. DEFINE s == DirectSpace(ch, p)
              spaces == Spaces(ch, m.segs)
  <2>1. SpacesOk(spaces, m.regions)
    BY <1>1 DEF Structure
  <2>2. s \in spaces
    BY <1>2 DEF Spaces
  <2>3. s.base = b /\ s.end = e /\ s.end - s.base = size
    BY <1>2, <1>4 DEF DirectSpace, After, MmapFootPad
  <2>. HIDE DEF s, spaces, b, size
  <2>4. CanUnmap(m, s.base, s.end - s.base)
    BY <2>1, <2>2, CanUnmapSpace
  <2>. QED
    BY <2>3, <2>4
<1>6. Body(ch, m.top, m.segs, m.regions) /\ FirstHasTop(m.top, m.segs)
  BY <1>1, StructureIsBody
<1>. DEFINE ch2 == Restrict(ch, DOMAIN ch \ W)
            rg2 == Restrict(m.regions, DOMAIN m.regions \ W)
<1>6a. b = p - ch[p].foot /\ e = After(ch, p) + MmapFootPad /\ b + size = e /\ size \in Nat
  BY <1>2, <1>4 DEF MmapFootPad
<1>6b. W = Window(b, e) /\ ch2 = Restrict(ch, DOMAIN ch \ Window(b, e))
       /\ rg2 = Restrict(m.regions, DOMAIN m.regions \ Window(b, e))
  BY DEF Window
<1>. HIDE DEF b, e, size, ch2, rg2, W, n
<1>7. Dropped(ch, m.top, m.segs, m.regions, p, b, e, ch2, rg2)
  BY <1>2, <1>6, <1>6a, <1>6b, DropDirect
<1>7a. /\ Body(ch2, m.top, m.segs, rg2)
      /\ DOMAIN ch \cap W = {p, After(ch, p)}
      /\ DOMAIN ch2 = DOMAIN ch \ W
      /\ SameOutside(ch, ch2, W)
      /\ m.top \notin W /\ b \in Nat \ {0} /\ e \in Nat
  BY <1>7, <1>6b DEF Dropped
<1>8a. Unmapped(n, m, b, e)
  <2>1. n = Unmap(m, b, size)
    BY DEF n
  <2>. QED
    BY <1>1, <1>6a, <1>7a, <2>1, UnmapIs
<1>8. /\ IsState(n) /\ SameLists(n, m) /\ SameTop(n, m)
      /\ n.segs = m.segs /\ n.least_addr = m.least_addr /\ n.aborted = m.aborted
      /\ n.chunks = ch2 /\ n.regions = rg2
  BY <1>6b, <1>8a DEF Unmapped
<1>9. DOMAIN ch2 = DOMAIN ch \ W
  BY <1>7a
<1>10. \A q \in DOMAIN ch \cap W : q = p \/ ch[q].size = 0
  <2>1. ch[After(ch, p)].size = 0
    BY <1>6, <1>2 DEF Body, DirectOk
  <2>. QED
    BY <1>7a, <2>1
<1>11. Whole(n)
  <2>1. Structure(ch2, m.top, m.segs, rg2)
    BY <1>6, <1>7a, StructureIsBody
  <2>2. Low(n)
    BY <1>1, <1>8, <1>9 DEF Low, Whole
  <2>. QED
    BY <1>1, <1>8, <2>1, <2>2 DEF Whole, SameTop
<1>12. \A q \in DOMAIN ch \cap W : q \notin FreeAt(ch) /\ q \notin Ord(ch) /\ (q \in Direct(ch) => q = p)
  <2>1. ASSUME NEW q \in DOMAIN ch, q \in W PROVE q \notin FreeAt(ch) /\ q \notin Ord(ch) /\ (q \in Direct(ch) => q = p)
    <3>1. CASE q = p
      BY <1>1, <1>2, <3>1, ChunkTypes
    <3>2. CASE ch[q].size = 0
      BY <1>1, <2>1, <3>2, ChunkTypes DEF Ord, Direct
    <3>. QED
      BY <1>10, <2>1, <3>1, <3>2
  <2>. QED
    BY <2>1
<1>13. FreeAt(ch) \cap W = {} /\ FreeAt(ch2) \cap W = {}
  BY <1>9, <1>12 DEF FreeAt
<1>14. Used(m) \cap W = {p} /\ Used(n) \cap W = {}
  <2>1. p \in W
    BY <1>7a
  <2>2. ASSUME NEW q \in Used(m), q \in W PROVE q = p
    <3>1. q \in DOMAIN ch /\ (q \in Ord(ch) \/ q \in Direct(ch))
      BY <1>1, ChunkTypes DEF Used
    <3>. QED
      BY <1>12, <2>2, <3>1
  <2>3. ASSUME NEW q \in Used(n), q \in W PROVE FALSE
    <3>1. q \in DOMAIN ch2
      BY <1>8, <2>3 DEF Used, Ord, Direct
    <3>. QED
      BY <1>9, <2>3, <3>1
  <2>. QED
    BY <2>1, <2>2, <2>3
<1>15. n.topsize = IF n.top = NULL THEN 0 ELSE n.chunks[n.top].size
  <2>1. m.top # NULL => m.top \in DOMAIN ch /\ m.top \notin W
    BY <1>1, <1>7a, ChunkTypes DEF FreeAt
  <2>. QED
    BY <1>1, <1>7a, <1>8, <2>1 DEF Binned, SameTop, SameOutside
<1>15a. Counts(n, m)
  <2>1. RegionsApart(m.regions)
    BY <1>1, SpacesApart DEF Structure
  <2>2. n.regions = Restrict(m.regions, DOMAIN m.regions \ Window(b, e)) /\ n.footprint = m.footprint - (e - b)
    BY <1>8a DEF Unmapped
  <2>3. b \in Nat /\ size \in Nat /\ e = b + size /\ CanUnmap(m, b, size)
    BY <1>5, <1>6a, <1>7a
  <2>. QED
    BY ONLY <2>1, <2>2, <2>3, UnmapCounts
<1>16. Exchanged(m, n, {}, W, {p}, {})
  <2>1. m.dv \notin {}
    OBVIOUS
  <2>2. SameOutside(m.chunks, n.chunks, W) /\ FreeAt(m.chunks) \cap W = {} /\ FreeAt(n.chunks) \cap W = {}
    BY <1>7a, <1>8, <1>13
  <2>. QED
    BY <1>1, <1>8, <1>11, <1>14, <1>15, <1>15a, <2>2 DEF Exchanged, SameTop
<1>17. Sound(n) /\ Frame(n, m, {p}, {})
  BY <1>16, ExchangeSound
<1>18. Freed(n, m, {p})
  BY <1>17 DEF Freed
<1>. QED
  BY <1>3, <1>5, <1>18 DEF n, b, size

\* Every chunk is in some space.
LEMMA ChunkInSpace ==
    ASSUME NEW ch, NEW top, NEW segs, NEW rg, Body(ch, top, segs, rg), NEW q \in DOMAIN ch
    PROVE  \E t \in Spaces(ch, segs) : t.base <= q /\ q < t.end
<1>1. ASSUME NEW i \in 1..Len(segs), Holds(segs[i], q) PROVE \E t \in Spaces(ch, segs) : t.base <= q /\ q < t.end
  <2>1. SegmentSpace(segs[i]) \in Spaces(ch, segs)
    BY DEF Spaces
  <2>. QED
    BY <1>1, <2>1 DEF SegmentSpace, Holds
<1>2. ASSUME NEW p \in Direct(ch), q = p \/ q = After(ch, p)
      PROVE  \E t \in Spaces(ch, segs) : t.base <= q /\ q < t.end
  <2>. DEFINE t == DirectSpace(ch, p)
  <2>1. t \in Spaces(ch, segs)
    BY DEF Spaces
  <2>2. t.base = p - ch[p].foot /\ t.end = After(ch, p) + MmapFootPad
    BY DEF DirectSpace
  <2>3. p \in Nat /\ p < After(ch, p) /\ After(ch, p) \in Nat /\ p \in DOMAIN ch /\ ch[p].foot < p
    BY BodyTypes
  <2>4. ch[p].foot \in Nat
    BY <2>3, BodyTypes
  <2>. HIDE DEF t
  <2>5. t.base <= q /\ q < t.end
    BY <1>2, <2>2, <2>3, <2>4 DEF MmapFootPad
  <2>. QED
    BY <2>1, <2>5
<1>3. CASE q \in Ord(ch)
  BY <1>1, <1>3 DEF Body, Homes
<1>4. CASE q \in Direct(ch)
  BY <1>2, <1>4
<1>5. CASE ch[q].size = 0
  <2>1. ASSUME NEW i \in 1..Len(segs), segs[i].record # NULL, q = segs[i].record + SegmentSize
        PROVE  Holds(segs[i], q)
    BY <2>1 DEF Body, SegmentOk, Limit
  <2>. QED
    BY <1>1, <1>2, <1>5, <2>1 DEF Body, Homes
<1>6. q \in Ord(ch) \/ q \in Direct(ch) \/ ch[q].size = 0
  <2>1. ch[q].size \in Nat /\ ch[q].c \in BOOLEAN /\ ch[q].p \in BOOLEAN
    BY BodyTypes
  <2>. QED
    BY <2>1 DEF Ord, Direct
<1>. QED
  BY <1>3, <1>4, <1>5, <1>6

\* The mapped chunk p has the space from b up to e, and a fencepost at y.
Mapping(ch, top, segs, rg, ch2, rg2, b, p, y, e) ==
    /\ Body(ch, top, segs, rg)
    /\ b \in Nat \ {0} /\ p \in Nat /\ y \in Nat /\ b <= p /\ p < y /\ e = y + MmapFootPad
    /\ SameOutside(ch, ch2, Window(b, e)) /\ DOMAIN ch2 \cap Window(b, e) = {p, y}
    /\ HeaderOk(ch2[p]) /\ ch2[p].size = y - p /\ ch2[p].foot = p - b /\ ~ch2[p].c /\ ~ch2[p].p
    /\ HeaderOk(ch2[y]) /\ ch2[y].size = 0
    /\ \A t \in Spaces(ch, segs) : t.end <= b \/ e <= t.base
    /\ SpacesOk(Spaces(ch, segs) \cup {Space(b, e)}, rg2)

\* A mapped chunk may be added with its region.
LEMMA AddDirect ==
    ASSUME NEW ch, NEW top, NEW segs, NEW rg, NEW ch2, NEW rg2, NEW b, NEW p, NEW y, NEW e,
           Mapping(ch, top, segs, rg, ch2, rg2, b, p, y, e)
    PROVE  /\ Body(ch2, top, segs, rg2) /\ DOMAIN ch \cap Window(b, e) = {} /\ top \notin Window(b, e)
           /\ p \in Direct(ch2) /\ ch2[y].c /\ ch2[y].p
<1>. DEFINE W == Window(b, e)
            s == Space(b, e)
            T == {s}
<1>1. /\ Body(ch, top, segs, rg) /\ b \in Nat \ {0} /\ p \in Nat /\ y \in Nat /\ e \in Nat
      /\ b <= p /\ p < y /\ y < e /\ b < e /\ e = y + MmapFootPad
  BY DEF Mapping, MmapFootPad
<1>2. /\ SameOutside(ch, ch2, W) /\ DOMAIN ch2 \cap W = {p, y}
      /\ HeaderOk(ch2[p]) /\ ch2[p].size = y - p /\ ch2[p].foot = p - b /\ ~ch2[p].c /\ ~ch2[p].p
      /\ HeaderOk(ch2[y]) /\ ch2[y].size = 0
      /\ \A t \in Spaces(ch, segs) : t.end <= b \/ e <= t.base
      /\ SpacesOk(Spaces(ch, segs) \cup {s}, rg2)
  BY DEF Mapping
<1>3. \A q \in Nat : q \in W <=> b <= q /\ q < e
  BY <1>1 DEF Window
<1>4. W = b..(e - 1)
  BY DEF Window
<1>5. s.base = b /\ s.end = e
  BY DEF Space
<1>6. ch2[y].c /\ ch2[y].p /\ y \in DOMAIN ch2 /\ p \in DOMAIN ch2
  BY <1>2 DEF HeaderOk
<1>7. p \in Direct(ch2) /\ p \notin Ord(ch2) /\ y \notin Ord(ch2) /\ y \notin Direct(ch2)
  BY <1>2, <1>6 DEF Direct, Ord
<1>8. Ord(ch2) \cap W = {} /\ Direct(ch2) \cap W = {p}
  <2>1. \A q \in DOMAIN ch2 : q \in W => q = p \/ q = y
    BY <1>2
  <2>2. p \in W
    BY <1>2
  <2>3. \A q \in Ord(ch2) \cup Direct(ch2) : q \in DOMAIN ch2
    BY DEF Ord, Direct
  <2>. HIDE DEF W
  <2>. QED
    BY <1>7, <2>1, <2>2, <2>3
<1>9. After(ch2, p) = y
  BY <1>1, <1>2 DEF After
<1>. HIDE DEF W, s
<1>10. ASSUME NEW q \in DOMAIN ch PROVE q \notin W
  <2>1. PICK t \in Spaces(ch, segs) : t.base <= q /\ q < t.end
    BY <1>1, ChunkInSpace
  <2>2. t.end <= b \/ e <= t.base
    BY <1>2
  <2>3. t.base \in Nat /\ t.end \in Nat /\ q \in Nat
    BY SMTT(30), <1>1, SpaceFacts, BodyTypes DEF Body
  <2>. QED
    BY <1>1, <1>3, <2>1, <2>2, <2>3
<1>11. s \notin Spaces(ch, segs)
  BY <1>1, <1>2, <1>5
<1>12. ASSUME NEW i \in 1..Len(segs)
       PROVE  /\ SegmentSpace(segs[i]) # s
              /\ segs[i].base + segs[i].size <= b \/ e <= segs[i].base
  <2>1. SegmentSpace(segs[i]) \in Spaces(ch, segs)
    BY DEF Spaces
  <2>. QED
    BY <1>2, <1>11, <2>1 DEF SegmentSpace
<1>13. Outside(ch, top, ch2, b, e) /\ top \notin W
  BY ZenonT(60), <1>1, <1>2, <1>4, <1>12, ApartOutside
<1>14. InsideOk(ch2, top, b, e)
  <2>1. \A q \in DOMAIN ch2 \cap W : q \in Nat \ {0} /\ HeaderOk(ch2[q])
    BY <1>1, <1>2
  <2>. QED
    BY <1>4, <1>8, <2>1 DEF InsideOk
<1>15. TopSwap(ch2, top, top, b, e)
  BY <1>4, <1>13 DEF TopSwap
<1>16. DirectOk(ch2, p) /\ DirectSpace(ch2, p) = s
  <2>1. ch2[p].foot < p /\ p - ch2[p].foot = b
    BY <1>1, <1>2
  <2>2. \A q \in DOMAIN ch2 : b <= q /\ q < e => q = p \/ q = y
    <3>1. \A q \in DOMAIN ch2 : q \in W \/ q \in DOMAIN ch
      BY <1>2 DEF SameOutside
    <3>2. \A q \in DOMAIN ch : q \in Nat
      BY <1>1, BodyTypes
    <3>. QED
      BY <1>2, <1>3, <1>10, <3>1, <3>2
  <2>. QED
    BY <1>1, <1>2, <1>6, <1>9, <2>1, <2>2 DEF DirectOk, DirectSpace, Space, s
<1>17. Swapped(ch, top, segs, rg, ch2, top, segs, rg2, b, e, s, T)
  <2>1. segs \in Seq(SegmentType) /\ \A i, j \in 1..Len(segs) : segs[i].base = segs[j].base => i = j
    BY <1>1 DEF Body
  <2>2. ASSUME NEW q \in Direct(ch) PROVE DirectSpace(ch, q) # s
    <3>1. DirectSpace(ch, q) \in Spaces(ch, segs)
      BY DEF Spaces
    <3>. QED
      BY <1>11, <3>1
  <2>3. (Spaces(ch, segs) \ {s}) \cup T = Spaces(ch, segs) \cup {s}
    BY <1>11
  <2>4. \A q \in DOMAIN ch2 \cap W : ch2[q].size = 0 => \E d \in Direct(ch2) : q = After(ch2, d)
    BY <1>1, <1>2, <1>7, <1>9
  <2>5. \A q \in Direct(ch2) \cap W : DirectOk(ch2, q) /\ DirectSpace(ch2, q) \in T
    BY <1>8, <1>16
  <2>6. \A t \in T : \E q \in Direct(ch2) \cap W : t = DirectSpace(ch2, q)
    BY <1>8, <1>16
  <2>7. \A q \in Ord(ch2) \cap W : FALSE
    BY <1>8
  <2>8. \A t \in Spaces(ch, segs) \ {s} : t.end <= b \/ e <= t.base
    BY <1>2
  <2>9. SpacesOk((Spaces(ch, segs) \ {s}) \cup T, rg2)
    BY <1>2, <2>3
  <2>. HIDE DEF T
  <2>. QED
    BY <1>1, <1>4, <1>12, <1>13, <1>14, <1>15, <2>1, <2>2, <2>4, <2>5, <2>6, <2>7, <2>8, <2>9 DEF Swapped
<1>18. Body(ch2, top, segs, rg2)
  BY <1>17, SwapBody
<1>. QED
  BY <1>6, <1>7, <1>10, <1>13, <1>18 DEF W

\* No chunk is where no space is.
LEMMA NoChunks ==
    ASSUME NEW ch, NEW top, NEW segs, NEW rg, Body(ch, top, segs, rg), NEW b \in Nat, NEW e \in Nat,
           \A t \in Spaces(ch, segs) : t.end <= b \/ e <= t.base
    PROVE  DOMAIN ch \cap Window(b, e) = {}
<1>1. ASSUME NEW q \in DOMAIN ch, q \in Window(b, e) PROVE FALSE
  <2>1. PICK t \in Spaces(ch, segs) : t.base <= q /\ q < t.end
    BY ChunkInSpace
  <2>2. t.end <= b \/ e <= t.base
    OBVIOUS
  <2>3. t.base \in Nat /\ t.end \in Nat /\ q \in Nat
    BY SpaceFacts, BodyTypes DEF Body
  <2>4. b <= q /\ q < e
    BY <1>1, <2>3 DEF Window
  <2>. QED
    BY <2>1, <2>2, <2>3, <2>4
<1>. QED
  BY <1>1

\* A positive number of granules.
LEMMA ProductPositive ==
    ASSUME NEW x \in Nat \ {0}, NEW k \in Nat \ {0}
    PROVE  x * k \in Nat \ {0}
<1>1. x * k \in Nat
  OBVIOUS
<1>2. x * k # 0
  OBVIOUS
<1>. QED
  BY <1>1, <1>2

\* Where a region may be.
LEMMA PlacesAre ==
    ASSUME NEW m, NEW size, NEW a \in Places(m, size)
    PROVE  /\ a \in Nat \ {0}
           /\ \A r \in DOMAIN m.regions : a + size <= r \/ r + m.regions[r] <= a
<1>1. PICK k \in 1..(MemoryEnd \div Granularity) : a = Granularity * k
  BY DEF Places
<1>2. Granularity \in Nat \ {0} /\ k \in Nat \ {0}
  <2>1. Granularity \in Nat \ {0} /\ MemoryEnd \in Nat
    BY GranularityAssumption, SizeAssumption
  <2>2. MemoryEnd \div Granularity \in Nat
    BY <2>1, DivIs
  <2>. QED
    BY <2>1, <2>2
<1>3. a \in Nat \ {0}
  BY <1>1, <1>2, ProductPositive
<1>. QED
  BY <1>3 DEF Places

\* The lowest address seen.
Lowest(m, a) == IF m.least_addr = 0 \/ a < m.least_addr THEN a ELSE m.least_addr

\* A state that was given the region at a.
Given(n, m, a, size, least) ==
    /\ IsState(n) /\ SameLists(n, m) /\ SameTop(n, m)
    /\ n.segs = m.segs /\ n.aborted = m.aborted /\ n.chunks = m.chunks
    /\ n.regions = With(m.regions, a, size) /\ n.least_addr = least
    /\ n.trim_check = m.trim_check /\ n.release_checks = m.release_checks
    /\ n.footprint = m.footprint + size

\* The system gives a region.
LEMMA MapIs ==
    ASSUME NEW m, IsState(m), NEW a, NEW size
    PROVE  /\ Given(Map(m, a, size), m, a, size, m.least_addr)
           /\ Given(LeastAddr(Map(m, a, size), a), m, a, size, Lowest(m, a))
<1>. DEFINE n == Map(m, a, size)
            l == LeastAddr(n, a)
            rg == With(m.regions, a, size)
            fp == m.footprint + size
<1>1. n = [m EXCEPT !.regions = rg, !.footprint = fp]
  BY DEF Map
<1>2. l = [n EXCEPT !.least_addr = IF n.least_addr = 0 \/ a < n.least_addr THEN a ELSE n.least_addr]
  BY DEF LeastAddr
<1>. HIDE DEF n, l, rg, fp
<1>3. Given(n, m, a, size, m.least_addr)
  <2>1. /\ IsState(n) /\ SameLists(n, m) /\ SameTop(n, m)
        /\ n.segs = m.segs /\ n.aborted = m.aborted /\ n.chunks = m.chunks
        /\ n.regions = rg /\ n.least_addr = m.least_addr
        /\ n.trim_check = m.trim_check /\ n.release_checks = m.release_checks
        /\ n.footprint = fp
    BY <1>1 DEF IsState, Fields, SameLists, SameDv, SameTop
  <2>. QED
    BY <2>1 DEF Given, rg, fp
<1>4. Given(l, m, a, size, Lowest(m, a))
  <2>. DEFINE la == IF n.least_addr = 0 \/ a < n.least_addr THEN a ELSE n.least_addr
  <2>1. l = [n EXCEPT !.least_addr = la]
    BY <1>2
  <2>2. la = Lowest(m, a)
    BY <1>3 DEF Given, Lowest
  <2>. HIDE DEF la
  <2>3. /\ IsState(l) /\ SameLists(l, n) /\ SameTop(l, n)
        /\ l.segs = n.segs /\ l.aborted = n.aborted /\ l.chunks = n.chunks
        /\ l.regions = n.regions /\ l.least_addr = la
        /\ l.trim_check = n.trim_check /\ l.release_checks = n.release_checks
        /\ l.footprint = n.footprint
    BY <1>3, <2>1 DEF Given, IsState, Fields, SameLists, SameDv, SameTop
  <2>. QED
    BY <1>3, <2>2, <2>3 DEF Given, SameLists, SameDv, SameTop
<1>. QED
  BY <1>3, <1>4 DEF n, l

\* and it counts.
LEMMA GivenCounts ==
    ASSUME NEW m, Structure(m.chunks, m.top, m.segs, m.regions), NEW a \in Nat, NEW size \in Nat, size > 0,
           \A r \in DOMAIN m.regions : a + size <= r \/ r + m.regions[r] <= a,
           NEW n, NEW least, Given(n, m, a, size, least)
    PROVE  Counts(n, m)
<1>1. RegionsApart(m.regions)
  BY SpacesApart DEF Structure
<1>2. n.regions = With(m.regions, a, size) /\ n.footprint = m.footprint + size
  BY DEF Given
<1>. QED
  BY <1>1, <1>2, MapCounts

\* The lowest address stays that.
LEMMA LowestIs ==
    ASSUME NEW m, Low(m), NEW a \in Nat \ {0}
    PROVE  /\ Lowest(m, a) \in Nat \ {0} /\ Lowest(m, a) <= a
           /\ \A p \in DOMAIN m.chunks : p \in Nat => Lowest(m, a) <= p
BY DEF Low, Lowest

\* Two headers where nothing was.
LEMMA PlacedAlone ==
    ASSUME NEW ch, DOMAIN ch \subseteq Nat, NEW b \in Nat, NEW e \in Nat, DOMAIN ch \cap Window(b, e) = {},
           NEW a \in Nat, NEW y \in Nat, b <= a, a < y, y < e,
           NEW h, h.size = y - a, NEW g, g.size = 0, NEW ch2, ch2 = Placed(Placed(ch, a, h), y, g)
    PROVE  /\ SameOutside(ch, ch2, Window(b, e)) /\ DOMAIN ch2 \cap Window(b, e) = {a, y}
           /\ ch2[a] = h /\ ch2[y] = g
<1>. DEFINE W == Window(b, e)
            c == Placed(ch, a, h)
            In == (a + 1)..(a + h.size - 1)
            In2 == (y + 1)..(y + g.size - 1)
<1>1. \A q \in Nat : q \in W <=> b <= q /\ q < e
  BY DEF Window
<1>2. \A q \in Nat : q \in In => b <= q /\ q < e /\ q # y
  <2>1. a + h.size - 1 = y - 1
    OBVIOUS
  <2>. QED
    BY <2>1
<1>3. \A q \in Nat : q \notin In2
  <2>1. y + g.size - 1 = y - 1
    OBVIOUS
  <2>. QED
    BY <2>1
<1>4. /\ DOMAIN c = (DOMAIN ch \ In) \cup {a}
      /\ \A q \in DOMAIN c : c[q] = IF q = a THEN h ELSE ch[q]
  BY DEF Placed
<1>5. /\ DOMAIN ch2 = (DOMAIN c \ In2) \cup {y}
      /\ \A q \in DOMAIN ch2 : ch2[q] = IF q = y THEN g ELSE c[q]
  BY DEF Placed
<1>. HIDE DEF W, c, In, In2
<1>6. \A q \in DOMAIN ch : q \notin In
  BY <1>1, <1>2 DEF W
<1>7. DOMAIN c = DOMAIN ch \cup {a}
  BY <1>4, <1>6
<1>8. DOMAIN ch2 = DOMAIN ch \cup {a, y}
  <2>1. \A q \in DOMAIN c : q \in Nat
    BY <1>7
  <2>. QED
    BY <1>3, <1>5, <1>7, <2>1
<1>9. a \in W /\ y \in W
  BY <1>1
<1>10. \A q \in DOMAIN ch : q \notin W
  BY DEF W
<1>11. ch2[a] = h /\ ch2[y] = g
  BY <1>4, <1>5, <1>7, <1>8
<1>12. SameOutside(ch, ch2, W)
  <2>1. DOMAIN ch2 \ W = DOMAIN ch \ W
    BY <1>8, <1>9
  <2>2. \A q \in DOMAIN ch \ W : ch2[q] = ch[q]
    BY <1>4, <1>5, <1>7, <1>8, <1>9
  <2>. QED
    BY <2>1, <2>2 DEF SameOutside
<1>13. DOMAIN ch2 \cap W = {a, y}
  BY <1>8, <1>9, <1>10
<1>. QED
  BY <1>11, <1>12, <1>13 DEF W

\* A region for a chunk alone.
LEMMA MmapAllocIs ==
    ASSUME NEW m, Sound(m), m.use_mmap, NEW nb \in Nat, NEW o \in MmapAlloc(m, nb)
    PROVE  Took(o.m, m, o.p, nb)
<1>. DEFINE size == GranularityAlign(nb + 4)
            psize == size - MmapFootPad
            ch == m.chunks
            S == Spaces(ch, m.segs)
<1>1. Whole(m) /\ Binned(m, {}) /\ Structure(ch, m.top, m.segs, m.regions) /\ IsState(m) /\ Low(m) /\ ~m.aborted
  BY DEF Sound, Whole
<1>2. Body(ch, m.top, m.segs, m.regions) /\ FirstHasTop(m.top, m.segs)
  BY <1>1, StructureIsBody
<1>3. PICK a \in Places(m, size) :
        o = Outcome(Put(Put(LeastAddr(Map(m, a, size), a), a, Header(psize, FALSE, FALSE)), a + psize, Fence), a)
  BY DEF MmapAlloc
<1>4. size > nb
  BY <1>3 DEF MmapAlloc
<1>5. size \in Nat /\ size >= nb + 4
  <2>1. 4 <= Granularity
    BY GranularityAssumption
  <2>. QED
    BY <1>4, <2>1, GranularityAlignIs
<1>6. a \in Nat \ {0} /\ \A r \in DOMAIN m.regions : a + size <= r \/ r + m.regions[r] <= a
  BY <1>3, PlacesAre
<1>. DEFINE y == a + psize
            e == a + size
            h == Header(psize, FALSE, FALSE)
            k == LeastAddr(Map(m, a, size), a)
            n == Put(Put(k, a, h), y, Fence)
            ch2 == Placed(Placed(ch, a, h), y, Fence)
            rg2 == With(m.regions, a, size)
            s == Space(a, e)
            W == Window(a, e)
<1>7. o.m = n /\ o.p = a
  BY <1>3 DEF Outcome
<1>. HIDE DEF size
<1>8. /\ psize \in Nat /\ psize >= nb + 2 /\ y \in Nat /\ a < y /\ y < e /\ e \in Nat /\ a < e
      /\ e = y + MmapFootPad /\ y - a = psize /\ size \in Nat \ {0}
  BY <1>5, <1>6 DEF MmapFootPad
<1>9. /\ h.size = psize /\ ~h.c /\ ~h.p /\ h.foot = 0
      /\ HeaderOk(Fence) /\ Fence.size = 0
  BY DEF Header, Fence, HeaderOk
<1>10. HeaderOk(h)
  <2>1. psize # 0 /\ psize \in Nat
    BY <1>8
  <2>. HIDE DEF psize
  <2>. QED
    BY <2>1 DEF Header, HeaderOk
<1>. HIDE DEF psize, h, y, e
<1>11. SpacesOk(S \cup {s}, rg2) /\ \A t \in S : Separate(s, t)
  <2>1. SpacesOk(S, m.regions)
    BY <1>2 DEF Body
  <2>2. s = Space(a, a + size)
    BY DEF e
  <2>. HIDE DEF S, s
  <2>. QED
    BY <1>6, <1>8, <2>1, <2>2, AddSpace
<1>12. \A t \in S : t.end <= a \/ e <= t.base
  BY <1>11 DEF Separate, Space
<1>13. DOMAIN ch \cap W = {}
  BY <1>2, <1>6, <1>8, <1>12, NoChunks
<1>14. Given(k, m, a, size, Lowest(m, a))
  BY <1>1, MapIs
<1>15. Writes(n, k, ch2)
  <2>1. Writes(Put(k, a, h), k, Placed(ch, a, h))
    BY <1>14, PutIs DEF Given
  <2>. QED
    BY <2>1, WritesPut
<1>. HIDE DEF n, k, ch2
<1>16. /\ IsState(n) /\ SameLists(n, m) /\ SameTop(n, m) /\ n.segs = m.segs /\ n.aborted = m.aborted
       /\ n.chunks = ch2 /\ n.regions = rg2 /\ n.least_addr = Lowest(m, a)
  BY <1>14, <1>15 DEF Given, Writes, SameRest, SameBins, SameLists, SameDv, SameTop
<1>17. SameOutside(ch, ch2, W) /\ DOMAIN ch2 \cap W = {a, y} /\ ch2[a] = h /\ ch2[y] = Fence
  <2>1. DOMAIN ch \subseteq Nat
    BY <1>2, BodyTypes
  <2>2. ch2 = Placed(Placed(ch, a, h), y, Fence)
    BY DEF ch2
  <2>. HIDE DEF ch, W
  <2>3. DOMAIN ch \cap Window(a, e) = {} /\ h.size = y - a /\ a \in Nat /\ a <= a
        /\ e \in Nat /\ y \in Nat /\ a < y /\ y < e /\ Fence.size = 0
    BY <1>6, <1>8, <1>9, <1>13 DEF W
  <2>4. /\ SameOutside(ch, ch2, Window(a, e)) /\ DOMAIN ch2 \cap Window(a, e) = {a, y}
        /\ ch2[a] = h /\ ch2[y] = Fence
    BY ONLY SMTT(30), <2>1, <2>2, <2>3, PlacedAlone
  <2>. QED
    BY <2>4 DEF W
<1>18. Mapping(ch, m.top, m.segs, m.regions, ch2, rg2, a, a, y, e)
  <2>1. h.size = y - a /\ h.foot = a - a
    BY <1>6, <1>8, <1>9
  <2>2. SameOutside(ch, ch2, Window(a, e)) /\ DOMAIN ch2 \cap Window(a, e) = {a, y}
    BY <1>17
  <2>3. SpacesOk(Spaces(ch, m.segs) \cup {Space(a, e)}, rg2) /\ \A t \in Spaces(ch, m.segs) : t.end <= a \/ e <= t.base
    BY <1>11, <1>12
  <2>. HIDE DEF ch, rg2
  <2>. QED
    BY <1>2, <1>6, <1>8, <1>9, <1>10, <1>17, <2>1, <2>2, <2>3 DEF Mapping
<1>19. /\ Body(ch2, m.top, m.segs, rg2) /\ m.top \notin W
       /\ a \in Direct(ch2) /\ ch2[y].c /\ ch2[y].p
  BY <1>18, AddDirect
<1>20. Whole(n)
  <2>1. Structure(ch2, m.top, m.segs, rg2)
    BY <1>2, <1>19, StructureIsBody
  <2>2. Low(n)
    <3>1. \A q \in DOMAIN ch2 : q \in DOMAIN ch \/ q = a \/ q = y
      BY <1>17 DEF SameOutside
    <3>2. \A q \in DOMAIN ch : q \in Nat
      BY <1>2, BodyTypes
    <3>3. Lowest(m, a) \in Nat \ {0} /\ Lowest(m, a) <= a /\ \A q \in DOMAIN ch : q \in Nat => Lowest(m, a) <= q
      BY <1>1, <1>6, LowestIs
    <3>. HIDE DEF W
    <3>4. \A q \in DOMAIN ch2 : Lowest(m, a) <= q
      BY <1>6, <1>8, <3>1, <3>2, <3>3
    <3>. QED
      BY <1>16, <3>3, <3>4 DEF Low
  <2>. QED
    BY <1>1, <1>16, <2>1, <2>2 DEF Whole, SameTop
<1>21. \A q \in DOMAIN ch2 : q \in W => q = a \/ q = y
  BY <1>17
<1>. HIDE DEF W
<1>22. a \in W /\ y \in W /\ a \in DOMAIN ch2 /\ y \in DOMAIN ch2
  BY <1>17
<1>23. FreeAt(ch) \cap W = {} /\ FreeAt(ch2) \cap W = {}
  <2>1. a \notin FreeAt(ch2) /\ y \notin FreeAt(ch2)
    BY <1>9, <1>17, <1>19 DEF FreeAt
  <2>. QED
    BY <1>13, <1>21, <2>1 DEF FreeAt
<1>24. Used(m) \cap W = {} /\ Used(n) \cap W = {a}
  <2>1. \A q \in Used(m) : q \in DOMAIN ch
    BY DEF Used, Ord, Direct
  <2>2. a \notin Ord(ch2)
    BY <1>9, <1>17 DEF Ord
  <2>3. y \notin Ord(ch2) /\ y \notin Direct(ch2)
    BY <1>9, <1>17, <1>19 DEF Ord, Direct
  <2>4. \A i \in 1..Len(m.segs) : m.segs[i].record # NULL => m.segs[i].record \in Ord(ch2)
    BY <1>19 DEF Body, SegmentOk
  <2>5. a \notin SegmentRecords(m.segs)
    BY <2>2, <2>4 DEF SegmentRecords
  <2>6. a \in Used(n)
    BY <1>16, <1>19, <2>5 DEF Used
  <2>7. \A q \in Used(n) : q \in DOMAIN ch2 /\ q # y
    BY <1>16, <2>3 DEF Used, Ord, Direct
  <2>. QED
    BY <1>13, <1>21, <1>22, <2>1, <2>6, <2>7
<1>25. n.topsize = IF n.top = NULL THEN 0 ELSE n.chunks[n.top].size
  <2>1. m.top # NULL => m.top \in DOMAIN ch /\ m.top \notin W
    BY <1>2, <1>19, BodyTypes DEF FreeAt, W
  <2>. QED
    BY <1>1, <1>16, <1>17, <2>1 DEF Binned, SameTop, SameOutside, W
<1>25a. Counts(n, m)
  <2>1. Counts(k, m)
    BY <1>1, <1>6, <1>8, <1>14, GivenCounts
  <2>2. Counts(n, k)
    BY <1>15, CountsSame DEF Writes, SameRest
  <2>. QED
    BY <2>1, <2>2 DEF Counts
<1>26. Exchanged(m, n, {}, W, {}, {a})
  <2>2. SameOutside(m.chunks, n.chunks, W)
    BY <1>16, <1>17 DEF W
  <2>. QED
    BY <1>1, <1>16, <1>20, <1>23, <1>24, <1>25, <1>25a, <2>2 DEF Exchanged, SameTop
<1>27. Sound(n) /\ Frame(n, m, {}, {a})
  BY <1>26, ExchangeSound
<1>28. a \notin Used(m) /\ a # NULL
  BY <1>6, <1>22, <1>24 DEF NULL
<1>29. Fits(n, a, nb) /\ ~n.chunks[a].c
  <2>1. nb + 1 <= h.size
    BY <1>8, <1>9
  <2>. QED
    BY <1>9, <1>16, <1>17, <2>1 DEF Fits
<1>. QED
  BY <1>7, <1>27, <1>28, <1>29 DEF Took

-----------------------------------------------------------------------------
(* Moving mapped chunks, and the cut of aligned ones. *)

\* The chunk p has become q, which has room for nb.
Moved(n, m, p, q, nb) ==
    /\ Sound(n) /\ Frame(n, m, {p}, {q})
    /\ q \notin Used(m) \ {p} /\ q # NULL
    /\ Fits(n, q, nb) /\ Within(n, q, m, p)

\* A header that is moved up, from p to q.
Up(ch, b, e, p, y, q, h, ch2) ==
    /\ DOMAIN ch \subseteq Nat /\ b \in Nat /\ e \in Nat /\ p \in Nat /\ y \in Nat /\ q \in Nat
    /\ DOMAIN ch \cap Window(b, e) = {p, y}
    /\ b <= p /\ p < y /\ p < q /\ q < y /\ y < e
    /\ h.size = y - q
    /\ ch2 = Placed(Restrict(ch, DOMAIN ch \ {p}), q, h)

\* A header moved up, with the fencepost where it was.
LEMMA PlacedUp ==
    ASSUME NEW ch, NEW b, NEW e, NEW p, NEW y, NEW q, NEW h, NEW ch2, Up(ch, b, e, p, y, q, h, ch2)
    PROVE  /\ SameOutside(ch, ch2, Window(b, e)) /\ DOMAIN ch2 \cap Window(b, e) = {q, y}
           /\ ch2[q] = h /\ ch2[y] = ch[y]
<1>. USE DEF Up
<1>. DEFINE W == Window(b, e)
            c == Restrict(ch, DOMAIN ch \ {p})
            In == (q + 1)..(q + h.size - 1)
<1>1. \A z \in Nat : z \in W <=> b <= z /\ z < e
  BY DEF Window
<1>2. \A z \in Nat : z \in In => b <= z /\ z < e /\ z # y /\ z # p
  <2>1. q + h.size - 1 = y - 1
    OBVIOUS
  <2>. QED
    BY <2>1
<1>3. DOMAIN c = DOMAIN ch \ {p} /\ \A z \in DOMAIN c : c[z] = ch[z]
  BY DEF Restrict
<1>4. /\ DOMAIN ch2 = (DOMAIN c \ In) \cup {q}
      /\ \A z \in DOMAIN ch2 : ch2[z] = IF z = q THEN h ELSE c[z]
  BY DEF Placed
<1>. HIDE DEF W, c, In
<1>5. \A z \in DOMAIN ch : z \in W <=> z = p \/ z = y
  BY DEF W
<1>6. \A z \in DOMAIN ch \ {p} : z \notin In
  BY <1>1, <1>2, <1>5
<1>7. DOMAIN ch2 = (DOMAIN ch \ {p}) \cup {q}
  BY <1>3, <1>4, <1>6
<1>8. q \in W /\ y \in W /\ p \in W /\ y \in DOMAIN ch /\ y # p
  <2>1. y \in DOMAIN ch
    BY DEF W
  <2>. QED
    BY <1>1, <2>1
<1>9. ch2[q] = h /\ ch2[y] = ch[y]
  BY <1>3, <1>4, <1>7, <1>8
<1>10. SameOutside(ch, ch2, W)
  <2>1. DOMAIN ch2 \ W = DOMAIN ch \ W
    BY <1>7, <1>8
  <2>2. \A z \in DOMAIN ch \ W : ch2[z] = ch[z]
    BY <1>3, <1>4, <1>7, <1>8
  <2>. QED
    BY <2>1, <2>2 DEF SameOutside
<1>11. DOMAIN ch2 \cap W = {q, y}
  <2>1. \A z \in DOMAIN ch2 : z \in W => z = q \/ z = y
    BY <1>5, <1>7
  <2>2. q \in DOMAIN ch2 /\ y \in DOMAIN ch2
    BY <1>7, <1>8
  <2>. QED
    BY <1>8, <2>1, <2>2
<1>. QED
  BY <1>9, <1>10, <1>11 DEF W

\* Headers forgotten.
LEMMA ForgetIs ==
    ASSUME NEW m, IsState(m), NEW A
    PROVE  Writes(Forget(m, A), m, Restrict(m.chunks, DOMAIN m.chunks \ A))
<1>. DEFINE ch == Restrict(m.chunks, DOMAIN m.chunks \ A)
            n == Forget(m, A)
<1>1. n = [m EXCEPT !.chunks = ch]
  BY DEF Forget
<1>. HIDE DEF n, ch
<1>2. Writes(n, m, ch)
  BY <1>1 DEF Writes, SameRest, SameBins, SameTop, IsState, Fields
<1>. QED
  BY <1>2 DEF n, ch

\* A mapped chunk moves within its region.
LEMMA MoveMappedIs ==
    ASSUME NEW m, Sound(m), NEW p \in Used(m), ~m.chunks[p].c, NEW lead \in Nat, NEW nb \in Nat,
           lead > 0, nb + lead < m.chunks[p].size,
           NEW n, n = Put(Forget(m, {p}), p + lead,
                          [HeaderAt(m, p) EXCEPT !.size = ChunkSize(m, p) - lead, !.foot = @ + lead])
    PROVE  Moved(n, m, p, p + lead, nb) /\ ~n.chunks[p + lead].c /\ ~n.chunks[p + lead].p
<1>. DEFINE ch == m.chunks
            b == p - ch[p].foot
            y == After(ch, p)
            e == y + MmapFootPad
            q == p + lead
            W == Window(b, e)
            h == [ch[p] EXCEPT !.size = ch[p].size - lead, !.foot = ch[p].foot + lead]
            ch0 == Restrict(ch, DOMAIN ch \ Window(b, e))
            rg0 == Restrict(m.regions, DOMAIN m.regions \ Window(b, e))
            ch2 == Placed(Restrict(ch, DOMAIN ch \ {p}), q, h)
            top == m.top
            segs == m.segs
            rg == m.regions
<1>1. Whole(m) /\ Binned(m, {}) /\ Structure(ch, m.top, m.segs, m.regions) /\ IsState(m) /\ Low(m) /\ ~m.aborted
  BY DEF Sound, Whole
<1>2. Body(ch, top, segs, rg) /\ FirstHasTop(top, segs)
  BY <1>1, StructureIsBody
<1>3. /\ p \in Direct(ch) /\ HeaderAt(m, p) = ch[p] /\ ChunkSize(m, p) = ch[p].size
      /\ ch[p].size \in Nat /\ ch[p].foot \in Nat /\ p \in Nat \ {0} /\ ~ch[p].c /\ ~ch[p].p /\ HeaderOk(ch[p])
  BY ZenonT(60), <1>1, UsedIs DEF HeaderOk, Direct
<1>4. /\ h.size = y - q /\ h.foot = q - b /\ ~h.c /\ ~h.p /\ HeaderOk(h) /\ h.size > nb
      /\ q \in Nat \ {0} /\ y \in Nat /\ e \in Nat /\ p < q /\ q < y /\ y < e /\ p < y /\ q \in Nat
  <2>1. ch[p].size - lead \in Nat /\ ch[p].size - lead > nb /\ ch[p].foot + lead \in Nat /\ ch[p].size - lead # 0
    BY <1>3
  <2>2. /\ h.size = ch[p].size - lead /\ h.foot = ch[p].foot + lead /\ h.c = ch[p].c /\ h.p = ch[p].p
        /\ h = [f \in {"size", "c", "p", "foot"} |-> h[f]]
    BY <1>3 DEF HeaderOk
  <2>. HIDE DEF h
  <2>3. HeaderOk(h) /\ ~h.c /\ ~h.p
    BY <1>3, <2>1, <2>2 DEF HeaderOk
  <2>. QED
    BY <1>3, <2>1, <2>2, <2>3 DEF After, MmapFootPad
<1>5. Writes(n, m, ch2)
  <2>1. Writes(Forget(m, {p}), m, Restrict(ch, DOMAIN ch \ {p}))
    BY <1>1, ForgetIs
  <2>2. n = Put(Forget(m, {p}), q, h)
    BY <1>3
  <2>. QED
    BY <2>1, <2>2, WritesPut
<1>. HIDE DEF h, ch2, rg0, ch0
<1>6. Dropped(ch, top, segs, rg, p, b, e, ch0, rg0)
  <2>1. b = p - ch[p].foot /\ e = After(ch, p) + MmapFootPad
    OBVIOUS
  <2>2. ch0 = Restrict(ch, DOMAIN ch \ Window(b, e)) /\ rg0 = Restrict(rg, DOMAIN rg \ Window(b, e))
    BY DEF ch0, rg0
  <2>. HIDE DEF b, e, ch, rg
  <2>. QED
    BY <1>2, <1>3, <2>1, <2>2, DropDirect
<1>7. /\ Body(ch0, top, segs, rg0)
      /\ DOMAIN ch \cap W = {p, y}
      /\ DOMAIN ch0 = DOMAIN ch \ W
      /\ SameOutside(ch, ch0, W)
      /\ top \notin W /\ b \in Nat \ {0} /\ e \in Nat
      /\ Spaces(ch, segs) = Spaces(ch0, segs) \cup {Space(b, e)}
      /\ \A t \in Spaces(ch0, segs) : t.end <= b \/ e <= t.base
  BY <1>6 DEF Dropped
<1>8. b <= p
  BY <1>3
<1>9. ch[y].size = 0 /\ HeaderOk(ch[y]) /\ y \in DOMAIN ch
  BY <1>2, <1>3, BodyTypes DEF Body, DirectOk
<1>10. DOMAIN ch \subseteq Nat
  BY <1>2, BodyTypes
<1>11. SameOutside(ch, ch2, W) /\ DOMAIN ch2 \cap W = {q, y} /\ ch2[q] = h /\ ch2[y] = ch[y]
  <2>1. ch2 = Placed(Restrict(ch, DOMAIN ch \ {p}), q, h)
    BY DEF ch2
  <2>2. /\ DOMAIN ch \cap Window(b, e) = {p, y} /\ b \in Nat /\ p \in Nat
        /\ h.size = y - q /\ q \in Nat /\ y \in Nat /\ e \in Nat /\ p < q /\ q < y /\ y < e /\ p < y
    BY <1>3, <1>4, <1>7
  <2>. HIDE DEF b, e, y, q, ch
  <2>4. Up(ch, b, e, p, y, q, h, ch2)
    BY <1>8, <1>10, <2>1, <2>2 DEF Up
  <2>3. SameOutside(ch, ch2, Window(b, e)) /\ DOMAIN ch2 \cap Window(b, e) = {q, y} /\ ch2[q] = h /\ ch2[y] = ch[y]
    BY <2>4, PlacedUp
  <2>. QED
    BY <2>3
<1>. HIDE DEF b, e, y, q
<1>12. Mapping(ch0, top, segs, rg0, ch2, rg, b, q, y, e)
  <2>1. SameOutside(ch0, ch2, Window(b, e)) /\ DOMAIN ch2 \cap Window(b, e) = {q, y}
    BY <1>7, <1>11 DEF SameOutside
  <2>2. SpacesOk(Spaces(ch0, segs) \cup {Space(b, e)}, rg)
    BY <1>2, <1>7 DEF Body
  <2>3. b <= q /\ e = y + MmapFootPad
    BY <1>3, <1>4, <1>7, <1>8 DEF e
  <2>. HIDE DEF W, ch, rg, top, segs
  <2>. QED
    BY <1>4, <1>7, <1>9, <1>11, <2>1, <2>2, <2>3 DEF Mapping
<1>13. /\ Body(ch2, top, segs, rg) /\ q \in Direct(ch2) /\ ch2[y].c /\ ch2[y].p
  BY <1>12, AddDirect
<1>. HIDE DEF W
<1>14. /\ IsState(n) /\ SameLists(n, m) /\ SameTop(n, m) /\ n.segs = segs /\ n.aborted = m.aborted
       /\ n.chunks = ch2 /\ n.regions = rg /\ n.least_addr = m.least_addr
  BY <1>5 DEF Writes, SameRest, SameBins, SameLists, SameDv
<1>15. \A z \in DOMAIN ch : z \in W => z = p \/ z = y
  BY <1>7
<1>16. \A z \in DOMAIN ch2 : z \in W => z = q \/ z = y
  BY <1>11
<1>17. /\ q \in W /\ y \in W /\ p \in W /\ q \in DOMAIN ch2 /\ y \in DOMAIN ch2
  BY <1>7, <1>11
<1>18. Whole(n)
  <2>1. Structure(ch2, top, segs, rg)
    BY <1>2, <1>13, StructureIsBody
  <2>2. Low(n)
    <3>1. \A z \in DOMAIN ch2 : z \in DOMAIN ch \/ z = q
      BY <1>9, <1>11, <1>16 DEF SameOutside
    <3>2. m.least_addr \in Nat /\ m.least_addr <= p /\ m.least_addr # 0 /\ p \in Nat
          /\ \A z \in DOMAIN ch : m.least_addr <= z
      BY <1>1, <1>3 DEF Low, Direct
    <3>3. m.least_addr <= q
      BY <1>4, <3>2
    <3>. QED
      BY <1>14, <3>1, <3>2, <3>3 DEF Low
  <2>. QED
    BY <1>1, <1>14, <2>1, <2>2 DEF Whole, SameTop
<1>19. FreeAt(ch) \cap W = {} /\ FreeAt(ch2) \cap W = {}
  <2>1. p \notin FreeAt(ch) /\ q \notin FreeAt(ch2)
    BY <1>3, <1>13 DEF FreeAt, Direct
  <2>2. y \notin FreeAt(ch2) /\ y \notin FreeAt(ch)
    BY <1>11, <1>13 DEF FreeAt
  <2>. QED
    BY <1>15, <1>16, <2>1, <2>2 DEF FreeAt
<1>20. Used(m) \cap W = {p} /\ Used(n) \cap W = {q}
  <2>1. \A z \in Used(m) : z \in DOMAIN ch /\ z # y
    BY <1>9, <1>11, <1>13 DEF Used, Ord, Direct
  <2>2. q \notin Ord(ch2)
    BY <1>13 DEF Ord, Direct
  <2>3. y \notin Ord(ch2) /\ y \notin Direct(ch2)
    BY SMTT(30), <1>9, <1>11, <1>13 DEF Ord, Direct
  <2>4. \A i \in 1..Len(segs) : segs[i].record # NULL => segs[i].record \in Ord(ch2)
    BY <1>13 DEF Body, SegmentOk
  <2>5. q \notin SegmentRecords(segs)
    BY <2>2, <2>4 DEF SegmentRecords
  <2>6. q \in Used(n)
    BY SMTT(30), <1>13, <1>14, <2>5 DEF Used
  <2>7. \A z \in Used(n) : z \in DOMAIN ch2 /\ z # y
    BY <1>14, <2>3 DEF Used, Ord, Direct
  <2>. HIDE DEF ch, segs
  <2>. QED
    BY <1>15, <1>16, <1>17, <2>1, <2>6, <2>7
<1>21. n.topsize = IF n.top = NULL THEN 0 ELSE n.chunks[n.top].size
  <2>1. top # NULL => top \in DOMAIN ch /\ top \notin W
    BY <1>2, <1>7, BodyTypes DEF FreeAt
  <2>. QED
    BY <1>1, <1>11, <1>14, <2>1 DEF Binned, SameTop, SameOutside
<1>21a. Counts(n, m)
  BY <1>5, CountsSame DEF Writes, SameRest
<1>22. Exchanged(m, n, {}, W, {p}, {q})
  <2>1. SameOutside(m.chunks, n.chunks, W)
    BY <1>11, <1>14
  <2>. QED
    BY <1>1, <1>14, <1>18, <1>19, <1>20, <1>21, <1>21a, <2>1 DEF Exchanged, SameTop
<1>23. Sound(n) /\ Frame(n, m, {p}, {q})
  BY <1>22, ExchangeSound
<1>24. q \notin Used(m) \ {p} /\ q # NULL
  BY <1>4, <1>17, <1>20 DEF NULL
<1>25. Fits(n, q, nb) /\ ~n.chunks[q].c /\ ~n.chunks[q].p
  <2>1. nb + 1 <= h.size /\ ~h.c
    BY <1>4
  <2>. QED
    BY <1>4, <1>11, <1>14, <2>1 DEF Fits
<1>26. Moved(n, m, p, q, nb) /\ ~n.chunks[q].c /\ ~n.chunks[q].p
  <2>1. Within(n, q, m, p)
    BY <1>3, <1>4, <1>11, <1>14 DEF Within, After, q, y
  <2>. QED
    BY <1>23, <1>24, <1>25, <2>1 DEF Moved
<1>. QED
  BY <1>26 DEF q

\* The header in the middle is written again.
LEMMA TripleMiddle ==
    ASSUME NEW ch, NEW x, NEW y, NEW z \in Nat, Ends(ch, x, y), x < z, z < y, y \in DOMAIN ch,
           NEW hx, NEW hz, NEW g, g.size = y - z, NEW h
    PROVE  /\ Placed(Triple(ch, x, z, y, hx, hz, h), z, g) = Triple(ch, x, z, y, hx, g, h)
           /\ At(Triple(ch, x, z, y, hx, hz, h), z) = hz
<1>1. x \in DOMAIN ch /\ x \in Nat /\ y \in Nat /\ x < y /\ DOMAIN ch \subseteq Nat
  BY DEF Ends
<1>. DEFINE c1 == Triple(ch, x, z, y, hx, hz, h)
            In == (x + 1)..(y - 1)
            In2 == (z + 1)..(z + g.size - 1)
<1>2. /\ DOMAIN c1 = (DOMAIN ch \ In) \cup {x, z}
      /\ \A q \in DOMAIN c1 : c1[q] = IF q = x THEN hx ELSE IF q = z THEN hz ELSE IF q = y THEN h ELSE ch[q]
  BY DEF Triple
<1>3. \A q \in Nat : (q \in In <=> x < q /\ q < y) /\ (q \in In2 <=> z < q /\ q < y)
  <2>1. z + g.size - 1 = y - 1
    BY <1>1
  <2>. QED
    BY <1>1, <2>1
<1>. HIDE DEF c1, In, In2
<1>4. (DOMAIN c1 \ In2) \cup {z} = (DOMAIN ch \ In) \cup {x, z}
  <2>1. \A q \in DOMAIN ch : q \in In2 => q \in In
    BY <1>1, <1>3
  <2>2. x \notin In2
    BY <1>1, <1>3
  <2>. QED
    BY <1>2, <2>1, <2>2
<1>5. Placed(c1, z, g) = Triple(ch, x, z, y, hx, g, h)
  <2>1. Placed(c1, z, g) = [q \in (DOMAIN c1 \ In2) \cup {z} |-> IF q = z THEN g ELSE c1[q]]
    BY DEF Placed, In2
  <2>2. Triple(ch, x, z, y, hx, g, h) = [q \in (DOMAIN ch \ In) \cup {x, z} |->
           IF q = x THEN hx ELSE IF q = z THEN g ELSE IF q = y THEN h ELSE ch[q]]
    BY DEF Triple, In
  <2>3. \A q \in (DOMAIN ch \ In) \cup {x, z} :
          (IF q = z THEN g ELSE c1[q]) = IF q = x THEN hx ELSE IF q = z THEN g ELSE IF q = y THEN h ELSE ch[q]
    BY <1>1, <1>2
  <2>. QED
    BY <1>4, <2>1, <2>2, <2>3
<1>6. At(c1, z) = hz
  BY <1>1, <1>2 DEF At
<1>. QED
  BY <1>5, <1>6 DEF c1

\* A header in the middle that is told of the chunk before only later.
LEMMA LateHeadIs ==
    ASSUME NEW s, s \in Nat, s > 0,
           NEW g, g = [NoHeader EXCEPT !.size = s, !.c = TRUE],
           NEW a, a = [g EXCEPT !.p = TRUE, !.foot = 0]
    PROVE  Headed(a, s, TRUE, TRUE, 0) /\ g.size = s
<1>1. NoHeader = [f \in {"size", "c", "p", "foot"} |-> NoHeader[f]] /\ NoHeader.size = 0
  BY DEF NoHeader, Header
<1>2. ASSUME NEW b, b = TRUE, g = [NoHeader EXCEPT !.size = s, !.c = b], a = [g EXCEPT !.p = b, !.foot = 0]
      PROVE  Headed(a, s, TRUE, TRUE, 0) /\ g.size = s
  <2>1. g = [f \in {"size", "c", "p", "foot"} |-> g[f]] /\ g.size = s /\ g.c = b
    BY ONLY <1>1, <1>2
  <2>2. a = [f \in {"size", "c", "p", "foot"} |-> a[f]] /\ a.size = s /\ a.p = b /\ a.c = b /\ a.foot = 0
    BY ONLY <2>1, <1>2
  <2>3. a.p /\ a.p \in BOOLEAN /\ a.c /\ a.c \in BOOLEAN
    BY ONLY <1>2, <2>2
  <2>4. HeaderOk(a)
    BY ONLY <2>2, <2>3, s \in Nat, s > 0 DEF HeaderOk
  <2>5. Headed(a, s, TRUE, TRUE, 0)
    BY ONLY <2>2, <2>3, <2>4 DEF Headed
  <2>. QED
    BY <2>1, <2>5
<1>. QED
  BY <1>2, Zenon

\* As CutIs, the second part first.
LEMMA CutBackIs ==
    ASSUME NEW m, IsState(m), NEW x, NEW y, NEW z, Inside(m.chunks, x, z, y), y \in DOMAIN m.chunks
    PROVE  LET n == SetInuse(SetInuse(m, z, y - z), x, z - x)
           IN Wrote(n, m) /\ Two(m.chunks, n.chunks, x, z, y, TRUE)
<1>. DEFINE ch == m.chunks
            hx == [ch[x] EXCEPT !.size = z - x, !.c = TRUE]
            g == [NoHeader EXCEPT !.size = y - z, !.c = TRUE]
            hz == [g EXCEPT !.p = TRUE, !.foot = 0]
            hy == [ch[y] EXCEPT !.p = TRUE, !.foot = 0]
            o == Put(Put(m, z, g), y, hy)
            o2 == Put(o, x, hx)
            n == SetInuse(SetInuse(m, z, y - z), x, z - x)
<1>1. /\ x + (z - x) = z /\ z + (y - z) = y /\ z - x \in Nat /\ z - x > 0 /\ y - z \in Nat /\ y - z > 0
      /\ x \in Nat /\ y \in Nat /\ z \in Nat /\ x < z /\ z < y /\ z \notin DOMAIN ch /\ x \in DOMAIN ch /\ Ends(ch, x, y)
      /\ y \in DOMAIN ch
  BY InsideSizes, InsideOf
<1>2. HeaderOk(ch[x]) /\ HeaderOk(ch[y]) /\ Writes(m, m, ch) /\ HeaderAt(m, z) = NoHeader
  BY SMTT(30), <1>1, InsideOf, WritesNothing DEF HeaderAt, NoHeader
<1>3. Headed(hx, z - x, TRUE, ch[x].p, ch[x].foot)
  BY <1>1, <1>2, InuseHead
<1>4. Headed(hz, y - z, TRUE, TRUE, 0) /\ g.size = y - z
  <2>. DEFINE s == y - z
  <2>1. s \in Nat /\ s > 0 /\ g = [NoHeader EXCEPT !.size = s, !.c = TRUE] /\ hz = [g EXCEPT !.p = TRUE, !.foot = 0]
    BY <1>1
  <2>. HIDE DEF s, g, hz
  <2>2. Headed(hz, s, TRUE, TRUE, 0) /\ g.size = s
    BY ONLY <2>1, LateHeadIs, ZenonT(60)
  <2>. QED
    BY <2>2 DEF s
<1>5. Headed(hy, ch[y].size, ch[y].c, TRUE, 0)
  BY <1>1, <1>2, InuseHead
<1>6. hx.size = z - x /\ hz.size = y - z /\ hy.size = ch[y].size
  BY <1>3, <1>4, <1>5 DEF Headed
<1>7. SetInuse(m, z, y - z) = MarkPinuse(Put(m, z, g), y)
  BY <1>1, <1>2 DEF SetInuse
<1>. HIDE DEF g
<1>8. SetInuse(m, z, y - z) = o
  <2>1. HeaderAt(Put(m, z, g), y) = ch[y]
    <3>. HIDE DEF hx
    <3>. QED
      BY <1>4, <1>6, VictimPuts
  <2>. QED
    BY <1>7, <2>1 DEF MarkPinuse
<1>. HIDE DEF hy
<1>9. HeaderAt(o, x) = ch[x]
  <2>. DEFINE c1 == Placed(ch, z, g)
              c2 == Placed(c1, y, hy)
  <2>1. Writes(Put(m, z, g), m, c1)
    BY <1>2, WritesPut
  <2>2. Writes(o, m, c2)
    BY <2>1, WritesPut
  <2>3. x \in DOMAIN c1 /\ c1[x] = ch[x]
    <3>1. x \notin (z + 1)..(z + g.size - 1) /\ x # z
      BY <1>1, <1>4
    <3>. QED
      BY <1>1, <3>1 DEF Placed
  <2>4. x \in DOMAIN c2 /\ c2[x] = c1[x]
    <3>1. x \notin (y + 1)..(y + hy.size - 1) /\ x # y
      BY <1>1, <1>2, <1>6 DEF HeaderOk
    <3>. HIDE DEF c1
    <3>. QED
      BY <2>3, <3>1 DEF Placed
  <2>. QED
    BY <2>2, <2>3, <2>4, WritesPut DEF At
<1>10. Writes(o2, m, Triple(ch, x, z, y, hx, g, hy))
  <2>. HIDE DEF hx
  <2>. QED
    BY <1>4, <1>6, VictimPuts
<1>11. n = MarkPinuse(o2, z)
  <2>1. n = SetInuse(o, x, z - x)
    BY <1>8
  <2>. HIDE DEF o, n
  <2>. QED
    BY <1>1, <1>9, <2>1 DEF SetInuse
<1>. HIDE DEF o, o2, hx, n
<1>12. n = Put(o2, z, hz)
  <2>1. At(Triple(ch, x, z, y, hx, g, hy), z) = g
    BY <1>1, <1>4, TripleMiddle
  <2>2. HeaderAt(o2, z) = g
    BY <1>10, <2>1, WritesPut
  <2>. QED
    BY <1>11, <2>2 DEF MarkPinuse
<1>. HIDE DEF hz
<1>13. Writes(n, m, Triple(ch, x, z, y, hx, hz, hy))
  <2>1. Placed(Triple(ch, x, z, y, hx, g, hy), z, hz) = Triple(ch, x, z, y, hx, hz, hy)
    <3>1. z \in Nat /\ Ends(ch, x, y) /\ x < z /\ z < y /\ y \in DOMAIN ch /\ hz.size = y - z
      BY <1>1, <1>6
    <3>. HIDE DEF ch
    <3>. QED
      BY ONLY <3>1, TripleMiddle
  <2>. QED
    BY <1>10, <1>12, <2>1, WritesPut
<1>14. Wrote(n, m) /\ Two(m.chunks, n.chunks, x, z, y, TRUE)
  BY <1>3, <1>4, <1>5, <1>13, TripleIsTwo
<1>. QED
  BY <1>14 DEF n

\* A held chunk is cut.
LEMMA CutUsedIs ==
    ASSUME NEW m, Sound(m), NEW p \in Used(m), m.chunks[p].c, NEW nb \in Nat, nb > 0,
           NEW size, size = m.chunks[p].size, nb < size
    PROVE  Resized(CutTo(m, p, size, nb), m, p, nb) /\ CutTo(m, p, size, nb).chunks[p].size = nb
<1>. DEFINE ch == m.chunks
            y == After(ch, p)
            z == p + nb
            n == CutTo(m, p, size, nb)
<1>1. Whole(m) /\ Binned(m, {}) /\ Structure(ch, m.top, m.segs, m.regions)
  BY DEF Sound, Whole
<1>2. /\ p \in Nat /\ p # NULL /\ size \in Nat \ {0} /\ p \notin FreeAt(ch) /\ p # m.top
  BY <1>1, UsedIs
<1>3. /\ Block(ch, m.segs, p, y, {p}) /\ y \in DOMAIN ch /\ y \in Nat /\ y = p + size
  BY <1>1, BehindUsed
<1>. HIDE DEF y
<1>4. z \in Nat /\ p < z /\ z < y /\ z - p = nb /\ y - p = size
  BY <1>2, <1>3
<1>. HIDE DEF z
<1>5. Inside(ch, p, z, y)
  BY <1>1, <1>3, <1>4, BlockInside
<1>6. p # m.dv
  BY <1>1, <1>2 DEF Binned
<1>7. ToCut(m, {}, p, z, y, {p})
  BY <1>1, <1>2, <1>3, <1>5, <1>6 DEF ToCut, Cleared
<1>8. n = CutTo(m, p, y - p, z - p)
  BY <1>4
<1>. HIDE DEF n
<1>9. Sound(n) /\ Frame(n, m, {p}, {p}) /\ n.chunks[p].size = z - p /\ n.chunks[p].c
  BY <1>7, <1>8, CutToIs
<1>10. Resized(n, m, p, nb)
  BY <1>4, <1>9 DEF Resized, Fits
<1>. QED
  BY <1>4, <1>9, <1>10 DEF n

\* The leader of a chunk is given back.
LeaderGone(n, m, p, q, size) ==
    /\ Sound(n) /\ Frame(n, m, {p}, {q}) /\ q \notin Used(m)
    /\ n.chunks[q].c /\ n.chunks[q].size = size

\* The leading part of an aligned chunk is disposed of.
LEMMA DropLeaderIs ==
    ASSUME NEW m, Sound(m), NEW p \in Used(m), m.chunks[p].c, NEW lead \in Nat, lead > 0,
           NEW size, size = m.chunks[p].size - lead, size > 0,
           NEW n, n = DisposeChunk(SetInuse(SetInuse(m, p + lead, size), p, lead), p)
    PROVE  LeaderGone(n, m, p, p + lead, size)
<1>. DEFINE ch == m.chunks
            y == After(ch, p)
            z == p + lead
            o == SetInuse(SetInuse(m, z, size), p, lead)
<1>1. Whole(m) /\ Binned(m, {}) /\ Structure(ch, m.top, m.segs, m.regions) /\ IsState(m)
  BY DEF Sound, Whole
<1>2. /\ p \in Nat /\ p # NULL /\ ch[p].size \in Nat \ {0} /\ p \notin FreeAt(ch) /\ p # m.top
  BY <1>1, UsedIs
<1>3. /\ Block(ch, m.segs, p, y, {p}) /\ y \in DOMAIN ch /\ y \in Nat /\ y = p + ch[p].size
  BY <1>1, BehindUsed
<1>. HIDE DEF y
<1>4. z \in Nat /\ p < z /\ z < y /\ z - p = lead /\ y - z = size
  BY <1>2, <1>3
<1>5. n = DisposeChunk(o, p)
  OBVIOUS
<1>. HIDE DEF z
<1>6. Inside(ch, p, z, y) /\ z \notin DOMAIN ch
  BY <1>1, <1>3, <1>4, BlockInside
<1>7. p # m.dv
  BY <1>1, <1>2 DEF Binned
<1>8. o = SetInuse(SetInuse(m, z, y - z), p, z - p)
  BY <1>4
<1>. HIDE DEF o
<1>9. Wrote(o, m) /\ Two(m.chunks, o.chunks, p, z, y, TRUE)
  BY <1>1, <1>3, <1>6, <1>8, CutBackIs
<1>10. /\ Sound(o) /\ Frame(o, m, {p}, {p, z})
       /\ o.chunks[p].c /\ o.chunks[z].size = y - z /\ o.chunks[z].c
  <2>1. SameRest(o, m) /\ SameTop(o, m) /\ SameBins(o, m)
    BY <1>9 DEF Wrote
  <2>2. ASSUME NEW X, X = {} PROVE TwoInUse(m, X, p, z, y, {p}, o)
    BY <1>1, <1>2, <1>3, <1>4, <1>7, <1>9, <2>1, <2>2 DEF TwoInUse, Cleared
  <2>3. ASSUME NEW X, X = {}
        PROVE  /\ Sound(o) /\ Frame(o, m, {p}, {p, z})
               /\ o.chunks[p].c /\ o.chunks[z].size = y - z /\ o.chunks[z].c
    <3>1. TwoInUse(m, X, p, z, y, {p}, o)
      BY <2>2, <2>3
    <3>. QED
      BY ONLY <3>1, MadeTwoInuse
  <2>. QED
    BY <2>3
<1>11. Used(o) = (Used(m) \ {p}) \cup {p, z}
  BY <1>10 DEF Frame
<1>12. Sound(n) /\ Frame(n, o, {p}, {})
  BY <1>5, <1>10, <1>11, DisposeIs
<1>13. z \notin Used(m)
  <2>1. Used(m) \subseteq DOMAIN ch
    BY UsedIs, <1>1
  <2>. QED
    BY <1>6, <2>1
<1>14. {p, z} \cap (Used(m) \ {p}) = {}
  BY <1>13
<1>15. Frame(n, m, {p}, ({p, z} \ {p}) \cup {})
  BY <1>10, <1>12, <1>14, FrameThen
<1>16. ({p, z} \ {p}) \cup {} = {z}
  BY SMTT(30), <1>4
<1>17. n.chunks[z].size = o.chunks[z].size /\ n.chunks[z].c = o.chunks[z].c
  <2>1. z \in Used(o) \ {p}
    BY SMTT(30), <1>4, <1>11
  <2>. QED
    BY <1>12, <2>1 DEF Frame
<1>18. LeaderGone(n, m, p, z, size)
  BY <1>4, <1>10, <1>12, <1>13, <1>15, <1>16, <1>17 DEF LeaderGone
<1>. QED
  BY <1>18 DEF z

\* A chunk has moved, and is then cut.
LEMMA MovedThen ==
    ASSUME NEW m, NEW k, NEW n, NEW p \in Used(m), NEW q, NEW nb, Moved(k, m, p, q, nb), Resized(n, k, q, nb),
           p \in Nat, q \in Nat, k.chunks[q].size \in Nat, n.chunks[q].size \in Nat, n.chunks[q].size <= k.chunks[q].size,
           m.chunks[p].size \in Nat
    PROVE  Moved(n, m, p, q, nb)
<1>1. Frame(k, m, {p}, {q}) /\ q \notin Used(m) \ {p} /\ q # NULL
  BY DEF Moved
<1>2. Sound(n) /\ Frame(n, k, {q}, {q}) /\ Fits(n, q, nb)
  BY DEF Resized
<1>3. Frame(n, m, {p}, ({q} \ {q}) \cup {q})
  <2>1. {q} \subseteq {q} /\ {q} \cap (Used(m) \ {p}) = {}
    BY <1>1
  <2>. QED
    BY <1>1, <1>2, <2>1, FrameThen
<1>4. ({q} \ {q}) \cup {q} = {q}
  OBVIOUS
<1>5. Within(n, q, m, p)
  <2>1. Within(k, q, m, p)
    BY DEF Moved
  <2>. QED
    BY <2>1 DEF Within
<1>. QED
  BY <1>1, <1>2, <1>3, <1>4, <1>5 DEF Moved

\* Carve keeps the request in the chunk.
LEMMA CarveIs ==
    ASSUME NEW m, Sound(m), NEW p \in Used(m), NEW d \in Nat \ {0}, NEW nb \in Nat, nb >= MinChunk,
           Fits(m, p, nb + d + MinChunk)
    PROVE  Moved(Carve(m, p, d, nb).m, m, p, Carve(m, p, d, nb).p, nb)
<1>. DEFINE ch == m.chunks
            aligned == (p + 1) % d = 0
            q == IF aligned THEN p ELSE AlignedAt(p, d)
            lead == q - p
            size == ChunkSize(m, p) - lead
            up == Put(Forget(m, {p}), q, [HeaderAt(m, p) EXCEPT !.size = size, !.foot = @ + lead])
            cut == DisposeChunk(SetInuse(SetInuse(m, q, size), p, lead), p)
            k == IF aligned THEN m ELSE IF IsMmapped(m, p) THEN up ELSE cut
            n == IF ~IsMmapped(k, q) /\ size > nb + MinChunk THEN CutTo(k, q, size, nb) ELSE k
<1>1. Carve(m, p, d, nb) = Outcome(n, q)
  BY DEF Carve
<1>2. Carve(m, p, d, nb).m = n /\ Carve(m, p, d, nb).p = q
  <2>. HIDE DEF n, q
  <2>. QED
    BY <1>1, OutcomeIs DEF OutcomeFields
<1>3. /\ p \in Nat /\ p # NULL /\ ch[p].size \in Nat \ {0} /\ ChunkSize(m, p) = ch[p].size
      /\ (IsMmapped(m, p) <=> ~ch[p].c) /\ ch[p].c \in BOOLEAN
  BY ZenonT(60), UsedIs DEF Sound, HeaderOk
<1>4. /\ nb + d + MinChunk <= ch[p].size
      /\ ~ch[p].c => nb + d + MinChunk + 1 <= ch[p].size
  BY <1>3 DEF Fits, MinChunk
<1>5. /\ q \in Nat /\ lead \in Nat /\ size \in Nat /\ p + lead = q /\ size = ch[p].size - lead
      /\ nb + 1 <= size
      /\ aligned => lead = 0 /\ size = ch[p].size /\ q = p
      /\ ~aligned => lead > 0
  <2>1. CASE aligned
    <3>1. q = p
      BY <2>1
    <3>. HIDE DEF q, aligned
    <3>. QED
      BY <1>3, <1>4, <2>1, <3>1 DEF MinChunk
  <2>2. CASE ~aligned
    <3>1. q = AlignedAt(p, d) /\ (p + 1) % d # 0
      BY <2>2
    <3>2. AlignedAt(p, d) \in Nat /\ AlignedAt(p, d) - p >= MinChunk /\ AlignedAt(p, d) - p <= d + 1
      BY <1>3, <3>1, AlignedAtIs
    <3>. HIDE DEF q, aligned
    <3>. QED
      BY <1>3, <1>4, <2>2, <3>1, <3>2 DEF MinChunk
  <2>. QED
    BY <2>1, <2>2
<1>. HIDE DEF n, q, size, aligned
<1>6. CASE aligned
  <2>1. k = m /\ q = p /\ size = ch[p].size
    BY <1>5, <1>6
  <2>2. Fits(m, p, nb)
    BY <1>3, <1>4 DEF Fits, MinChunk
  <2>3. Resized(n, m, p, nb) /\ n.chunks[p].size \in Nat /\ n.chunks[p].size <= ch[p].size
    <3>1. CASE ~IsMmapped(m, p) /\ size > nb + MinChunk
      <4>1. n = CutTo(m, p, size, nb)
        BY <2>1, <3>1 DEF n
      <4>2. nb < size /\ nb > 0
        BY <1>5, <3>1 DEF MinChunk
      <4>. QED
        BY <1>3, <1>5, <2>1, <3>1, <4>1, <4>2, CutUsedIs
    <3>2. CASE ~(~IsMmapped(m, p) /\ size > nb + MinChunk)
      <4>1. n = m
        BY <2>1, <3>2 DEF n
      <4>. QED
        BY <1>3, <2>2, <4>1, ResizedSame
    <3>. QED
      BY <3>1, <3>2
  <2>4. Within(n, q, m, p)
    BY <1>3, <2>1, <2>3 DEF Within
  <2>5. Moved(n, m, p, q, nb)
    BY <1>3, <2>1, <2>3, <2>4 DEF Moved, Resized
  <2>. QED
    BY <1>2, <2>5
<1>7. CASE ~aligned /\ IsMmapped(m, p)
  <2>1. k = up
    BY <1>7
  <2>2. up = Put(Forget(m, {p}), p + lead, [HeaderAt(m, p) EXCEPT !.size = ChunkSize(m, p) - lead, !.foot = @ + lead])
    BY SMTT(30), <1>5 DEF size
  <2>. HIDE DEF k, up, lead
  <2>3. Moved(k, m, p, p + lead, nb) /\ ~k.chunks[p + lead].c /\ ~k.chunks[p + lead].p
    <3>1. lead > 0 /\ nb + lead < ch[p].size /\ ~ch[p].c /\ lead \in Nat
      BY <1>3, <1>4, <1>5, <1>7
    <3>. QED
      BY <2>1, <2>2, <3>1, MoveMappedIs
  <2>4. q \in Used(k) /\ Sound(k) /\ ~k.chunks[q].c
    BY <1>5, <2>3 DEF Moved, Frame
  <2>5. IsMmapped(k, q)
    BY <2>4, UsedIs DEF Sound
  <2>6. n = k
    BY <2>5 DEF n
  <2>. QED
    BY <1>2, <1>5, <2>3, <2>6
<1>8. CASE ~aligned /\ ~IsMmapped(m, p)
  <2>1. k = cut
    BY <1>8
  <2>2. cut = DisposeChunk(SetInuse(SetInuse(m, p + lead, size), p, lead), p)
    BY <1>5
  <2>. HIDE DEF k, cut, lead
  <2>3. /\ Sound(k) /\ Frame(k, m, {p}, {p + lead}) /\ p + lead \notin Used(m)
        /\ k.chunks[p + lead].c /\ k.chunks[p + lead].size = size
    <3>1. lead > 0 /\ ch[p].c /\ lead \in Nat /\ size > 0 /\ size = ch[p].size - lead
      BY <1>3, <1>4, <1>5, <1>8
    <3>2. k = DisposeChunk(SetInuse(SetInuse(m, p + lead, size), p, lead), p)
      BY <2>1, <2>2
    <3>3. Sound(m) /\ p \in Used(m) /\ m.chunks[p].c /\ size = m.chunks[p].size - lead
      BY <3>1
    <3>4. LeaderGone(k, m, p, p + lead, size)
      BY ONLY <3>1, <3>2, <3>3, DropLeaderIs
    <3>. QED
      BY <3>4 DEF LeaderGone
  <2>4. q \in Used(k) /\ Sound(k) /\ k.chunks[q].c /\ k.chunks[q].size = size
    BY <1>5, <2>3 DEF Frame
  <2>5. Fits(k, q, nb)
    BY <1>5, <2>4 DEF Fits
  <2>6. Moved(k, m, p, q, nb)
    <3>1. q # NULL
      BY <1>3, <1>5, <1>8 DEF NULL
    <3>2. Within(k, q, m, p)
      BY <1>3, <1>5, <2>4 DEF Within
    <3>. QED
      BY <1>5, <2>3, <2>5, <3>1, <3>2 DEF Moved
  <2>7. Resized(n, k, q, nb) /\ n.chunks[q].size \in Nat /\ n.chunks[q].size <= size
    <3>1. CASE n = CutTo(k, q, size, nb) /\ size > nb + MinChunk
      <4>1. nb < size /\ nb > 0
        BY <1>5, <3>1 DEF MinChunk
      <4>. QED
        BY <1>5, <2>4, <3>1, <4>1, CutUsedIs
    <3>2. CASE n = k
      BY <1>5, <2>4, <2>5, <3>2, ResizedSame
    <3>. QED
      BY <3>1, <3>2 DEF n
  <2>. QED
    BY <1>2, <1>3, <1>5, <2>4, <2>6, <2>7, MovedThen
<1>. QED
  BY <1>6, <1>7, <1>8

==============================================================================
