------------------------------ MODULE HeapProofs -----------------------------
(****************************************************************************)
(* The heap stays sound, the program is never aborted and every call keeps  *)
(* what Heap promises, and nothing leaks, whatever the callers of dlmalloc  *)
(* do and wherever the system puts its regions.  First segments: memory     *)
(* that the system gives behind the segment of top, in front of a segment   *)
(* or apart from all, and the end of top that is given back.  All this as   *)
(* long as no other call runs between two steps of ialloc (IallocAlone),    *)
(* and the sizes of its arrays sum up to a size_t (ArraysFit): ialloc does  *)
(* not see to either.                                                       *)
(****************************************************************************)
EXTENDS HeapChunkProofs

-----------------------------------------------------------------------------
(* The first segment, which has top. *)

\* A segment and a mapped chunk have different spaces, and two segments too.
LEMMA SpacesDiffer ==
    ASSUME NEW ch, NEW top, NEW segs, NEW rg, Body(ch, top, segs, rg), NEW i \in 1..Len(segs)
    PROVE  /\ \A p \in Direct(ch) : DirectSpace(ch, p) # SegmentSpace(segs[i])
           /\ \A j \in 1..Len(segs) : j # i => SegmentSpace(segs[j]) # SegmentSpace(segs[i])
<1>1. ASSUME NEW p \in Direct(ch), DirectSpace(ch, p) = SegmentSpace(segs[i]) PROVE FALSE
  <2>. DEFINE y == After(ch, p)
  <2>1. segs[i].base \in Ord(ch) /\ segs[i].base \in DOMAIN ch /\ DirectOk(ch, p)
    BY DEF Body, SegmentOk, Ord
  <2>2. /\ p \in Nat /\ ch[p].foot \in Nat /\ ch[p].foot < p /\ y \in Nat /\ p < y /\ p \in DOMAIN ch
        /\ p \notin Ord(ch)
    BY BodyTypes
  <2>3. p - ch[p].foot = segs[i].base
    BY <1>1 DEF DirectSpace, SegmentSpace
  <2>4. ch[y].size = 0
    BY <2>1 DEF DirectOk
  <2>5. y \notin Ord(ch)
    BY <2>4 DEF Ord
  <2>6. segs[i].base = p \/ segs[i].base = y
    <3>1. segs[i].base < y + MmapFootPad /\ p - ch[p].foot <= segs[i].base
      BY <2>2, <2>3 DEF MmapFootPad
    <3>. QED
      BY <2>1, <3>1 DEF DirectOk
  <2>. QED
    BY <2>1, <2>2, <2>5, <2>6
<1>2. \A j \in 1..Len(segs) : j # i => SegmentSpace(segs[j]) # SegmentSpace(segs[i])
  BY DEF Body, SegmentSpace
<1>. QED
  BY <1>1, <1>2

\* Where the segment with top ends, and what is there.
LEMMA FirstIs ==
    ASSUME NEW ch, NEW top, NEW segs, NEW rg, Body(ch, top, segs, rg), FirstHasTop(top, segs), top # NULL
    PROVE  /\ 1 \in 1..Len(segs) /\ Len(segs) \in Nat
           /\ segs[1].base \in Nat \ {0} /\ segs[1].size \in Nat /\ segs[1].record = NULL
           /\ segs[1].base \in Ord(ch) /\ ch[segs[1].base].p
           /\ top \in Nat /\ top \in FreeAt(ch) /\ top \in DOMAIN ch /\ top \in Ord(ch)
           /\ segs[1].base <= top /\ After(ch, top) + TopFoot = segs[1].base + segs[1].size
           /\ After(ch, top) \in Nat /\ top < After(ch, top) /\ top < segs[1].base + segs[1].size
           /\ \A q \in DOMAIN ch : Holds(segs[1], q) => q <= top /\ q \in Ord(ch)
           /\ SegmentSpace(segs[1]) \in Spaces(ch, segs)
<1>1. Len(segs) \in Nat /\ Len(segs) > 0
  BY BodyTypes DEF FirstHasTop
<1>2. 1 \in 1..Len(segs)
  BY <1>1
<1>3. /\ segs[1].base \in Nat \ {0} /\ segs[1].size \in Nat /\ segs[1].record = NULL
      /\ SegmentOk(ch, top, segs[1])
  BY <1>2, BodyTypes DEF FirstHasTop, Body
<1>4. Limit(segs[1], top) = top
  BY <1>3 DEF Limit
<1>5. /\ top \in FreeAt(ch) /\ top \in Ord(ch) /\ top \in Nat /\ top \in DOMAIN ch
      /\ After(ch, top) \in Nat /\ top < After(ch, top)
  BY BodyTypes
<1>6. /\ segs[1].base \in Ord(ch) /\ ch[segs[1].base].p
      /\ Holds(segs[1], top)
      /\ \A q \in DOMAIN ch : Holds(segs[1], q) => q <= top /\ (q < top => q \in Ord(ch))
      /\ After(ch, top) + TopFoot = segs[1].base + segs[1].size
  BY <1>3, <1>4 DEF SegmentOk
<1>7. segs[1].base <= top /\ top < segs[1].base + segs[1].size
  BY <1>6 DEF Holds
<1>8. \A q \in DOMAIN ch : Holds(segs[1], q) => q <= top /\ q \in Ord(ch)
  <2>1. \A q \in DOMAIN ch : q \in Nat
    BY BodyTypes
  <2>. QED
    BY <1>5, <1>6, <2>1
<1>9. SegmentSpace(segs[1]) \in Spaces(ch, segs)
  BY <1>2 DEF Spaces
<1>. QED
  BY <1>1, <1>2, <1>3, <1>5, <1>6, <1>7, <1>8, <1>9

\* From top up to e nothing but top is, and it is given other chunks.
AtTop(ch, top, segs, rg, ch2, e) ==
    /\ Body(ch, top, segs, rg) /\ FirstHasTop(top, segs) /\ top # NULL
    /\ e \in Nat /\ segs[1].base + segs[1].size <= e
    /\ \A t \in Spaces(ch, segs) \ {SegmentSpace(segs[1])} : t.end <= top \/ e <= t.base
    /\ SameOutside(ch, ch2, Window(top, e))
    /\ top \in DOMAIN ch2 /\ HeaderOk(ch2[top]) /\ ch2[top].p

\* A change at the end of the top segment touches top alone.
LEMMA TopOutside ==
    ASSUME NEW ch, NEW top, NEW segs, NEW rg, NEW ch2, NEW e, AtTop(ch, top, segs, rg, ch2, e)
    PROVE  Outside(ch, top, ch2, top, e) /\ DOMAIN ch \cap Window(top, e) = {top}
<1>. DEFINE W == Window(top, e)
            end == segs[1].base + segs[1].size
<1>1. Body(ch, top, segs, rg) /\ FirstHasTop(top, segs) /\ top # NULL /\ e \in Nat /\ end <= e
  BY DEF AtTop
<1>2. /\ 1 \in 1..Len(segs) /\ Len(segs) \in Nat
      /\ segs[1].base \in Nat \ {0} /\ segs[1].size \in Nat
      /\ top \in Nat /\ top \in FreeAt(ch) /\ top \in DOMAIN ch
      /\ segs[1].base <= top /\ top < end /\ end \in Nat
      /\ \A q \in DOMAIN ch : Holds(segs[1], q) => q <= top /\ q \in Ord(ch)
  BY <1>1, FirstIs
<1>3. \A q \in Nat : q \in W <=> top <= q /\ q < e
  BY <1>1, <1>2 DEF Window
<1>4. W = top..(e - 1)
  BY DEF Window
<1>5. /\ \A q \in DOMAIN ch : q \in Nat
      /\ \A p \in Ord(ch) : p \in DOMAIN ch /\ p \in Nat /\ After(ch, p) \in Nat /\ p < After(ch, p)
      /\ \A p \in Ord(ch), q \in DOMAIN ch : q <= p \/ After(ch, p) <= q
  BY <1>1, BodyTypes
<1>. HIDE DEF W, end
<1>6. ASSUME NEW q \in DOMAIN ch, q \in W PROVE q = top
  <2>1. PICK t \in Spaces(ch, segs) : t.base <= q /\ q < t.end
    BY <1>1, ChunkInSpace
  <2>2. t.base \in Nat /\ t.end \in Nat
    BY <1>1, SpaceFacts DEF Body
  <2>3. t = SegmentSpace(segs[1])
    <3>1. ~(t.end <= top \/ e <= t.base)
      BY <1>2, <1>1, <1>3, <1>5, <1>6, <2>1, <2>2
    <3>. QED
      BY <3>1 DEF AtTop
  <2>4. Holds(segs[1], q)
    BY <2>1, <2>3 DEF SegmentSpace, Holds
  <2>. QED
    BY <1>2, <1>3, <1>5, <1>6, <2>4
<1>7. top \in W
  BY <1>1, <1>2, <1>3
<1>8. DOMAIN ch \cap W = {top}
  BY <1>2, <1>6, <1>7
<1>9. SameOutside(ch, ch2, W) /\ top \in DOMAIN ch2 /\ HeaderOk(ch2[top]) /\ ch2[top].p
  BY DEF AtTop, W
<1>10. ASSUME NEW p \in Ord(ch) \ W
       PROVE  p >= e \/ (After(ch, p) <= top /\ (After(ch, p) \notin W \/ Marked(ch, ch2, p, top)))
  <2>1. CASE p > top
    <3>. QED
      BY <1>1, <1>2, <1>3, <1>5, <2>1
  <2>2. CASE p < top
    <3>1. After(ch, p) <= top
      BY <1>2, <1>5, <2>2
    <3>2. CASE After(ch, p) = top
      <4>1. Tagged(ch, p, top)
        <5>1. p # top /\ p \in Ord(ch)
          BY <1>7
        <5>. QED
          BY <1>1, <3>2, <5>1 DEF Body, Layout
      <4>2. ch[p].c
        BY <1>2, <4>1 DEF Tagged, FreeAt
      <4>3. ch2[p] = ch[p]
        BY <1>5, <1>9 DEF SameOutside
      <4>4. ch2[top].foot = 0
        BY <1>9 DEF HeaderOk
      <4>5. Tagged(ch2, p, top)
        BY <1>9, <4>2, <4>3, <4>4 DEF Tagged
      <4>. QED
        BY <3>1, <3>2, <4>5 DEF Marked
    <3>3. CASE After(ch, p) # top
      BY <1>2, <1>3, <1>5, <3>1, <3>3
    <3>. QED
      BY <3>2, <3>3
  <2>. QED
    BY <1>2, <1>5, <1>7, <2>1, <2>2
<1>11. \A p \in (Ord(ch) \cap W) \ {top} : FALSE
  BY <1>5, <1>6
<1>12. Outside(ch, top, ch2, top, e)
  BY <1>1, <1>2, <1>4, <1>9, <1>10, <1>11 DEF Outside, SameOutside
<1>. QED
  BY <1>8, <1>12 DEF W

-----------------------------------------------------------------------------
(* The segment with top becomes larger or smaller, and top with it. *)

\* The first segment with another end.
Grown(segs, newend) == [segs EXCEPT ![1].size = newend - segs[1].base]

\* The first segment is the one that changes.
LEMMA GrownIs ==
    ASSUME NEW segs, segs \in Seq(SegmentType), 1 \in 1..Len(segs), NEW newend \in Nat, segs[1].base < newend
    PROVE  /\ Grown(segs, newend) \in Seq(SegmentType) /\ Len(Grown(segs, newend)) = Len(segs)
           /\ Grown(segs, newend)[1].base = segs[1].base /\ Grown(segs, newend)[1].record = segs[1].record
           /\ Grown(segs, newend)[1].size = newend - segs[1].base
           /\ \A i \in 1..Len(segs) : i # 1 => Grown(segs, newend)[i] = segs[i]
<1>1. /\ segs[1] \in SegmentType /\ DOMAIN segs = 1..Len(segs) /\ Len(segs) \in Nat
      /\ segs[1].base \in Nat \ {0} /\ segs[1].record \in Nat
  BY SequenceTypes
<1>. DEFINE x == newend - segs[1].base
            g == [segs[1] EXCEPT !.size = x]
<1>2. x \in Nat \ {0}
  BY <1>1
<1>3. g.base = segs[1].base /\ g.record = segs[1].record /\ g.size = x /\ g \in SegmentType
  BY <1>1, <1>2 DEF SegmentType
<1>4. Grown(segs, newend) = [segs EXCEPT ![1] = g]
  BY DEF Grown
<1>. HIDE DEF g, x
<1>5. /\ [segs EXCEPT ![1] = g] \in Seq(SegmentType) /\ Len([segs EXCEPT ![1] = g]) = Len(segs)
      /\ \A i \in 1..Len(segs) : [segs EXCEPT ![1] = g][i] = IF i = 1 THEN g ELSE segs[i]
  BY <1>3, ExceptSeq
<1>6. [segs EXCEPT ![1] = g][1] = g
  BY <1>5
<1>. QED
  BY <1>3, <1>4, <1>5, <1>6 DEF x

\* Top and its segment end elsewhere, the regions with them.
TopResized(ch, top, segs, rg, ch2, rg2, e, newend) ==
    /\ AtTop(ch, top, segs, rg, ch2, e)
    /\ DOMAIN ch2 \cap Window(top, e) = {top}
    /\ newend \in Nat /\ top + TopFoot < newend /\ newend <= e
    /\ ~ch2[top].c /\ ch2[top].size = newend - TopFoot - top
    /\ SpacesOk((Spaces(ch, segs) \ {SegmentSpace(segs[1])}) \cup {Space(segs[1].base, newend)}, rg2)

\* Body is kept.
LEMMA ResizeTop ==
    ASSUME NEW ch, NEW top, NEW segs, NEW rg, NEW ch2, NEW rg2, NEW e, NEW newend,
           TopResized(ch, top, segs, rg, ch2, rg2, e, newend)
    PROVE  /\ Body(ch2, top, Grown(segs, newend), rg2) /\ FirstHasTop(top, Grown(segs, newend))
           /\ DOMAIN ch \cap Window(top, e) = {top} /\ top \in FreeAt(ch2)
           /\ Len(Grown(segs, newend)) = Len(segs)
           /\ \A i \in 1..Len(segs) : Grown(segs, newend)[i].record = segs[i].record
<1>. DEFINE W == Window(top, e)
            segs2 == Grown(segs, newend)
            s == SegmentSpace(segs[1])
            T == {Space(segs[1].base, newend)}
            y == newend - TopFoot
<1>1. /\ Body(ch, top, segs, rg) /\ FirstHasTop(top, segs) /\ top # NULL /\ e \in Nat
      /\ \A t \in Spaces(ch, segs) \ {s} : t.end <= top \/ e <= t.base
      /\ SameOutside(ch, ch2, W) /\ DOMAIN ch2 \cap W = {top}
      /\ top \in DOMAIN ch2 /\ HeaderOk(ch2[top]) /\ ch2[top].p /\ ~ch2[top].c
  BY DEF AtTop, TopResized
<1>2. /\ newend \in Nat /\ top + TopFoot < newend /\ newend <= e /\ ch2[top].size = newend - TopFoot - top
      /\ SpacesOk((Spaces(ch, segs) \ {s}) \cup T, rg2)
  BY DEF TopResized
<1>3. /\ 1 \in 1..Len(segs) /\ Len(segs) \in Nat
      /\ segs[1].base \in Nat \ {0} /\ segs[1].size \in Nat /\ segs[1].record = NULL
      /\ segs[1].base \in Ord(ch) /\ ch[segs[1].base].p
      /\ top \in Nat /\ top \in FreeAt(ch) /\ top \in DOMAIN ch
      /\ segs[1].base <= top /\ top < segs[1].base + segs[1].size
      /\ \A q \in DOMAIN ch : Holds(segs[1], q) => q <= top /\ q \in Ord(ch)
  BY <1>1, FirstIs
<1>4. TopFoot \in Nat /\ TopFoot > 0
  BY DEF TopFoot, SegmentSize, MinChunk
<1>5. y \in Nat /\ top < y /\ y <= e /\ After(ch2, top) = y /\ y + TopFoot = newend /\ ch2[top].size > 0
  <2>1. y \in Nat /\ top < y /\ y <= e /\ y + TopFoot = newend /\ y - top \in Nat /\ y - top > 0 /\ top + (y - top) = y
    <3>1. top \in Nat /\ newend \in Nat /\ e \in Nat /\ top + TopFoot < newend /\ newend <= e
      BY <1>1, <1>2, <1>3
    <3>. QED
      BY ONLY <1>4, <3>1
  <2>2. ch2[top].size = y - top
    BY <1>2
  <2>. QED
    BY <2>1, <2>2 DEF After
<1>6. \A q \in Nat : q \in W <=> top <= q /\ q < e
  BY <1>1, <1>3 DEF Window
<1>7. W = top..(e - 1)
  BY DEF Window
<1>8. /\ segs2 \in Seq(SegmentType) /\ Len(segs2) = Len(segs)
      /\ segs2[1].base = segs[1].base /\ segs2[1].record = NULL
      /\ segs2[1].size = newend - segs[1].base
      /\ \A i \in 1..Len(segs) : i # 1 => segs2[i] = segs[i]
  <2>1. segs \in Seq(SegmentType)
    BY <1>1 DEF Body
  <2>2. segs[1].base < newend
    BY <1>2, <1>3, <1>4
  <2>. QED
    BY <1>2, <1>3, <2>1, <2>2, GrownIs
<1>9. segs2[1].base + segs2[1].size = newend
  BY <1>2, <1>3, <1>8
<1>10. SegmentSpace(segs2[1]) = Space(segs[1].base, newend)
  BY <1>8, <1>9 DEF SegmentSpace, Space
<1>. HIDE DEF W, segs2, s, T, y
<1>11. Outside(ch, top, ch2, top, e) /\ DOMAIN ch \cap W = {top}
  <2>1. AtTop(ch, top, segs, rg, ch2, e)
    BY DEF TopResized
  <2>. QED
    BY <2>1, TopOutside DEF W
<1>12. top \in FreeAt(ch2) /\ top \in Ord(ch2) /\ top \notin Direct(ch2)
  BY <1>1, <1>5 DEF FreeAt, Ord, Direct
<1>13. /\ \A q \in DOMAIN ch2 : q \in W => q = top
       /\ \A q \in Ord(ch2) \cup Direct(ch2) : q \in DOMAIN ch2
       /\ top \in W
  BY <1>1 DEF Ord, Direct
<1>14. InsideOk(ch2, top, top, e)
  <2>1. \A p \in DOMAIN ch2 \cap W : p \in Nat \ {0} /\ HeaderOk(ch2[p])
    BY <1>1, <1>3, <1>13 DEF NULL
  <2>2. \A p \in Ord(ch2) \cap W : /\ After(ch2, p) <= e
                                   /\ \A q \in DOMAIN ch2 \cap W : q <= p \/ After(ch2, p) <= q
                                   /\ p # top => Tagged(ch2, p, After(ch2, p))
    BY <1>3, <1>5, <1>13
  <2>3. \A q \in Ord(ch2) \cap W : ch2[q].p
    BY <1>1, <1>13
  <2>. QED
    BY <1>7, <2>1, <2>2, <2>3 DEF InsideOk
<1>15. TopSwap(ch2, top, top, top, e)
  BY <1>1, <1>7, <1>12, <1>13 DEF TopSwap
<1>16. /\ \A p \in Direct(ch) : DirectSpace(ch, p) # s
       /\ \A j \in 1..Len(segs) : j # 1 => SegmentSpace(segs[j]) # s
  BY <1>1, <1>3, SpacesDiffer DEF s
<1>17. \A i \in 1..Len(segs) : segs[i].record = NULL <=> i = 1
  BY <1>1 DEF FirstHasTop
<1>18. \A q \in DOMAIN ch2 : q \in DOMAIN ch /\ (q # top => q \notin W /\ ch2[q] = ch[q]) /\ q \in Nat
  <2>1. \A q \in DOMAIN ch : q \in Nat
    BY <1>1, BodyTypes
  <2>. QED
    BY <1>1, <1>3, <1>13, <2>1 DEF SameOutside
<1>19. SegmentOk(ch2, top, segs2[1])
  <2>1. Limit(segs2[1], top) = top
    BY <1>8 DEF Limit
  <2>2. segs2[1].base \in Ord(ch2) /\ ch2[segs2[1].base].p
    <3>1. CASE segs[1].base = top
      BY <1>1, <1>8, <1>12, <3>1
    <3>2. CASE segs[1].base # top
      <4>1. segs[1].base \notin W /\ segs[1].base \in DOMAIN ch
        BY <1>3, <1>6, <3>2 DEF Ord
      <4>2. segs[1].base \in DOMAIN ch2 /\ ch2[segs[1].base] = ch[segs[1].base]
        BY <1>1, <4>1 DEF SameOutside
      <4>. QED
        BY <1>3, <1>8, <4>2 DEF Ord
    <3>. QED
      BY <3>1, <3>2
  <2>3. Holds(segs2[1], top)
    BY <1>2, <1>3, <1>4, <1>8, <1>9 DEF Holds
  <2>4. ASSUME NEW q \in DOMAIN ch2, Holds(segs2[1], q)
        PROVE  q <= top /\ (q < top => q \in Ord(ch2))
    <3>1. q \in Nat /\ q \in DOMAIN ch /\ segs[1].base <= q /\ q < newend
      BY <1>8, <1>9, <1>18, <2>4 DEF Holds
    <3>2. CASE q = top
      BY <1>3, <3>2
    <3>3. CASE q # top
      <4>1. q \notin W /\ ch2[q] = ch[q]
        BY <1>18, <3>3
      <4>2. q < top
        BY <1>1, <1>2, <1>3, <1>6, <3>1, <4>1
      <4>3. Holds(segs[1], q)
        BY <1>3, <3>1, <4>2 DEF Holds
      <4>. QED
        BY <1>3, <3>1, <4>1, <4>2, <4>3 DEF Ord
    <3>. QED
      BY <3>2, <3>3
  <2>. QED
    BY <1>5, <1>8, <1>9, <1>1, <2>1, <2>2, <2>3, <2>4 DEF SegmentOk
<1>20. Swapped(ch, top, segs, rg, ch2, top, segs2, rg2, top, e, s, T)
  <2>1. \A i, j \in 1..Len(segs2) : segs2[i].base = segs2[j].base => i = j
    <3>1. \A i \in 1..Len(segs) : segs2[i].base = segs[i].base
      BY <1>8
    <3>. QED
      BY <1>1, <1>8, <3>1 DEF Body
  <2>2. \A i \in 1..Len(segs2) :
          \/ SegmentOk(ch2, top, segs2[i]) /\ SegmentSpace(segs2[i]) \in T
          \/ \E j \in 1..Len(segs) : /\ segs2[i] = segs[j] /\ SegmentSpace(segs[j]) # s
                                     /\ segs[j].record # NULL \/ top = top
    <3>1. SegmentSpace(segs2[1]) \in T
      BY <1>10 DEF T
    <3>. QED
      BY <1>8, <1>16, <1>19, <3>1
  <2>3. \A j \in 1..Len(segs) : SegmentSpace(segs[j]) # s => \E i \in 1..Len(segs2) : segs2[i] = segs[j]
    BY <1>8 DEF s
  <2>4. ASSUME NEW j \in 1..Len(segs), NEW q \in DOMAIN ch \ W, SegmentSpace(segs[j]) = s, Holds(segs[j], q)
        PROVE  \E i \in 1..Len(segs2) : /\ Holds(segs2[i], q)
                                        /\ segs[j].record # NULL => segs2[i].record = segs[j].record
    <3>1. j = 1
      BY <1>16, <2>4
    <3>2. q <= top /\ q # top /\ q \in Nat
      <4>1. q \in Nat
        BY <1>1, BodyTypes
      <4>. QED
        BY <1>3, <1>13, <2>4, <3>1, <4>1
    <3>3. Holds(segs2[1], q)
      BY <1>2, <1>3, <1>4, <1>8, <1>9, <2>4, <3>1, <3>2 DEF Holds
    <3>. QED
      BY <1>3, <1>8, <3>1, <3>3
  <2>5. \A p \in Direct(ch2) \cap W : FALSE
    BY <1>12, <1>13
  <2>6. \A t \in T : \E i \in 1..Len(segs2) : t = SegmentSpace(segs2[i])
    BY <1>3, <1>8, <1>10 DEF T
  <2>7. \A p \in Ord(ch2) \cap W : \E i \in 1..Len(segs2) : Holds(segs2[i], p)
    <3>1. Holds(segs2[1], top)
      BY <1>2, <1>3, <1>4, <1>8, <1>9 DEF Holds
    <3>. QED
      BY <1>3, <1>8, <1>13, <3>1
  <2>8. \A q \in DOMAIN ch2 \cap W : ch2[q].size # 0
    BY <1>5, <1>13, <1>18
  <2>9. \A t \in Spaces(ch, segs) \ {s} : t.end <= top \/ e <= t.base
    BY <1>1
  <2>10. segs2 \in Seq(SegmentType)
    BY <1>8
  <2>11. \A p \in Direct(ch) : DirectSpace(ch, p) = s => FALSE
    BY <1>16
  <2>12. SpacesOk((Spaces(ch, segs) \ {s}) \cup T, rg2)
    BY <1>2
  <2>13. Body(ch, top, segs, rg)
    BY <1>1
  <2>. QED
    BY ONLY <1>7, <1>11, <1>14, <1>15, <2>1, <2>2, <2>3, <2>4, <2>5, <2>6, <2>7, <2>8, <2>9, <2>10, <2>11, <2>12, <2>13
       DEF Swapped
<1>21. Body(ch2, top, segs2, rg2)
  BY <1>20, SwapBody
<1>22. FirstHasTop(top, segs2)
  BY <1>1, <1>3, <1>8, <1>17 DEF FirstHasTop
<1>. QED
  BY <1>3, <1>8, <1>11, <1>12, <1>21, <1>22 DEF W, segs2

-----------------------------------------------------------------------------
(* The segment with top is given a record, and has top no more. *)

\* The first segment with its record.
Recorded(segs, csp) == [segs EXCEPT ![1].record = csp]

\* The first segment is the one that changes.
LEMMA RecordedIs ==
    ASSUME NEW segs, segs \in Seq(SegmentType), 1 \in 1..Len(segs), NEW csp \in Nat
    PROVE  /\ Recorded(segs, csp) \in Seq(SegmentType) /\ Len(Recorded(segs, csp)) = Len(segs)
           /\ Recorded(segs, csp)[1].base = segs[1].base /\ Recorded(segs, csp)[1].record = csp
           /\ Recorded(segs, csp)[1].size = segs[1].size
           /\ \A i \in 1..Len(segs) : i # 1 => Recorded(segs, csp)[i] = segs[i]
<1>1. segs[1] \in SegmentType /\ DOMAIN segs = 1..Len(segs) /\ Len(segs) \in Nat
  BY SequenceTypes
<1>. DEFINE g == [segs[1] EXCEPT !.record = csp]
<1>2. g.base = segs[1].base /\ g.size = segs[1].size /\ g.record = csp /\ g \in SegmentType
  BY <1>1 DEF SegmentType
<1>3. Recorded(segs, csp) = [segs EXCEPT ![1] = g]
  BY DEF Recorded
<1>. HIDE DEF g
<1>4. /\ [segs EXCEPT ![1] = g] \in Seq(SegmentType) /\ Len([segs EXCEPT ![1] = g]) = Len(segs)
      /\ \A i \in 1..Len(segs) : [segs EXCEPT ![1] = g][i] = IF i = 1 THEN g ELSE segs[i]
  BY <1>2, ExceptSeq
<1>5. [segs EXCEPT ![1] = g][1] = g
  BY <1>4
<1>. QED
  BY <1>2, <1>3, <1>4, <1>5

\* In the place of top are a chunk in use, unless there is no room for one, and
\* the record with a fencepost behind it.
TopClosed(ch, top, segs, rg, ch2, end, csp) ==
    /\ AtTop(ch, top, segs, rg, ch2, end) /\ end = segs[1].base + segs[1].size
    /\ csp \in Nat /\ top <= csp /\ csp + TopFoot <= end
    /\ DOMAIN ch2 \cap Window(top, end) = {top, csp, csp + SegmentSize}
    /\ Headed(ch2[csp], SegmentSize, TRUE, TRUE, 0) /\ ch2[csp + SegmentSize] = Fence
    /\ csp # top => Headed(ch2[top], csp - top, TRUE, TRUE, 0)

\* The chunks of a segment that has been closed.
LEMMA ClosedChunks ==
    ASSUME NEW ch, NEW top, NEW segs, NEW rg, NEW ch2, NEW end, NEW csp, NEW f, f = csp + SegmentSize,
           TopClosed(ch, top, segs, rg, ch2, end, csp)
    PROVE  /\ top \in Nat \ {0} /\ csp \in Nat \ {0} /\ f \in Nat \ {0} /\ end \in Nat
           /\ top <= csp /\ csp < f /\ f < end /\ csp + TopFoot <= end
           /\ \A q \in Nat : q \in Window(top, end) <=> top <= q /\ q < end
           /\ \A q \in DOMAIN ch2 : q \in Window(top, end) => q = top \/ q = csp \/ q = f
           /\ {top, csp, f} \subseteq DOMAIN ch2 \cap Window(top, end)
           /\ {top, csp} \subseteq Ord(ch2) /\ f \notin Ord(ch2)
           /\ {top, csp, f} \cap (FreeAt(ch2) \cup Direct(ch2)) = {}
           /\ HeaderOk(ch2[top]) /\ HeaderOk(ch2[csp]) /\ HeaderOk(ch2[f])
           /\ ch2[top].p /\ ch2[top].c /\ ch2[csp].p /\ ch2[csp].c /\ ch2[f].p /\ ch2[f].c
           /\ ch2[csp].foot = 0 /\ ch2[f].foot = 0
           /\ ch2[csp].size = SegmentSize /\ ch2[f].size = 0
           /\ After(ch2, csp) = f /\ After(ch2, top) = IF csp = top THEN f ELSE csp
<1>1. /\ AtTop(ch, top, segs, rg, ch2, end) /\ end = segs[1].base + segs[1].size
      /\ csp \in Nat /\ top <= csp /\ csp + TopFoot <= end
      /\ DOMAIN ch2 \cap Window(top, end) = {top, csp, f}
      /\ Headed(ch2[csp], SegmentSize, TRUE, TRUE, 0) /\ ch2[f] = Fence
      /\ csp # top => Headed(ch2[top], csp - top, TRUE, TRUE, 0)
  BY DEF TopClosed
<1>2. /\ Body(ch, top, segs, rg) /\ FirstHasTop(top, segs) /\ top # NULL /\ end \in Nat
      /\ HeaderOk(ch2[top]) /\ ch2[top].p
  BY <1>1 DEF AtTop
<1>3. top \in Nat /\ top # 0
  BY <1>2, FirstIs DEF NULL
<1>4. TopFoot = 5 /\ SegmentSize = 3
  BY DEF TopFoot, SegmentSize, MinChunk
<1>5. csp # 0 /\ f \in Nat /\ f # 0 /\ csp < f /\ f < end
  BY <1>1, <1>2, <1>3, <1>4
<1>6. \A q \in Nat : q \in Window(top, end) <=> top <= q /\ q < end
  BY <1>2, <1>3 DEF Window
<1>7. /\ HeaderOk(ch2[csp]) /\ ch2[csp].size = 3 /\ ch2[csp].c /\ ch2[csp].p /\ ch2[csp].foot = 0
  BY <1>1, <1>4 DEF Headed
<1>8. ch2[f].size = 0 /\ ch2[f].c /\ ch2[f].p /\ ch2[f].foot = 0 /\ HeaderOk(ch2[f])
  BY <1>1 DEF Fence, Header, HeaderOk
<1>9. ch2[top].c /\ ch2[top].size > 0
  <2>1. CASE csp = top
    BY <1>7, <2>1
  <2>2. CASE csp # top
    <3>1. ch2[top].c /\ ch2[top].size = csp - top
      BY <1>1, <2>2 DEF Headed
    <3>. QED
      BY <1>1, <1>3, <2>2, <3>1
  <2>. QED
    BY <2>1, <2>2
<1>10. {top, csp, f} \subseteq DOMAIN ch2 /\ {top, csp, f} \subseteq Window(top, end)
  BY <1>1
<1>11. {top, csp} \subseteq Ord(ch2) /\ f \notin Ord(ch2) /\ {top, csp, f} \cap (FreeAt(ch2) \cup Direct(ch2)) = {}
  BY <1>2, <1>7, <1>8, <1>9, <1>10 DEF Ord, FreeAt, Direct
<1>12. After(ch2, csp) = f
  BY <1>4, <1>7 DEF After
<1>13. After(ch2, top) = IF csp = top THEN f ELSE csp
  <2>1. CASE csp = top
    BY <1>12, <2>1
  <2>2. CASE csp # top
    <3>1. ch2[top].size = csp - top
      BY <1>1, <2>2 DEF Headed
    <3>2. top + (csp - top) = csp
      BY <1>1, <1>3
    <3>. QED
      BY <2>2, <3>1, <3>2 DEF After
  <2>. QED
    BY <2>1, <2>2
<1>14. \A q \in DOMAIN ch2 : q \in Window(top, end) => q = top \/ q = csp \/ q = f
  BY <1>1
<1>. QED
  BY <1>1, <1>2, <1>3, <1>4, <1>5, <1>6, <1>7, <1>8, <1>9, <1>10, <1>11, <1>12, <1>13, <1>14

\* No segment has top.
AllRecorded(segs) == \A i \in 1..Len(segs) : segs[i].record # NULL

\* A segment is closed: top becomes a chunk in use, the record, and fenceposts.
LEMMA CloseTop ==
    ASSUME NEW ch, NEW top, NEW segs, NEW rg, NEW ch2, NEW end, NEW csp,
           TopClosed(ch, top, segs, rg, ch2, end, csp)
    PROVE  /\ Body(ch2, NULL, Recorded(segs, csp), rg) /\ AllRecorded(Recorded(segs, csp))
           /\ DOMAIN ch \cap Window(top, end) = {top}
           /\ Spaces(ch2, Recorded(segs, csp)) = Spaces(ch, segs)
           /\ Len(Recorded(segs, csp)) = Len(segs) /\ Recorded(segs, csp)[1].record = csp
           /\ \A i \in 1..Len(segs) : i # 1 => Recorded(segs, csp)[i] = segs[i]
<1>. DEFINE W == Window(top, end)
            segs2 == Recorded(segs, csp)
            s == SegmentSpace(segs[1])
            T == {s}
            f == csp + SegmentSize
<1>1. /\ top \in Nat \ {0} /\ csp \in Nat \ {0} /\ f \in Nat \ {0} /\ end \in Nat
      /\ top <= csp /\ csp < f /\ f < end /\ csp + TopFoot <= end
      /\ \A q \in Nat : q \in W <=> top <= q /\ q < end
      /\ \A q \in DOMAIN ch2 : q \in W => q = top \/ q = csp \/ q = f
      /\ {top, csp, f} \subseteq DOMAIN ch2 \cap W
      /\ {top, csp} \subseteq Ord(ch2) /\ f \notin Ord(ch2)
      /\ {top, csp, f} \cap (FreeAt(ch2) \cup Direct(ch2)) = {}
      /\ HeaderOk(ch2[top]) /\ HeaderOk(ch2[csp]) /\ HeaderOk(ch2[f])
      /\ ch2[top].p /\ ch2[top].c /\ ch2[csp].p /\ ch2[csp].c /\ ch2[f].p /\ ch2[f].c
      /\ ch2[csp].foot = 0 /\ ch2[f].foot = 0
      /\ ch2[csp].size = SegmentSize /\ ch2[f].size = 0
      /\ After(ch2, csp) = f /\ After(ch2, top) = IF csp = top THEN f ELSE csp
  BY ClosedChunks
<1>2. /\ Body(ch, top, segs, rg) /\ FirstHasTop(top, segs) /\ top # NULL
      /\ end = segs[1].base + segs[1].size
      /\ \A t \in Spaces(ch, segs) \ {s} : t.end <= top \/ end <= t.base
      /\ SameOutside(ch, ch2, W)
  BY DEF TopClosed, AtTop
<1>3. /\ 1 \in 1..Len(segs) /\ Len(segs) \in Nat
      /\ segs[1].base \in Nat \ {0} /\ segs[1].size \in Nat /\ segs[1].record = NULL
      /\ segs[1].base \in Ord(ch) /\ ch[segs[1].base].p
      /\ top \in FreeAt(ch) /\ top \in DOMAIN ch
      /\ segs[1].base <= top
      /\ \A q \in DOMAIN ch : Holds(segs[1], q) => q <= top /\ q \in Ord(ch)
      /\ s \in Spaces(ch, segs)
  BY <1>2, FirstIs
<1>4. W = top..(end - 1)
  BY DEF Window
<1>5. /\ segs2 \in Seq(SegmentType) /\ Len(segs2) = Len(segs)
      /\ segs2[1].base = segs[1].base /\ segs2[1].record = csp
      /\ segs2[1].size = segs[1].size
      /\ \A i \in 1..Len(segs) : i # 1 => segs2[i] = segs[i]
  <2>1. segs \in Seq(SegmentType)
    BY <1>2 DEF Body
  <2>. QED
    BY <1>1, <1>3, <2>1, RecordedIs
<1>6. SegmentSpace(segs2[1]) = s
  BY <1>5 DEF SegmentSpace
<1>7. \A q : Holds(segs2[1], q) <=> Holds(segs[1], q)
  BY <1>5 DEF Holds
<1>8. \A q \in W : q \in Nat => Holds(segs[1], q)
  BY <1>1, <1>2, <1>3 DEF Holds
<1>. HIDE DEF W, segs2, s, T
<1>9. Outside(ch, top, ch2, top, end) /\ DOMAIN ch \cap W = {top}
  <2>1. AtTop(ch, top, segs, rg, ch2, end)
    BY DEF TopClosed
  <2>. QED
    BY <2>1, TopOutside DEF W
<1>10. \A q \in Ord(ch2) \cup Direct(ch2) : q \in DOMAIN ch2
  BY DEF Ord, Direct
<1>. HIDE DEF f
<1>11. InsideOk(ch2, NULL, top, end)
  <2>1. \A p \in DOMAIN ch2 \cap W : p \in Nat \ {0} /\ HeaderOk(ch2[p])
    BY <1>1
  <2>2. \A p \in Ord(ch2) \cap W : p = top \/ p = csp
    BY <1>1, <1>10
  <2>3. ASSUME NEW p \in Ord(ch2) \cap W
        PROVE  /\ After(ch2, p) <= end
               /\ \A q \in DOMAIN ch2 \cap W : q <= p \/ After(ch2, p) <= q
    BY <1>1, <2>2
  <2>4. ASSUME NEW p \in Ord(ch2) \cap W PROVE Tagged(ch2, p, After(ch2, p))
    BY <1>1, <2>2 DEF Tagged
  <2>5. \A q \in Ord(ch2) \cap W : ch2[q].p
    BY <1>1, <2>2
  <2>. QED
    BY <1>4, <2>1, <2>3, <2>4, <2>5 DEF InsideOk
<1>12. TopSwap(ch2, top, NULL, top, end)
  BY <1>1, <1>4 DEF TopSwap
<1>13. /\ \A p \in Direct(ch) : DirectSpace(ch, p) # s
       /\ \A j \in 1..Len(segs) : j # 1 => SegmentSpace(segs[j]) # s
  BY <1>2, <1>3, SpacesDiffer DEF s
<1>14. \A i \in 1..Len(segs) : segs[i].record = NULL <=> i = 1
  BY <1>2 DEF FirstHasTop
<1>15. SegmentOk(ch2, NULL, segs2[1])
  <2>1. Limit(segs2[1], NULL) = f
    BY <1>1, <1>5 DEF Limit, f, NULL
  <2>2. segs2[1].base \in Ord(ch2) /\ ch2[segs2[1].base].p
    <3>1. CASE segs[1].base = top
      BY <1>1, <1>5, <3>1
    <3>2. CASE segs[1].base # top
      <4>1. segs[1].base \notin W /\ segs[1].base \in DOMAIN ch
        BY <1>1, <1>3, <3>2 DEF Ord
      <4>2. segs[1].base \in DOMAIN ch2 /\ ch2[segs[1].base] = ch[segs[1].base]
        BY <1>2, <4>1 DEF SameOutside
      <4>. QED
        BY <1>3, <1>5, <4>2 DEF Ord
    <3>. QED
      BY <3>1, <3>2
  <2>3. Holds(segs2[1], f) /\ Holds(segs2[1], csp) /\ f \in DOMAIN ch2
    BY <1>1, <1>7, <1>8
  <2>4. ASSUME NEW q \in DOMAIN ch2, Holds(segs2[1], q)
        PROVE  q <= f /\ (q < f => q \in Ord(ch2))
    <3>1. CASE q \in W
      BY <1>1, <3>1
    <3>2. CASE q \notin W
      <4>1. q \in DOMAIN ch /\ ch2[q] = ch[q]
        BY <1>2, <3>2 DEF SameOutside
      <4>2. q <= top /\ q \in Ord(ch) /\ q \in Nat
        <5>1. q \in Nat
          BY <1>2, <4>1, BodyTypes
        <5>. QED
          BY <1>3, <1>7, <2>4, <4>1, <5>1
      <4>. QED
        BY <1>1, <4>1, <4>2 DEF Ord
    <3>. QED
      BY <3>1, <3>2
  <2>5. segs2[1].record + TopFoot <= segs2[1].base + segs2[1].size
    BY <1>1, <1>2, <1>5
  <2>6. csp # NULL /\ csp \in Ord(ch2) /\ ch2[csp].c /\ ch2[csp].size = SegmentSize /\ ch2[f].size = 0
    BY <1>1 DEF NULL
  <2>. QED
    BY <1>5, <2>1, <2>2, <2>3, <2>4, <2>5, <2>6 DEF SegmentOk
<1>16. Swapped(ch, top, segs, rg, ch2, NULL, segs2, rg, top, end, s, T)
  <2>1. \A i, j \in 1..Len(segs2) : segs2[i].base = segs2[j].base => i = j
    <3>1. \A i \in 1..Len(segs) : segs2[i].base = segs[i].base
      BY <1>5
    <3>. QED
      BY <1>2, <1>5, <3>1 DEF Body
  <2>2. \A i \in 1..Len(segs2) :
          \/ SegmentOk(ch2, NULL, segs2[i]) /\ SegmentSpace(segs2[i]) \in T
          \/ \E j \in 1..Len(segs) : /\ segs2[i] = segs[j] /\ SegmentSpace(segs[j]) # s
                                     /\ segs[j].record # NULL \/ NULL = top
    <3>1. SegmentSpace(segs2[1]) \in T
      BY <1>6 DEF T
    <3>. QED
      BY <1>5, <1>13, <1>14, <1>15, <3>1
  <2>3. \A j \in 1..Len(segs) : SegmentSpace(segs[j]) # s => \E i \in 1..Len(segs2) : segs2[i] = segs[j]
    BY <1>5 DEF s
  <2>4. ASSUME NEW j \in 1..Len(segs), NEW q \in DOMAIN ch \ W, SegmentSpace(segs[j]) = s, Holds(segs[j], q)
        PROVE  \E i \in 1..Len(segs2) : /\ Holds(segs2[i], q)
                                        /\ segs[j].record # NULL => segs2[i].record = segs[j].record
    <3>1. j = 1
      BY <1>13, <2>4
    <3>. QED
      BY <1>3, <1>5, <1>7, <2>4, <3>1
  <2>5. \A p \in Direct(ch2) \cap W : FALSE
    BY <1>1, <1>10
  <2>6. \A t \in T : \E i \in 1..Len(segs2) : t = SegmentSpace(segs2[i])
    BY <1>3, <1>5, <1>6 DEF T
  <2>7. \A p \in Ord(ch2) \cap W : \E i \in 1..Len(segs2) : Holds(segs2[i], p)
    <3>1. \A p \in Ord(ch2) \cap W : Holds(segs2[1], p)
      BY <1>1, <1>7, <1>8, <1>10
    <3>. QED
      BY <1>3, <1>5, <3>1
  <2>8. \A q \in DOMAIN ch2 \cap W : ch2[q].size = 0 =>
          \E i \in 1..Len(segs2) : segs2[i].record # NULL /\ q = segs2[i].record + SegmentSize
    <3>1. \A q \in DOMAIN ch2 \cap W : ch2[q].size = 0 => q = f
      BY <1>1 DEF Ord
    <3>2. segs2[1].record # NULL /\ f = segs2[1].record + SegmentSize
      BY <1>1, <1>5 DEF f, NULL
    <3>. QED
      BY <1>3, <1>5, <3>1, <3>2
  <2>9. \A t \in Spaces(ch, segs) \ {s} : t.end <= top \/ end <= t.base
    BY <1>2
  <2>10. segs2 \in Seq(SegmentType)
    BY <1>5
  <2>11. \A p \in Direct(ch) : DirectSpace(ch, p) = s => FALSE
    BY <1>13
  <2>12. SpacesOk((Spaces(ch, segs) \ {s}) \cup T, rg)
    <3>1. (Spaces(ch, segs) \ {s}) \cup T = Spaces(ch, segs)
      BY <1>3 DEF T
    <3>. QED
      BY <1>2, <3>1 DEF Body
  <2>13. Body(ch, top, segs, rg)
    BY <1>2
  <2>. QED
    BY ONLY <1>4, <1>9, <1>11, <1>12, <2>1, <2>2, <2>3, <2>4, <2>5, <2>6, <2>7, <2>8, <2>9, <2>10, <2>11, <2>12, <2>13
       DEF Swapped
<1>17. Body(ch2, NULL, segs2, rg) /\ Spaces(ch2, segs2) = (Spaces(ch, segs) \ {s}) \cup T
  BY <1>16, SwapBody
<1>18. Spaces(ch2, segs2) = Spaces(ch, segs)
  BY <1>3, <1>17 DEF T
<1>19. AllRecorded(segs2)
  <2>1. csp # NULL
    BY <1>1 DEF NULL
  <2>. QED
    BY <1>5, <1>14, <2>1 DEF AllRecorded
<1>. QED
  BY <1>5, <1>9, <1>17, <1>18, <1>19 DEF W, segs2

-----------------------------------------------------------------------------
(* A new segment, all of which is top. *)

\* The segment add_segment pushes.
NewSegment(a, size) == [base |-> a, size |-> size, record |-> NULL]
Pushed(a, size, segs) == <<NewSegment(a, size)>> \o segs

\* The segments with it.
LEMMA PushedIs ==
    ASSUME NEW segs, segs \in Seq(SegmentType), NEW a \in Nat \ {0}, NEW size \in Nat \ {0}
    PROVE  /\ Pushed(a, size, segs) \in Seq(SegmentType) /\ Len(Pushed(a, size, segs)) = Len(segs) + 1
           /\ Pushed(a, size, segs)[1] = NewSegment(a, size)
           /\ \A i \in 1..Len(segs) : Pushed(a, size, segs)[i + 1] = segs[i]
           /\ \A i \in 1..Len(Pushed(a, size, segs)) : i # 1 => i - 1 \in 1..Len(segs) /\ Pushed(a, size, segs)[i] = segs[i - 1]
<1>. DEFINE g == NewSegment(a, size)
            h == <<g>>
<1>1. g \in SegmentType
  BY DEF SegmentType, NewSegment, NULL
<1>. HIDE DEF g
<1>2. h \in Seq(SegmentType) /\ Len(h) = 1 /\ h[1] = g
  BY <1>1
<1>3. Len(segs) \in Nat
  BY SequenceTypes
<1>. HIDE DEF h
<1>4. /\ h \o segs \in Seq(SegmentType) /\ Len(h \o segs) = 1 + Len(segs)
      /\ \A i \in 1..(1 + Len(segs)) : (h \o segs)[i] = IF i <= 1 THEN h[i] ELSE segs[i - 1]
  <2>1. /\ h \o segs \in Seq(SegmentType) /\ Len(h \o segs) = Len(h) + Len(segs)
        /\ \A i \in 1..(Len(h) + Len(segs)) : (h \o segs)[i] = IF i <= Len(h) THEN h[i] ELSE segs[i - Len(h)]
    BY <1>2, ConcatProperties
  <2>. QED
    BY <1>2, <2>1
<1>5. Pushed(a, size, segs) = h \o segs
  BY DEF Pushed, h, g
<1>. HIDE DEF Pushed
<1>6. (h \o segs)[1] = g
  BY <1>2, <1>3, <1>4
<1>7. \A i \in 1..Len(segs) : (h \o segs)[i + 1] = segs[i]
  BY <1>3, <1>4
<1>8. \A i \in 1..Len(h \o segs) : i # 1 => i - 1 \in 1..Len(segs) /\ (h \o segs)[i] = segs[i - 1]
  BY <1>3, <1>4
<1>9. Len(h \o segs) = Len(segs) + 1
  BY <1>3, <1>4
<1>. QED
  BY <1>4, <1>5, <1>6, <1>7, <1>8, <1>9 DEF g

\* The segments do not have top, and the new one is apart from all.
TopOpened(ch, segs, rg, ch2, rg2, a, size) ==
    /\ Body(ch, NULL, segs, rg) /\ AllRecorded(segs)
    /\ a \in Nat \ {0} /\ size \in Nat /\ TopFoot < size
    /\ \A t \in Spaces(ch, segs) : t.end <= a \/ a + size <= t.base
    /\ SameOutside(ch, ch2, Window(a, a + size)) /\ DOMAIN ch2 \cap Window(a, a + size) = {a}
    /\ Headed(ch2[a], size - TopFoot, FALSE, TRUE, 0)
    /\ SpacesOk(Spaces(ch, segs) \cup {Space(a, a + size)}, rg2)

\* A region without headers becomes the segment of top.
LEMMA OpenTop ==
    ASSUME NEW ch, NEW segs, NEW rg, NEW ch2, NEW rg2, NEW a, NEW size,
           TopOpened(ch, segs, rg, ch2, rg2, a, size)
    PROVE  /\ Body(ch2, a, Pushed(a, size, segs), rg2) /\ FirstHasTop(a, Pushed(a, size, segs))
           /\ DOMAIN ch \cap Window(a, a + size) = {}
<1>. DEFINE e == a + size
            W == Window(a, e)
            segs2 == Pushed(a, size, segs)
            s == Space(a, e)
            T == {s}
            y == e - TopFoot
<1>1. /\ Body(ch, NULL, segs, rg) /\ AllRecorded(segs)
      /\ a \in Nat \ {0} /\ size \in Nat /\ TopFoot < size /\ e \in Nat /\ a < e
      /\ \A t \in Spaces(ch, segs) : t.end <= a \/ e <= t.base
      /\ SameOutside(ch, ch2, W) /\ DOMAIN ch2 \cap W = {a}
      /\ HeaderOk(ch2[a]) /\ ch2[a].size = size - TopFoot /\ ~ch2[a].c /\ ch2[a].p
      /\ SpacesOk(Spaces(ch, segs) \cup {s}, rg2)
  BY DEF TopOpened, TopFoot, SegmentSize, MinChunk, Headed
<1>2. y \in Nat /\ a < y /\ y <= e /\ y + TopFoot = e /\ ch2[a].size > 0 /\ ch2[a].size = y - a /\ a + ch2[a].size = y
  <2>1. TopFoot = 5 /\ a \in Nat /\ size \in Nat /\ TopFoot < size /\ ch2[a].size = size - TopFoot
    BY <1>1 DEF TopFoot, SegmentSize, MinChunk
  <2>. QED
    BY ONLY <2>1
<1>3. \A q \in Nat : q \in W <=> a <= q /\ q < e
  BY <1>1 DEF Window
<1>4. W = a..(e - 1)
  BY DEF Window
<1>5. /\ segs2 \in Seq(SegmentType) /\ Len(segs2) = Len(segs) + 1
      /\ segs2[1].base = a /\ segs2[1].size = size /\ segs2[1].record = NULL
      /\ \A i \in 1..Len(segs) : segs2[i + 1] = segs[i]
      /\ \A i \in 1..Len(segs2) : i # 1 => i - 1 \in 1..Len(segs) /\ segs2[i] = segs[i - 1]
  <2>1. segs \in Seq(SegmentType) /\ size \in Nat \ {0}
    BY <1>1 DEF Body, TopFoot, SegmentSize, MinChunk
  <2>2. segs2[1] = NewSegment(a, size)
    BY <1>1, <2>1, PushedIs
  <2>3. segs2[1].base = a /\ segs2[1].size = size /\ segs2[1].record = NULL
    BY <2>2 DEF NewSegment
  <2>. HIDE DEF segs2
  <2>4. /\ segs2 \in Seq(SegmentType) /\ Len(segs2) = Len(segs) + 1
        /\ \A i \in 1..Len(segs) : segs2[i + 1] = segs[i]
        /\ \A i \in 1..Len(segs2) : i # 1 => i - 1 \in 1..Len(segs) /\ segs2[i] = segs[i - 1]
    BY SMTT(30), <1>1, <2>1, PushedIs DEF segs2
  <2>. QED
    BY <2>3, <2>4
<1>6. SegmentSpace(segs2[1]) = s /\ segs2[1].base + segs2[1].size = e /\ s.base = a /\ s.end = e
  BY <1>5 DEF SegmentSpace, Space
<1>7. Len(segs) \in Nat /\ 1 \in 1..Len(segs2) /\ \A i \in 1..Len(segs) : i + 1 \in 1..Len(segs2)
  <2>1. Len(segs) \in Nat
    BY <1>1, BodyTypes
  <2>. QED
    BY <1>5, <2>1
<1>8. After(ch2, a) = y
  BY <1>2 DEF After
<1>9. a \in FreeAt(ch2) /\ a \in Ord(ch2) /\ a \notin Direct(ch2)
  BY <1>1, <1>2 DEF FreeAt, Ord, Direct
<1>10. DOMAIN ch \cap W = {}
  BY <1>1, NoChunks
<1>. HIDE DEF W, segs2, s, y, e
<1>11. s \notin Spaces(ch, segs)
  BY <1>1, <1>6
<1>12. ASSUME NEW i \in 1..Len(segs)
       PROVE  /\ SegmentSpace(segs[i]) # s
              /\ segs[i].base + segs[i].size <= a \/ e <= segs[i].base
  <2>1. SegmentSpace(segs[i]) \in Spaces(ch, segs)
    BY DEF Spaces
  <2>. QED
    BY <1>1, <1>11, <2>1 DEF SegmentSpace
<1>13. ASSUME NEW p \in Direct(ch) PROVE DirectSpace(ch, p) # s
  <2>1. DirectSpace(ch, p) \in Spaces(ch, segs)
    BY DEF Spaces
  <2>. QED
    BY <1>11, <2>1
<1>14. Outside(ch, NULL, ch2, a, e)
  BY <1>1, <1>4, <1>12, ApartOutside
<1>15. /\ \A q \in DOMAIN ch2 : q \in W => q = a
       /\ \A q \in Ord(ch2) \cup Direct(ch2) : q \in DOMAIN ch2
       /\ a \in W
  BY <1>1 DEF Ord, Direct
<1>16. InsideOk(ch2, a, a, e)
  <2>1. \A p \in DOMAIN ch2 \cap W : p \in Nat \ {0} /\ HeaderOk(ch2[p])
    BY <1>1, <1>15
  <2>2. \A p \in Ord(ch2) \cap W : /\ After(ch2, p) <= e
                                   /\ \A q \in DOMAIN ch2 \cap W : q <= p \/ After(ch2, p) <= q
                                   /\ p # a => Tagged(ch2, p, After(ch2, p))
    BY <1>1, <1>2, <1>8, <1>15
  <2>3. \A q \in Ord(ch2) \cap W : ch2[q].p
    BY <1>1, <1>15
  <2>. QED
    BY <1>4, <2>1, <2>2, <2>3 DEF InsideOk
<1>17. TopSwap(ch2, NULL, a, a, e)
  BY <1>1, <1>4, <1>9, <1>15 DEF TopSwap, NULL
<1>18. Holds(segs2[1], a)
  BY <1>1, <1>5, <1>6 DEF Holds
<1>19. SegmentOk(ch2, a, segs2[1])
  <2>1. Limit(segs2[1], a) = a
    BY <1>5 DEF Limit
  <2>2. ASSUME NEW q \in DOMAIN ch2, Holds(segs2[1], q) PROVE q = a
    <3>1. a <= q /\ q < e
      BY <1>5, <1>6, <2>2 DEF Holds
    <3>2. CASE q \in DOMAIN ch
      <4>1. q \in Nat
        BY <1>1, <3>2, BodyTypes
      <4>. QED
        BY <1>3, <1>15, <3>1, <4>1
    <3>3. CASE q \notin DOMAIN ch
      BY <1>1, <1>15, <3>3 DEF SameOutside
    <3>. QED
      BY <3>2, <3>3
  <2>3. a \in DOMAIN ch2 /\ a <= a
    BY <1>1, <1>15
  <2>4. \A q \in DOMAIN ch2 : Holds(segs2[1], q) => q <= a /\ (q < a => q \in Ord(ch2))
    BY <1>1, <2>2
  <2>. QED
    BY ONLY <1>1, <1>2, <1>5, <1>6, <1>8, <1>9, <1>18, <2>1, <2>3, <2>4 DEF SegmentOk
<1>20. Swapped(ch, NULL, segs, rg, ch2, a, segs2, rg2, a, e, s, T)
  <2>1. \A i, j \in 1..Len(segs2) : segs2[i].base = segs2[j].base => i = j
    <3>1. \A i \in 1..Len(segs) : segs[i].base # a
      <4>1. \A i \in 1..Len(segs) : segs[i].size \in Nat \ {0} /\ segs[i].base \in Nat
        BY <1>1, BodyTypes
      <4>. QED
        BY <1>1, <1>12, <4>1
    <3>2. \A i, j \in 1..Len(segs) : segs[i].base = segs[j].base => i = j
      BY <1>1 DEF Body
    <3>3. ASSUME NEW i \in 1..Len(segs2), NEW j \in 1..Len(segs2), segs2[i].base = segs2[j].base PROVE i = j
      <4>1. CASE i = 1 \/ j = 1
        BY ZenonT(60), <1>5, <3>1, <3>3, <4>1
      <4>2. CASE i # 1 /\ j # 1
        <5>0. /\ i - 1 \in 1..Len(segs) /\ segs2[i] = segs[i - 1]
              /\ j - 1 \in 1..Len(segs) /\ segs2[j] = segs[j - 1]
          BY <1>5, <4>2
        <5>1. i - 1 = j - 1
          <6>. DEFINE k == i - 1
                      l == j - 1
          <6>1. k \in 1..Len(segs) /\ l \in 1..Len(segs) /\ segs[k].base = segs[l].base
            BY <3>3, <5>0
          <6>. HIDE DEF k, l
          <6>2. k = l
            BY <3>2, <6>1
          <6>. QED
            BY <6>2 DEF k, l
        <5>. QED
          BY <1>5, <1>7, <5>1
      <4>. QED
        BY <4>1, <4>2
    <3>. QED
      BY <3>3
  <2>2. \A i \in 1..Len(segs2) :
          \/ SegmentOk(ch2, a, segs2[i]) /\ SegmentSpace(segs2[i]) \in T
          \/ \E j \in 1..Len(segs) : /\ segs2[i] = segs[j] /\ SegmentSpace(segs[j]) # s
                                     /\ segs[j].record # NULL \/ a = NULL
    BY <1>1, <1>5, <1>6, <1>12, <1>19 DEF AllRecorded
  <2>3. \A j \in 1..Len(segs) : \E i \in 1..Len(segs2) : segs2[i] = segs[j]
    BY <1>5, <1>7
  <2>4. \A j \in 1..Len(segs) : SegmentSpace(segs[j]) # s
    BY <1>12
  <2>5. \A p \in Direct(ch2) \cap W : FALSE
    BY <1>9, <1>15
  <2>6. \A t \in T : \E i \in 1..Len(segs2) : t = SegmentSpace(segs2[i])
    BY <1>6, <1>7
  <2>7. \A p \in Ord(ch2) \cap W : \E i \in 1..Len(segs2) : Holds(segs2[i], p)
    BY <1>7, <1>15, <1>18
  <2>8. \A q \in DOMAIN ch2 \cap W : ch2[q].size # 0
    BY <1>2, <1>15
  <2>9. \A t \in Spaces(ch, segs) \ {s} : t.end <= a \/ e <= t.base
    BY <1>1
  <2>10. segs2 \in Seq(SegmentType)
    BY <1>5
  <2>11. SpacesOk((Spaces(ch, segs) \ {s}) \cup T, rg2)
    <3>1. (Spaces(ch, segs) \ {s}) \cup T = Spaces(ch, segs) \cup {s}
      BY <1>11
    <3>. QED
      BY <1>1, <3>1
  <2>12. Body(ch, NULL, segs, rg)
    BY <1>1
  <2>. HIDE DEF T
  <2>. QED
    BY ONLY <1>4, <1>13, <1>14, <1>16, <1>17, <2>1, <2>2, <2>3, <2>4, <2>5, <2>6, <2>7, <2>8, <2>9, <2>10, <2>11, <2>12
       DEF Swapped
<1>21. Body(ch2, a, segs2, rg2)
  BY <1>20, SwapBody
<1>22. FirstHasTop(a, segs2)
  <2>1. Len(segs2) > 0
    BY <1>5, <1>7
  <2>2. \A i \in 1..Len(segs2) : segs2[i].record = NULL <=> i = 1
    BY SMTT(30), <1>1, <1>5 DEF AllRecorded
  <2>. QED
    BY <1>1, <2>1, <2>2 DEF FirstHasTop, NULL
<1>. QED
  BY <1>10, <1>21, <1>22 DEF W, segs2, e

-----------------------------------------------------------------------------
(* Top becomes larger or smaller. *)

\* Nothing but top is from top up to the end of its segment, or to the next space.
LEMMA TopAlone ==
    ASSUME NEW ch, NEW top, NEW segs, NEW rg, Body(ch, top, segs, rg), FirstHasTop(top, segs), top # NULL,
           NEW e \in Nat, segs[1].base + segs[1].size <= e,
           \A t \in Spaces(ch, segs) \ {SegmentSpace(segs[1])} : t.end <= top \/ e <= t.base
    PROVE  DOMAIN ch \cap Window(top, e) = {top}
<1>1. top \in FreeAt(ch) /\ top \in DOMAIN ch
  BY FirstIs
<1>2. HeaderOk(ch[top]) /\ ch[top].p
  BY <1>1, BodyTypes DEF FreeAt
<1>3. SameOutside(ch, ch, Window(top, e))
  BY DEF SameOutside
<1>4. AtTop(ch, top, segs, rg, ch, e)
  BY <1>1, <1>2, <1>3 DEF AtTop
<1>. QED
  BY <1>4, TopOutside

\* A header written inside of the window leaves everything outside of it alone.
LEMMA PlacedIn ==
    ASSUME NEW ch, DOMAIN ch \subseteq Nat, NEW b \in Nat, NEW e \in Nat, NEW a \in Nat, b <= a,
           NEW h, h.size \in Nat, a < e, a + h.size <= e,
           NEW ch2, ch2 = Placed(ch, a, h)
    PROVE  /\ SameOutside(ch, ch2, Window(b, e)) /\ ch2[a] = h /\ a \in DOMAIN ch2
           /\ DOMAIN ch2 \subseteq Nat
           /\ \A q \in DOMAIN ch2 : q = a \/ (q \in DOMAIN ch /\ (q < a \/ a + h.size <= q) /\ ch2[q] = ch[q])
           /\ \A q \in DOMAIN ch : (q <= a \/ a + h.size <= q) => q \in DOMAIN ch2
<1>. DEFINE I == (a + 1)..(a + h.size - 1)
            W == Window(b, e)
            s == h.size
<1>1. \A q \in Nat : q \in I <=> a < q /\ q < a + s
  <2>1. a + h.size - 1 = a + s - 1
    OBVIOUS
  <2>. QED
    OBVIOUS
<1>2. \A q \in Nat : q \in W <=> b <= q /\ q < e
  BY DEF Window
<1>3. /\ DOMAIN ch2 = (DOMAIN ch \ I) \cup {a}
      /\ \A q \in DOMAIN ch2 : ch2[q] = IF q = a THEN h ELSE ch[q]
  BY DEF Placed
<1>. HIDE DEF I, W
<1>4. ch2[a] = h /\ a \in DOMAIN ch2
  BY <1>3
<1>5. \A q \in DOMAIN ch2 : q = a \/ (q \in DOMAIN ch /\ (q < a \/ a + s <= q) /\ ch2[q] = ch[q])
  BY <1>1, <1>3
<1>6. \A q \in DOMAIN ch : (q <= a \/ a + s <= q) => q \in DOMAIN ch2
  BY <1>1, <1>3
<1>7. a \in W
  BY <1>2
<1>8. \A q \in DOMAIN ch : q \notin W => q \in DOMAIN ch2 /\ ch2[q] = ch[q]
  BY <1>1, <1>2, <1>3, <1>7
<1>9. \A q \in DOMAIN ch2 : q \notin W => q \in DOMAIN ch
  BY <1>3, <1>7
<1>10. SameOutside(ch, ch2, W)
  <2>1. DOMAIN ch2 \ W = DOMAIN ch \ W
    BY <1>8, <1>9
  <2>. QED
    BY <1>8, <2>1 DEF SameOutside
<1>11. DOMAIN ch2 \subseteq Nat
  BY <1>3
<1>. QED
  BY <1>4, <1>5, <1>6, <1>10, <1>11 DEF W

\* One change after another.
LEMMA SameOutsideTwice ==
    ASSUME NEW ch, NEW c, NEW d, NEW W, SameOutside(ch, c, W), SameOutside(c, d, W)
    PROVE  SameOutside(ch, d, W)
BY DEF SameOutside

\* The same for a state.
TopChanged(m, n, e, newend) ==
    /\ Sound(m) /\ m.top # NULL
    /\ IsState(n) /\ SameLists(n, m) /\ n.top = m.top /\ n.topsize = n.chunks[n.top].size
    /\ n.least_addr = m.least_addr /\ n.aborted = m.aborted
    /\ n.segs = Grown(m.segs, newend) /\ Counts(n, m)
    /\ TopResized(m.chunks, m.top, m.segs, m.regions, n.chunks, n.regions, e, newend)

\* The heap stays sound when top and its segment end elsewhere.
LEMMA TopChangedSound ==
    ASSUME NEW m, NEW n, NEW e, NEW newend, TopChanged(m, n, e, newend)
    PROVE  Sound(n) /\ Frame(n, m, {}, {}) /\ n.top \in FreeAt(n.chunks)
<1>. DEFINE ch == m.chunks
            ch2 == n.chunks
            W == Window(m.top, e)
<1>1. /\ Whole(m) /\ Binned(m, {}) /\ ~m.aborted /\ Low(m) /\ m.top # NULL
      /\ IsState(n) /\ SameLists(n, m) /\ n.top = m.top /\ n.topsize = n.chunks[n.top].size
      /\ n.least_addr = m.least_addr /\ n.aborted = m.aborted
      /\ n.segs = Grown(m.segs, newend)
      /\ TopResized(ch, m.top, m.segs, m.regions, ch2, n.regions, e, newend)
  BY DEF TopChanged, Sound, Whole
<1>2. SameOutside(ch, ch2, W) /\ DOMAIN ch2 \cap W = {m.top}
  BY <1>1 DEF TopResized, AtTop
<1>3. /\ Body(ch2, m.top, n.segs, n.regions) /\ FirstHasTop(m.top, n.segs)
      /\ DOMAIN ch \cap W = {m.top} /\ m.top \in FreeAt(ch2)
      /\ Len(n.segs) = Len(m.segs)
      /\ \A i \in 1..Len(m.segs) : n.segs[i].record = m.segs[i].record
  BY <1>1, ResizeTop
<1>4. Structure(ch2, n.top, n.segs, n.regions)
  BY <1>1, <1>3, StructureIsBody
<1>5. DOMAIN ch2 = DOMAIN ch
  <2>. HIDE DEF ch, ch2, W
  <2>. QED
    BY <1>2, <1>3 DEF SameOutside
<1>6. Low(n)
  BY <1>1, <1>5 DEF Low
<1>7. Whole(n)
  BY <1>1, <1>4, <1>6 DEF Whole
<1>8. m.top \in FreeAt(ch)
  BY <1>1, ChunkTypes DEF Whole
<1>9. Used(m) \cap FreeAt(ch) = {} /\ Used(n) \cap FreeAt(ch2) = {}
  BY UsedNotFree
<1>10. \A q \in Used(m) : q \in DOMAIN ch
  BY DEF Used, Ord, Direct
<1>11. \A q \in Used(n) : q \in DOMAIN ch2
  BY DEF Used, Ord, Direct
<1>12. Used(m) \cap W = {} /\ Used(n) \cap W = {}
  <2>. HIDE DEF ch, ch2, W
  <2>1. \A q \in DOMAIN ch : q \in W => q = m.top
    BY <1>3
  <2>2. \A q \in DOMAIN ch2 : q \in W => q = m.top
    BY <1>2
  <2>. QED
    BY <1>3, <1>8, <1>9, <1>10, <1>11, <2>1, <2>2
<1>13. FreeAt(ch) \cap W \subseteq {m.top} /\ FreeAt(ch2) \cap W \subseteq {n.top}
  <2>1. FreeAt(ch) \subseteq DOMAIN ch /\ FreeAt(ch2) \subseteq DOMAIN ch2
    BY DEF FreeAt
  <2>. HIDE DEF ch, ch2, W
  <2>. QED
    BY <1>1, <1>2, <1>3, <2>1
<1>14. SegmentRecords(n.segs) = SegmentRecords(m.segs)
  <2>1. {n.segs[i].record : i \in 1..Len(n.segs)} = {m.segs[i].record : i \in 1..Len(m.segs)}
    BY <1>3
  <2>. QED
    BY <2>1 DEF SegmentRecords
<1>15. Exchanged(m, n, {}, W, {}, {})
  <2>1. n.topsize = IF n.top = NULL THEN 0 ELSE n.chunks[n.top].size
    BY <1>1
  <2>2. FreeAt(m.chunks) \cap W \subseteq {m.top} \cup {}
    BY <1>13
  <2>3. SegmentRecords(n.segs) \ W = SegmentRecords(m.segs) \ W
    BY <1>14
  <2>4. {} \subseteq W /\ m.dv \notin {}
    OBVIOUS
  <2>5. Counts(n, m)
    BY DEF TopChanged
  <2>. HIDE DEF W
  <2>. QED
    BY ONLY <1>1, <1>2, <1>7, <1>12, <1>13, <2>1, <2>2, <2>3, <2>4, <2>5 DEF Exchanged
<1>. QED
  BY <1>1, <1>3, <1>15, ExchangeSound

-----------------------------------------------------------------------------
(* A region that follows the segment with top. *)

\* A header written at the start of the window leaves everything outside of it alone.
LEMMA TopPlaced ==
    ASSUME NEW ch, DOMAIN ch \subseteq Nat, NEW b \in Nat, NEW e \in Nat, NEW h, h.size \in Nat, b < e, b + h.size <= e,
           NEW ch2, ch2 = Placed(ch, b, h)
    PROVE  /\ SameOutside(ch, ch2, Window(b, e)) /\ ch2[b] = h /\ b \in DOMAIN ch2
           /\ \A q \in DOMAIN ch2 : q = b \/ q \in DOMAIN ch
<1>1. b <= b
  OBVIOUS
<1>2. PICK a \in Nat : a = b
  OBVIOUS
<1>3. /\ SameOutside(ch, ch2, Window(b, e)) /\ ch2[a] = h /\ a \in DOMAIN ch2
      /\ \A q \in DOMAIN ch2 : q = a \/ q \in DOMAIN ch
  <2>1. b <= a /\ a < e /\ a + h.size <= e /\ ch2 = Placed(ch, a, h)
    BY <1>2
  <2>. QED
    BY ONLY <2>1, PlacedIn, DOMAIN ch \subseteq Nat, b \in Nat, e \in Nat, a \in Nat, h.size \in Nat
<1>. QED
  BY <1>2, <1>3

\* InitTop writes the header of top.
LEMMA InitTopIs ==
    ASSUME NEW m, IsState(m), NEW a, NEW s, NEW n, n = InitTop(m, a, s)
    PROVE  Topped(n, m, a, s) /\ n.chunks = Placed(m.chunks, a, FreeHeader(s))
<1>. DEFINE k == SetTop(m, a, s)
<1>1. Topped(k, m, a, s) /\ k.chunks = Placed(m.chunks, a, FreeHeader(s))
  BY WritesNothing, SetTopPut
<1>2. n = [k EXCEPT !.trim_check = TrimThreshold]
  BY DEF InitTop
<1>. HIDE DEF k
<1>3. IsState(k)
  BY <1>1 DEF Topped, SameRest
<1>4. /\ IsState(n) /\ n.chunks = k.chunks /\ n.bins = k.bins /\ n.dv = k.dv /\ n.dvsize = k.dvsize
      /\ n.top = k.top /\ n.topsize = k.topsize /\ n.segs = k.segs /\ n.regions = k.regions
      /\ n.least_addr = k.least_addr /\ n.use_mmap = k.use_mmap /\ n.aborted = k.aborted
      /\ n.footprint = k.footprint
  BY <1>2, <1>3 DEF IsState, Fields
<1>5. Topped(n, m, a, s)
  BY <1>1, <1>4 DEF Topped, SameRest, SameBins
<1>. QED
  BY <1>1, <1>4, <1>5

\* Of the segments, only one has top, and only one ends at an address.
LEMMA OneSegment ==
    ASSUME NEW ch, NEW top, NEW segs, NEW rg, Body(ch, top, segs, rg), FirstHasTop(top, segs), top # NULL,
           NEW i \in 1..Len(segs)
    PROVE  /\ Holds(segs[i], top) <=> i = 1
           /\ \A j \in 1..Len(segs) : segs[i].base + segs[i].size = segs[j].base + segs[j].size => i = j
<1>1. /\ 1 \in 1..Len(segs) /\ Len(segs) \in Nat /\ top \in Nat /\ segs[1].base <= top
      /\ top < segs[1].base + segs[1].size
  BY FirstIs
<1>2. \A j \in 1..Len(segs) : /\ segs[j].base \in Nat /\ segs[j].size \in Nat \ {0}
                              /\ SegmentSpace(segs[j]) \in Spaces(ch, segs)
  BY BodyTypes DEF Spaces
<1>3. \A j, l \in 1..Len(segs) : j # l => Separate(SegmentSpace(segs[j]), SegmentSpace(segs[l]))
  <2>1. ASSUME NEW j \in 1..Len(segs), NEW l \in 1..Len(segs), j # l
        PROVE Separate(SegmentSpace(segs[j]), SegmentSpace(segs[l]))
    <3>1. SegmentSpace(segs[j]) # SegmentSpace(segs[l])
      BY <2>1, SpacesDiffer
    <3>. QED
      BY <1>2, <3>1, SpaceFacts DEF Body
  <2>. QED
    BY <2>1
<1>4. \A j, l \in 1..Len(segs) : j # l => segs[j].base + segs[j].size <= segs[l].base
                                          \/ segs[l].base + segs[l].size <= segs[j].base
  BY <1>3 DEF Separate, SegmentSpace
<1>5. Holds(segs[1], top)
  BY <1>1 DEF Holds
<1>6. ASSUME Holds(segs[i], top), i # 1 PROVE FALSE
  BY SMTT(30), <1>1, <1>2, <1>4, <1>6 DEF Holds
<1>7. ASSUME NEW j \in 1..Len(segs), segs[i].base + segs[i].size = segs[j].base + segs[j].size, i # j PROVE FALSE
  <2>1. segs[i].base + segs[i].size <= segs[j].base \/ segs[j].base + segs[j].size <= segs[i].base
    BY <1>4, <1>7
  <2>2. /\ segs[i].base \in Nat /\ segs[i].size \in Nat \ {0}
        /\ segs[j].base \in Nat /\ segs[j].size \in Nat \ {0}
    BY <1>2
  <2>. QED
    BY ONLY SMTT(30), <1>7, <2>1, <2>2
<1>. QED
  BY <1>5, <1>6, <1>7

\* A region that is new.
NewRegion(m, a, size) ==
    /\ a \in Nat \ {0} /\ size \in Nat \ {0}
    /\ \A r \in DOMAIN m.regions : a + size <= r \/ r + m.regions[r] <= a

\* It counts.
LEMMA NewRegionCounts ==
    ASSUME NEW m, Whole(m), NEW a, NEW size, NewRegion(m, a, size),
           NEW n, n.regions = With(m.regions, a, size), n.footprint = m.footprint + size
    PROVE  Counts(n, m)
<1>1. RegionsApart(m.regions)
  BY SpacesApart DEF Whole, Structure
<1>2. a \in Nat /\ size \in Nat /\ size > 0 /\ \A r \in DOMAIN m.regions : a + size <= r \/ r + m.regions[r] <= a
  BY DEF NewRegion
<1>. QED
  BY <1>1, <1>2, MapCounts

\* It is apart from what is there.
LEMMA NewSpaceIs ==
    ASSUME NEW m, Whole(m), NEW a, NEW size, NewRegion(m, a, size),
           NEW S, S = Spaces(m.chunks, m.segs), NEW e, e = a + size
    PROVE  /\ SpacesOk(S \cup {Space(a, e)}, With(m.regions, a, size))
           /\ Space(a, e) \notin S /\ e \in Nat /\ a < e
           /\ \A t \in S : t.base \in Nat /\ t.end \in Nat /\ t.base < t.end /\ (t.end <= a \/ e <= t.base)
           /\ DOMAIN m.chunks \cap Window(a, e) = {}
<1>1. /\ a \in Nat \ {0} /\ size \in Nat \ {0} /\ e \in Nat /\ a < e
      /\ \A r \in DOMAIN m.regions : a + size <= r \/ r + m.regions[r] <= a
  BY DEF NewRegion
<1>2. Body(m.chunks, m.top, m.segs, m.regions)
  BY StructureIsBody DEF Whole
<1>3. SpacesOk(S, m.regions)
  BY <1>2 DEF Body
<1>. DEFINE s == Space(a, a + size)
<1>4. SpacesOk(S \cup {s}, With(m.regions, a, size)) /\ \A t \in S : Separate(s, t)
  <2>. HIDE DEF s
  <2>1. s = Space(a, a + size)
    BY DEF s
  <2>. QED
    BY <1>1, <1>3, <2>1, AddSpace
<1>5. \A t \in S : t.base \in Nat /\ t.end \in Nat /\ t.base < t.end
  BY <1>3, SpaceFacts
<1>6. \A t \in S : t.end <= a \/ e <= t.base
  BY <1>4 DEF Separate, Space
<1>7. s.base = a /\ s.end = e
  BY DEF Space
<1>8. s \notin S
  <2>. HIDE DEF s
  <2>. QED
    BY <1>1, <1>6, <1>7
<1>9. DOMAIN m.chunks \cap Window(a, e) = {}
  BY SMTT(30), <1>1, <1>2, <1>6, NoChunks
<1>. QED
  BY <1>1, <1>4, <1>5, <1>6, <1>8, <1>9

\* The heap has more room in top, or a new top.
Widened(n, m, room) == Sound(n) /\ Frame(n, m, {}, {}) /\ n.top # NULL /\ n.topsize = room

\* A region behind the segment of top makes top larger.
LEMMA AppendIs ==
    ASSUME NEW m, Sound(m), m.top # NULL, NEW a, NEW size, NewRegion(m, a, size),
           NEW i \in 1..Len(m.segs), m.segs[i].base + m.segs[i].size = a, Holds(m.segs[i], m.top),
           NEW k, k = Map(m, a, size), NEW x, x = [k EXCEPT !.segs[i].size = @ + size],
           NEW n, n = InitTop(x, m.top, m.topsize + size)
    PROVE  Widened(n, m, m.topsize + size)
<1>. DEFINE ch == m.chunks
            segs == m.segs
            e == a + size
            S == Spaces(ch, segs)
            s == SegmentSpace(segs[1])
            s2 == Space(a, e)
            rg2 == With(m.regions, a, size)
            W == Window(m.top, e)
            h == FreeHeader(m.topsize + size)
<1>1. Whole(m) /\ Binned(m, {}) /\ IsState(m)
  BY DEF Sound, Whole
<1>2. Body(ch, m.top, segs, m.regions) /\ FirstHasTop(m.top, segs)
  BY <1>1, StructureIsBody DEF Whole
<1>3. i = 1 /\ segs[1].base + segs[1].size = a
  BY <1>2, OneSegment
<1>4. /\ 1 \in 1..Len(segs) /\ Len(segs) \in Nat
      /\ segs[1].base \in Nat \ {0} /\ segs[1].size \in Nat
      /\ m.top \in Nat /\ m.top \in FreeAt(ch) /\ m.top \in DOMAIN ch
      /\ segs[1].base <= m.top /\ m.top < a
      /\ After(ch, m.top) + TopFoot = a /\ s \in S
  BY <1>2, <1>3, FirstIs
<1>5. m.topsize = ch[m.top].size
  BY <1>1 DEF Binned
<1>6. ch[m.top].size \in Nat /\ ch[m.top].size > 0
  BY <1>1, <1>4, ChunkTypes DEF Whole, Ord
<1>7. /\ SpacesOk(S \cup {s2}, rg2) /\ s2 \notin S /\ e \in Nat /\ a < e
      /\ \A t \in S : t.base \in Nat /\ t.end \in Nat /\ t.base < t.end /\ (t.end <= a \/ e <= t.base)
  BY ZenonT(60), <1>1, NewSpaceIs
<1>8. s.base = segs[1].base /\ s.end = a /\ s2.base = a /\ s2.end = e
  BY <1>3 DEF SegmentSpace, Space
<1>9. a \in Nat /\ size \in Nat
  BY DEF NewRegion
<1>10. \A t \in S \ {s} : t.end <= m.top \/ e <= t.base
  <2>. HIDE DEF S, s
  <2>1. ASSUME NEW t \in S, t # s PROVE t.end <= m.top \/ e <= t.base
    <3>1. Separate(s, t)
      BY <1>2, <1>4, <2>1, SpaceFacts DEF Body, S
    <3>2. t.end <= s.base \/ s.end <= t.base
      BY <3>1 DEF Separate
    <3>3. t.base \in Nat /\ t.end \in Nat /\ t.base < t.end /\ (t.end <= a \/ e <= t.base)
      BY <1>7
    <3>. HIDE DEF e
    <3>. QED
      BY SMTT(30), <1>4, <1>7, <1>8, <1>9, <3>2, <3>3
  <2>. QED
    BY <2>1
<1>11. SpacesOk((S \ {s}) \cup {Space(segs[1].base, e)}, rg2)
  <2>. DEFINE S2 == S \cup {s2}
  <2>. HIDE DEF S, s, s2, e, rg2
  <2>1. s \in S2 /\ s2 \in S2 /\ s.end = s2.base /\ SpacesOk(S2, rg2)
    BY <1>4, <1>7, <1>8
  <2>2. S2 \ {s, s2} = S \ {s}
    BY <1>7
  <2>. HIDE DEF S2
  <2>3. SpacesOk((S2 \ {s, s2}) \cup {Space(s.base, s2.end)}, rg2)
    BY <2>1, JoinSpaces
  <2>. QED
    BY <1>8, <2>2, <2>3
<1>12. Given(k, m, a, size, m.least_addr)
  BY <1>1, MapIs
<1>13. /\ IsState(x) /\ x.chunks = ch /\ x.regions = rg2 /\ x.top = m.top
       /\ x.least_addr = m.least_addr /\ x.aborted = m.aborted /\ x.use_mmap = m.use_mmap
       /\ x.bins = m.bins /\ x.dv = m.dv /\ x.dvsize = m.dvsize
       /\ x.segs = [segs EXCEPT ![1].size = @ + size]
       /\ x.regions = k.regions /\ x.footprint = k.footprint
  BY <1>3, <1>12 DEF Given, IsState, Fields, SameLists, SameDv, SameTop
<1>14. x.segs = Grown(segs, e)
  <2>1. segs[1].size + size = e - segs[1].base
    <3>1. segs[1].base + segs[1].size = a /\ segs[1].base \in Nat /\ segs[1].size \in Nat /\ e = a + size
      BY <1>3, <1>4
    <3>. QED
      BY ONLY SMTT(30), <1>9, <3>1
  <2>2. Grown(segs, e) = [segs EXCEPT ![1].size = e - segs[1].base]
    BY DEF Grown
  <2>3. [segs EXCEPT ![1].size = @ + size] = [segs EXCEPT ![1].size = segs[1].size + size]
    OBVIOUS
  <2>. HIDE DEF segs, e
  <2>. QED
    BY <1>13, <2>1, <2>2, <2>3
<1>15. Topped(n, x, m.top, m.topsize + size) /\ n.chunks = Placed(ch, m.top, h)
  <2>. DEFINE r == m.topsize + size
  <2>1. n = InitTop(x, m.top, r) /\ h = FreeHeader(r)
    OBVIOUS
  <2>. HIDE DEF r, h
  <2>2. Topped(n, x, m.top, r) /\ n.chunks = Placed(x.chunks, m.top, FreeHeader(r))
    BY ONLY <1>13, <2>1, InitTopIs
  <2>. QED
    BY <1>13, <2>1, <2>2 DEF r
<1>16. h.size = m.topsize + size /\ ~h.c /\ h.p /\ h.foot = 0 /\ HeaderOk(h)
  BY <1>5, <1>6, <1>9 DEF FreeHeader, Header, HeaderOk
<1>17. m.top + h.size + TopFoot = e /\ h.size \in Nat /\ TopFoot = 5 /\ m.top + h.size <= e /\ m.top < e
  <2>1. m.top + ch[m.top].size + TopFoot = a
    BY <1>4 DEF After
  <2>2. TopFoot = 5
    BY SMTT(30) DEF TopFoot, SegmentSize, MinChunk
  <2>3. /\ m.top \in Nat /\ m.top < a /\ h.size = ch[m.top].size + size /\ ch[m.top].size \in Nat
        /\ a \in Nat /\ size \in Nat /\ e = a + size
    BY <1>4, <1>5, <1>6, <1>9, <1>16
  <2>. HIDE DEF h, e, ch
  <2>4. m.top + h.size + TopFoot = e
    <3>1. ASSUME NEW t \in Nat, NEW c \in Nat, NEW z \in Nat, NEW b \in Nat, t + c + 5 = b
          PROVE  t + (c + z) + 5 = b + z
      BY ONLY <3>1
    <3>2. m.top + (ch[m.top].size + size) + 5 = a + size
      BY ONLY SMTT(30), <2>1, <2>2, <2>3, <3>1
    <3>. QED
      BY ONLY <2>2, <2>3, <3>2
  <2>5. h.size \in Nat /\ m.top + h.size <= e /\ m.top < e
    BY ONLY SMTT(30), <2>1, <2>2, <2>3
  <2>. QED
    BY <2>2, <2>4, <2>5
<1>18. DOMAIN ch \cap W = {m.top}
  <2>1. segs[1].base + segs[1].size <= e
    BY <1>3, <1>7, <1>9
  <2>. QED
    BY <1>2, <1>7, <1>10, <2>1, TopAlone
<1>. HIDE DEF W, h, e, S, s, rg2
<1>19. /\ SameOutside(ch, n.chunks, W) /\ n.chunks[m.top] = h /\ m.top \in DOMAIN n.chunks
       /\ DOMAIN n.chunks \cap W = {m.top}
  <2>1. DOMAIN ch \subseteq Nat
    BY <1>2, BodyTypes
  <2>2. /\ SameOutside(ch, n.chunks, Window(m.top, e)) /\ n.chunks[m.top] = h /\ m.top \in DOMAIN n.chunks
        /\ \A q \in DOMAIN n.chunks : q = m.top \/ q \in DOMAIN ch
    <3>1. m.top \in Nat /\ e \in Nat /\ m.top <= m.top /\ n.chunks = Placed(ch, m.top, h)
          /\ h.size \in Nat /\ m.top + h.size <= e /\ m.top < e
      BY <1>4, <1>7, <1>15, <1>17
    <3>. HIDE DEF ch
    <3>. QED
      BY ONLY <2>1, <3>1, TopPlaced
  <2>3. m.top \in W
    BY <1>18
  <2>. QED
    BY <1>18, <2>2, <2>3 DEF W
<1>20. TopResized(ch, m.top, segs, m.regions, n.chunks, n.regions, e, e)
  <2>1. AtTop(ch, m.top, segs, m.regions, n.chunks, e)
    <3>1. segs[1].base + segs[1].size <= e
      BY <1>3, <1>7, <1>9
    <3>. QED
      BY <1>2, <1>7, <1>10, <1>16, <1>19, <3>1 DEF AtTop, W, S, s
  <2>2. m.top + TopFoot < e /\ h.size = e - TopFoot - m.top
    <3>1. h.size \in Nat /\ h.size > 0
      BY SMTT(30), <1>5, <1>6, <1>9, <1>16
    <3>. QED
      BY ONLY SMTT(30), <1>4, <1>7, <1>17, <3>1
  <2>3. n.regions = rg2
    BY <1>13, <1>15 DEF Topped, SameRest
  <2>4. e \in Nat /\ e <= e
    BY <1>7
  <2>5. SpacesOk((Spaces(ch, segs) \ {SegmentSpace(segs[1])}) \cup {Space(segs[1].base, e)}, n.regions)
    BY <1>11, <2>3 DEF S, s
  <2>6. /\ DOMAIN n.chunks \cap Window(m.top, e) = {m.top}
        /\ ~n.chunks[m.top].c /\ n.chunks[m.top].size = e - TopFoot - m.top
    BY <1>16, <1>19, <2>2 DEF W
  <2>. HIDE DEF ch, segs
  <2>. QED
    BY ONLY <2>1, <2>2, <2>4, <2>5, <2>6 DEF TopResized
<1>20a. Counts(n, m)
  <2>1. Counts(k, m)
    BY <1>1, <1>12, NewRegionCounts DEF Given
  <2>2. Counts(x, k)
    BY <1>13, CountsSame
  <2>3. Counts(n, x)
    BY <1>15, CountsSame DEF Topped, SameRest
  <2>. QED
    BY <2>1, <2>2, <2>3 DEF Counts
<1>21. TopChanged(m, n, e, e)
  <2>1. /\ IsState(n) /\ SameLists(n, m) /\ n.top = m.top /\ n.topsize = h.size
        /\ n.least_addr = m.least_addr /\ n.aborted = m.aborted /\ n.segs = Grown(segs, e)
    BY SMTT(30), <1>13, <1>14, <1>15, <1>16 DEF Topped, SameRest, SameBins, SameLists, SameDv
  <2>2. n.topsize = n.chunks[n.top].size
    BY <1>19, <2>1
  <2>. QED
    BY ONLY SMTT(30), Sound(m), m.top # NULL, <1>20, <1>20a, <2>1, <2>2 DEF TopChanged
<1>22. Sound(n) /\ Frame(n, m, {}, {}) /\ n.top = m.top
  <2>1. n.top = m.top
    BY <1>21 DEF TopChanged
  <2>. QED
    BY SMTT(30), <1>21, <2>1, TopChangedSound
<1>. QED
  BY <1>15, <1>22 DEF Widened, Topped

-----------------------------------------------------------------------------
(* The end of top is given back. *)

\* What sys_trim would release is less than top.
LEMMA TrimExtraIs ==
    ASSUME NEW topsize \in Nat, NEW pad \in Nat, pad < topsize, NEW extra, extra = TrimExtra(topsize, pad)
    PROVE  extra \in Nat /\ extra < topsize - pad
<1>. DEFINE G == Granularity
            x == topsize - pad
            y == x + (G - 1)
            q == y \div G
<1>1. G \in Nat \ {0} /\ x \in Nat /\ x > 0
  <2>1. G \in Nat /\ MinLarge \in Nat /\ G >= MinLarge + 5
    BY GranularityAssumption
  <2>. QED
    BY <2>1
<1>2. y \in Nat /\ y >= G /\ y = x + G - 1
  BY <1>1
<1>. HIDE DEF G, x, y
<1>3. q \in Nat /\ G * q <= y /\ y < G * q + G /\ G * q \in Nat
  BY <1>1, <1>2, DivIs
<1>4. extra = (q - 1) * G
  BY DEF TrimExtra, G, x, y
<1>. HIDE DEF q
<1>5. (q - 1) * G = G * q - G
  BY <1>1, <1>3
<1>6. q # 0
  <2>1. ASSUME q = 0 PROVE G * q = 0
    BY <1>1, <2>1
  <2>. QED
    BY <1>1, <1>2, <1>3, <2>1
<1>7. G * q >= G
  <2>1. PICK k \in Nat : q = k + 1
    <3>1. q - 1 \in Nat /\ q = (q - 1) + 1
      BY <1>3, <1>6
    <3>. QED
      BY <3>1
  <2>2. G * (k + 1) = G * k + G /\ G * k \in Nat
    BY <1>1
  <2>. QED
    BY <1>1, <2>1, <2>2
<1>8. extra \in Nat /\ extra < x
  BY <1>1, <1>2, <1>3, <1>4, <1>5, <1>7
<1>. QED
  BY <1>8 DEF x

\* Callers hold what they held.
Kept(n, m) == Sound(n) /\ Frame(n, m, {}, {})

\* Nothing done keeps what callers hold.
LEMMA KeptSame ==
    ASSUME NEW m, Sound(m) PROVE Kept(m, m)
BY DEF Kept, Frame, Counts

\* Top loses what is from e up to the end of its segment.
Trimming(ch, top, segs, rg, ch2, rg2, r, e, end) ==
    /\ Body(ch, top, segs, rg) /\ FirstHasTop(top, segs) /\ top # NULL
    /\ end = segs[1].base + segs[1].size /\ e \in Nat /\ e < end /\ e \in DOMAIN rg
    /\ r \in Nat /\ r > TopFoot /\ top + r + TopFoot = e
    /\ ch2 = Placed(Restrict(ch, DOMAIN ch \ Window(e, end)), top, FreeHeader(r))
    /\ rg2 = Restrict(rg, DOMAIN rg \ Window(e, end))

\* A smaller top.
LEMMA TrimmedChunks ==
    ASSUME NEW ch, NEW top, NEW segs, NEW rg, NEW ch2, NEW rg2, NEW r, NEW e, NEW end,
           Trimming(ch, top, segs, rg, ch2, rg2, r, e, end)
    PROVE  TopResized(ch, top, segs, rg, ch2, rg2, end, e) /\ ch2[top] = FreeHeader(r)
<1>. DEFINE S == Spaces(ch, segs)
            s == SegmentSpace(segs[1])
            W == Window(top, end)
            V == Window(e, end)
            h == FreeHeader(r)
            c1 == Restrict(ch, DOMAIN ch \ V)
<1>1. /\ Body(ch, top, segs, rg) /\ FirstHasTop(top, segs) /\ top # NULL
      /\ end = segs[1].base + segs[1].size /\ e \in Nat /\ e < end /\ e \in DOMAIN rg
      /\ r \in Nat /\ r > TopFoot /\ top + r + TopFoot = e
      /\ ch2 = Placed(c1, top, h) /\ rg2 = Restrict(rg, DOMAIN rg \ V)
  BY DEF Trimming
<1>2. /\ 1 \in 1..Len(segs) /\ Len(segs) \in Nat
      /\ segs[1].base \in Nat \ {0} /\ segs[1].size \in Nat
      /\ top \in Nat /\ top \in FreeAt(ch) /\ top \in DOMAIN ch
      /\ segs[1].base <= top /\ s \in S
  BY <1>1, FirstIs
<1>3. end \in Nat /\ segs[1].base <= end /\ segs[1].base + segs[1].size <= end /\ TopFoot = 5
  BY SMTT(30), <1>1, <1>2 DEF TopFoot, SegmentSize, MinChunk
<1>4. /\ top < e /\ top < end /\ top + r < e /\ top + r <= end /\ top + TopFoot < e
      /\ r = e - TopFoot - top /\ segs[1].base < e
  BY <1>1, <1>2, <1>3
<1>5. s.base = segs[1].base /\ s.end = end
  BY <1>1 DEF SegmentSpace
<1>. HIDE DEF S, s
<1>6. \A t \in S \ {s} : t.end <= top \/ end <= t.base
  <2>1. ASSUME NEW t \in S, t # s PROVE t.end <= top \/ end <= t.base
    <3>0. SpacesOk(S, rg)
      BY <1>1 DEF Body, S
    <3>1. Separate(s, t) /\ t.base \in Nat /\ t.end \in Nat
      BY <1>2, <2>1, <3>0, SpaceFacts
    <3>2. t.end <= segs[1].base \/ end <= t.base
      BY <1>5, <3>1 DEF Separate
    <3>. QED
      BY <1>2, <3>1, <3>2
  <2>. QED
    BY <2>1
<1>7. SpacesOk((S \ {s}) \cup {Space(segs[1].base, e)}, rg2)
  <2>1. s.base # e /\ s.base <= e /\ e < s.end /\ s \in S /\ e \in DOMAIN rg /\ e \in Nat
    BY <1>1, <1>2, <1>4, <1>5
  <2>. DEFINE T == IF e = s.base THEN {} ELSE {Space(s.base, e)}
  <2>2. T = {Space(segs[1].base, e)}
    BY <1>5, <2>1
  <2>3. SpacesOk(S, rg)
    BY <1>1 DEF Body, S
  <2>4. rg2 = Restrict(rg, DOMAIN rg \ (e..(s.end - 1)))
    BY <1>1, <1>5 DEF Window
  <2>5. T = IF e = s.base THEN {} ELSE {Space(s.base, e)}
    OBVIOUS
  <2>. HIDE DEF T
  <2>6. SpacesOk((S \ {s}) \cup T, Restrict(rg, DOMAIN rg \ (e..(s.end - 1))))
    BY ONLY <2>1, <2>3, <2>5, ShrinkSpace
  <2>. QED
    BY <2>2, <2>4, <2>6
<1>8. h.size = r /\ ~h.c /\ h.p /\ h.foot = 0 /\ HeaderOk(h)
  <2>1. r \in Nat /\ r # 0
    BY <1>1, <1>3
  <2>. QED
    BY <2>1 DEF FreeHeader, Header, HeaderOk
<1>9. DOMAIN ch \cap W = {top}
  BY <1>1, <1>3, <1>6, TopAlone DEF S, s
<1>10. /\ \A q \in Nat : q \in W <=> top <= q /\ q < end
       /\ \A q \in Nat : q \in V <=> e <= q /\ q < end
  BY SMTT(30), <1>1, <1>2, <1>3 DEF Window
<1>11. DOMAIN ch \subseteq Nat
  BY <1>1, BodyTypes
<1>12. DOMAIN c1 = DOMAIN ch /\ (\A q \in DOMAIN ch : c1[q] = ch[q])
  <2>. HIDE DEF W, V
  <2>1. DOMAIN ch \ V = DOMAIN ch
    <3>1. ASSUME NEW q \in DOMAIN ch, q \in V PROVE FALSE
      <4>1. q \in W
        BY <1>1, <1>2, <1>3, <1>4, <1>10, <1>11, <3>1
      <4>2. q = top
        BY <1>9, <4>1
      <4>. QED
        BY <1>1, <1>2, <1>4, <1>10, <3>1, <4>2
    <3>. QED
      BY <3>1
  <2>. QED
    BY <2>1 DEF Restrict
<1>. HIDE DEF h, c1
<1>13. /\ SameOutside(ch, ch2, W) /\ ch2[top] = h /\ top \in DOMAIN ch2
       /\ DOMAIN ch2 \cap W = {top}
  <2>1. /\ SameOutside(c1, ch2, Window(top, end)) /\ ch2[top] = h /\ top \in DOMAIN ch2
        /\ \A q \in DOMAIN ch2 : q = top \/ q \in DOMAIN c1
    <3>1. /\ DOMAIN c1 \subseteq Nat /\ top \in Nat /\ end \in Nat /\ top <= top /\ ch2 = Placed(c1, top, h)
          /\ h.size \in Nat /\ top + h.size <= end /\ top < end
      BY <1>1, <1>2, <1>3, <1>4, <1>8, <1>11, <1>12
    <3>. QED
      BY ONLY <3>1, PlacedIn
  <2>2. SameOutside(ch, c1, W)
    BY <1>12 DEF SameOutside
  <2>3. top \in W
    BY <1>9
  <2>4. SameOutside(c1, ch2, W)
    BY <2>1
  <2>. HIDE DEF W
  <2>5. SameOutside(ch, ch2, W)
    BY <2>2, <2>4, SameOutsideTwice
  <2>. QED
    BY <1>9, <1>12, <2>1, <2>3, <2>5
<1>14. AtTop(ch, top, segs, rg, ch2, end)
  <2>1. HeaderOk(ch2[top]) /\ ch2[top].p
    BY <1>8, <1>13
  <2>2. /\ \A t \in Spaces(ch, segs) \ {SegmentSpace(segs[1])} : t.end <= top \/ end <= t.base
        /\ SameOutside(ch, ch2, Window(top, end)) /\ top \in DOMAIN ch2
    BY <1>6, <1>13 DEF S, s
  <2>3. end \in Nat /\ segs[1].base + segs[1].size <= end
    BY <1>3
  <2>4. Body(ch, top, segs, rg) /\ FirstHasTop(top, segs) /\ top # NULL
    BY <1>1
  <2>. QED
    BY ONLY <2>1, <2>2, <2>3, <2>4 DEF AtTop
<1>. QED
  <2>1. DOMAIN ch2 \cap Window(top, end) = {top} /\ ch2[top] = h
    BY <1>13
  <2>2. e \in Nat /\ top + TopFoot < e /\ e <= end
    BY <1>1, <1>3, <1>4
  <2>3. ~ch2[top].c /\ ch2[top].size = e - TopFoot - top
    BY <1>4, <1>8, <2>1
  <2>4. SpacesOk((Spaces(ch, segs) \ {SegmentSpace(segs[1])}) \cup {Space(segs[1].base, e)}, rg2)
    BY <1>7 DEF S, s
  <2>5. TopResized(ch, top, segs, rg, ch2, rg2, end, e)
    BY ONLY <1>14, <2>1, <2>2, <2>3, <2>4 DEF TopResized
  <2>. QED
    BY <2>1, <2>5 DEF h

\* The heap with extra bytes less of top.
Trimmed(m, extra, end, n) ==
    LET k == Unmap(m, end - extra, extra)
    IN n = InitTop([k EXCEPT !.segs[1].size = @ - extra], m.top, m.topsize - extra)

\* It is sound.
LEMMA TrimmedIs ==
    ASSUME NEW m, Sound(m), m.top # NULL, NEW extra \in Nat, extra > 0, extra + TopFoot < m.topsize,
           NEW end, end = m.segs[1].base + m.segs[1].size, end - extra \in DOMAIN m.regions,
           CanUnmap(m, end - extra, extra), NEW n, Trimmed(m, extra, end, n)
    PROVE  Kept(n, m)
<1>. DEFINE ch == m.chunks
            segs == m.segs
            e == end - extra
            r == m.topsize - extra
            k == Unmap(m, e, extra)
            x == [k EXCEPT !.segs[1].size = @ - extra]
            c1 == Restrict(ch, DOMAIN ch \ Window(e, end))
            rg2 == Restrict(m.regions, DOMAIN m.regions \ Window(e, end))
<1>1. Whole(m) /\ Binned(m, {}) /\ IsState(m) /\ n = InitTop(x, m.top, r)
  BY SMTT(30) DEF Sound, Whole, Trimmed
<1>2. Body(ch, m.top, segs, m.regions) /\ FirstHasTop(m.top, segs)
  BY Zenon, <1>1, StructureIsBody DEF Whole
<1>3. /\ segs[1].base \in Nat /\ segs[1].size \in Nat /\ m.top \in Nat /\ m.top \in DOMAIN ch
      /\ After(ch, m.top) + TopFoot = end
  BY SMTT(30), <1>2, FirstIs
<1>4. m.topsize = ch[m.top].size /\ ch[m.top].size \in Nat
  BY Zenon, <1>1, <1>3, ChunkTypes DEF Whole, Binned
<1>5. m.top + m.topsize + 5 = end /\ TopFoot = 5 /\ end \in Nat
  BY <1>3, <1>4 DEF After, TopFoot, SegmentSize, MinChunk
<1>6. /\ e \in Nat /\ e < end /\ r \in Nat /\ r > 5 /\ m.top + r + 5 = e /\ e + extra = end
  <2>1. ASSUME NEW t \in Nat, NEW z \in Nat, NEW d \in Nat, t + z + 5 = d, extra + 5 < z
        PROVE  /\ d - extra \in Nat /\ d - extra < d /\ z - extra \in Nat /\ z - extra > 5
               /\ t + (z - extra) + 5 = d - extra /\ (d - extra) + extra = d
    BY ONLY <2>1, extra \in Nat, extra > 0
  <2>2. m.topsize \in Nat /\ m.top \in Nat /\ end \in Nat /\ m.top + m.topsize + 5 = end /\ extra + 5 < m.topsize
    BY <1>3, <1>4, <1>5
  <2>. QED
    BY ONLY <2>1, <2>2
<1>. HIDE DEF e, r, c1, rg2
<1>7. Unmapped(k, m, e, end)
  <2>1. e \in Nat /\ end = e + extra /\ k = Unmap(m, e, extra)
    BY SMTT(30), <1>6
  <2>. HIDE DEF k
  <2>. QED
    BY <1>1, <2>1, UnmapIs
<1>. HIDE DEF k
<1>8. /\ IsState(x) /\ x.chunks = c1 /\ x.regions = rg2 /\ x.top = m.top
      /\ x.least_addr = m.least_addr /\ x.aborted = m.aborted /\ x.use_mmap = m.use_mmap
      /\ x.bins = m.bins /\ x.dv = m.dv /\ x.dvsize = m.dvsize
      /\ x.segs = [segs EXCEPT ![1].size = @ - extra]
      /\ x.regions = k.regions /\ x.footprint = k.footprint
  BY <1>7 DEF Unmapped, IsState, Fields, SameLists, SameDv, SameTop, c1, rg2
<1>. HIDE DEF x
<1>9. x.segs = Grown(segs, e)
  <2>1. segs[1].size - extra = e - segs[1].base
    <3>1. segs[1].base + segs[1].size = end /\ segs[1].base \in Nat /\ segs[1].size \in Nat /\ e \in Nat /\ e + extra = end
      BY <1>3, <1>6
    <3>. QED
      BY ONLY extra \in Nat, <3>1
  <2>2. Grown(segs, e) = [segs EXCEPT ![1].size = e - segs[1].base]
    BY DEF Grown
  <2>3. [segs EXCEPT ![1].size = @ - extra] = [segs EXCEPT ![1].size = segs[1].size - extra]
    OBVIOUS
  <2>. HIDE DEF segs
  <2>. QED
    BY <1>8, <2>1, <2>2, <2>3
<1>10. Topped(n, x, m.top, r) /\ n.chunks = Placed(c1, m.top, FreeHeader(r))
  <2>1. Topped(n, x, m.top, r) /\ n.chunks = Placed(x.chunks, m.top, FreeHeader(r))
    BY ONLY <1>1, <1>8, InitTopIs
  <2>. QED
    BY <1>8, <2>1
<1>11. n.regions = rg2 /\ IsState(n) /\ n.top = m.top /\ n.topsize = r
  BY <1>8, <1>10 DEF Topped, SameRest
<1>12. Trimming(ch, m.top, segs, m.regions, n.chunks, n.regions, r, e, end)
  <2>1. e \in DOMAIN m.regions
    BY DEF e
  <2>2. /\ Body(ch, m.top, segs, m.regions) /\ FirstHasTop(m.top, segs) /\ m.top # NULL
        /\ end = segs[1].base + segs[1].size
    BY <1>2
  <2>3. e \in Nat /\ e < end /\ r \in Nat /\ r > TopFoot /\ m.top + r + TopFoot = e
    BY <1>5, <1>6
  <2>4. /\ n.chunks = Placed(Restrict(ch, DOMAIN ch \ Window(e, end)), m.top, FreeHeader(r))
        /\ n.regions = Restrict(m.regions, DOMAIN m.regions \ Window(e, end))
    BY <1>10, <1>11 DEF c1, rg2
  <2>. HIDE DEF ch, segs
  <2>. QED
    BY ONLY <2>1, <2>2, <2>3, <2>4 DEF Trimming
<1>13. /\ TopResized(ch, m.top, segs, m.regions, n.chunks, n.regions, end, e)
       /\ n.chunks[m.top] = FreeHeader(r)
  BY ONLY <1>12, TrimmedChunks
<1>13a. Counts(n, m)
  <2>1. Counts(k, m)
    <3>1. RegionsApart(m.regions)
      BY <1>2, SpacesApart DEF Body
    <3>2. k.regions = Restrict(m.regions, DOMAIN m.regions \ Window(e, end)) /\ k.footprint = m.footprint - (end - e)
      BY <1>7 DEF Unmapped
    <3>3. e \in Nat /\ end = e + extra /\ CanUnmap(m, e, extra)
      BY SMTT(30), <1>6 DEF e
    <3>. QED
      BY ONLY extra \in Nat, <3>1, <3>2, <3>3, UnmapCounts
  <2>2. Counts(x, k)
    BY <1>8, CountsSame
  <2>3. Counts(n, x)
    BY <1>10, CountsSame DEF Topped, SameRest
  <2>. QED
    BY <2>1, <2>2, <2>3 DEF Counts
<1>14. TopChanged(m, n, end, e)
  <2>1. /\ IsState(n) /\ SameLists(n, m) /\ n.top = m.top
        /\ n.least_addr = m.least_addr /\ n.aborted = m.aborted /\ n.segs = Grown(m.segs, e)
    BY <1>8, <1>9, <1>10 DEF Topped, SameRest, SameBins, SameLists, SameDv
  <2>2. n.topsize = n.chunks[n.top].size
    BY <1>11, <1>13 DEF FreeHeader, Header
  <2>3. TopResized(m.chunks, m.top, m.segs, m.regions, n.chunks, n.regions, end, e)
    BY <1>13
  <2>. QED
    BY ONLY Sound(m), m.top # NULL, <1>13a, <2>1, <2>2, <2>3 DEF TopChanged
<1>. QED
  BY SMTT(30), <1>14, TopChangedSound DEF Kept

\* Trimming top keeps what callers hold.
LEMMA TrimTopIs ==
    ASSUME NEW m, Sound(m), m.top # NULL, NEW pad \in Nat, pad >= TopFoot
    PROVE  Kept(TrimTop(m, pad), m)
<1>. DEFINE extra == TrimExtra(m.topsize, pad)
            i == SegmentHolding(m, m.top)
            seg == m.segs[i]
            end == seg.base + seg.size
            k == Unmap(m, end - extra, extra)
            x == [k EXCEPT !.segs[i].size = @ - extra]
            n == InitTop(x, m.top, m.topsize - extra)
            C == /\ m.topsize > pad /\ seg.size >= extra /\ ~HasSegmentLink(m, seg)
                 /\ CanUnmap(m, end - extra, extra) /\ extra > 0
<1>1. TrimTop(m, pad) = IF C THEN n ELSE m
  BY DEF TrimTop
<1>2. Whole(m) /\ Binned(m, {})
  BY DEF Sound
<1>3. Body(m.chunks, m.top, m.segs, m.regions) /\ FirstHasTop(m.top, m.segs)
  BY <1>2, StructureIsBody DEF Whole
<1>4. i = 1
  <2>1. DOMAIN m.segs = 1..Len(m.segs) /\ 1 \in 1..Len(m.segs)
    BY <1>3, FirstIs, SequenceTypes DEF Body
  <2>2. \A j \in DOMAIN m.segs : Holds(m.segs[j], m.top) <=> j = 1
    BY <1>3, <2>1, OneSegment
  <2>. QED
    BY <2>1, <2>2 DEF SegmentHolding
<1>5. m.topsize \in Nat
  BY <1>2, ChunkTypes DEF Binned, Whole, FreeAt
<1>. HIDE DEF i
<1>6. CASE C
  <2>1. extra \in Nat /\ extra < m.topsize - pad /\ extra > 0
    BY <1>5, <1>6, TrimExtraIs
  <2>2. end - extra \in DOMAIN m.regions
    BY <1>6 DEF CanUnmap
  <2>2a. CanUnmap(m, end - extra, extra)
    BY <1>6
  <2>. HIDE DEF extra
  <2>3. extra + TopFoot < m.topsize
    <3>1. TopFoot = 5
      BY DEF TopFoot, SegmentSize, MinChunk
    <3>. QED
      BY <1>5, <2>1, <3>1
  <2>4. end = m.segs[1].base + m.segs[1].size
    BY <1>4
  <2>5. Trimmed(m, extra, end, n)
    BY <1>4 DEF Trimmed
  <2>. HIDE DEF end, n
  <2>6. Kept(n, m)
    BY <2>1, <2>2, <2>2a, <2>3, <2>4, <2>5, TrimmedIs
  <2>. HIDE DEF C
  <2>. QED
    BY <1>1, <1>6, <2>6
<1>7. CASE ~C
  <2>. HIDE DEF C
  <2>. QED
    BY <1>1, <1>7, KeptSame
<1>. QED
  BY <1>6, <1>7

-----------------------------------------------------------------------------
(* A new segment, which is the first. *)

\* The new segment has no record.
LEMMA PushedRecords ==
    ASSUME NEW segs, segs \in Seq(SegmentType), NEW a \in Nat \ {0}, NEW size \in Nat \ {0}
    PROVE  SegmentRecords(Pushed(a, size, segs)) = SegmentRecords(segs)
<1>. DEFINE P == Pushed(a, size, segs)
<1>1. /\ Len(P) = Len(segs) + 1 /\ P[1].record = NULL
      /\ \A i \in 1..Len(segs) : P[i + 1] = segs[i]
      /\ \A i \in 1..Len(P) : i # 1 => i - 1 \in 1..Len(segs) /\ P[i] = segs[i - 1]
  <2>1. NewSegment(a, size).record = NULL
    BY DEF NewSegment
  <2>2. /\ Len(P) = Len(segs) + 1 /\ P[1] = NewSegment(a, size)
        /\ \A i \in 1..Len(segs) : P[i + 1] = segs[i]
        /\ \A i \in 1..Len(P) : i # 1 => i - 1 \in 1..Len(segs) /\ P[i] = segs[i - 1]
    BY PushedIs
  <2>. HIDE DEF P
  <2>. QED
    BY <2>1, <2>2
<1>2. Len(segs) \in Nat
  BY SequenceTypes
<1>. HIDE DEF P
<1>3. ASSUME NEW r \in SegmentRecords(P) PROVE r \in SegmentRecords(segs)
  <2>1. PICK i \in 1..Len(P) : r = P[i].record /\ r # NULL
    BY <1>3 DEF SegmentRecords
  <2>2. i # 1
    BY <1>1, <2>1
  <2>. QED
    BY <1>1, <2>1, <2>2 DEF SegmentRecords
<1>4. ASSUME NEW r \in SegmentRecords(segs) PROVE r \in SegmentRecords(P)
  <2>1. PICK i \in 1..Len(segs) : r = segs[i].record /\ r # NULL
    BY <1>4 DEF SegmentRecords
  <2>2. i + 1 \in 1..Len(P)
    BY <1>1, <1>2
  <2>. QED
    BY SMTT(30), <1>1, <2>1, <2>2 DEF SegmentRecords
<1>. QED
  BY <1>3, <1>4 DEF P

\* What is in use of ch and not a record.
Taken(ch, segs) == ((Ord(ch) \ FreeAt(ch)) \cup Direct(ch)) \ SegmentRecords(segs)

\* A state with a new segment of top.
Opened(m, n, ch, segs, W, T, a, size) ==
    /\ Sound(m)
    /\ TopOpened(ch, segs, m.regions, n.chunks, n.regions, a, size)
    /\ IsState(n) /\ SameLists(n, m) /\ n.aborted = m.aborted /\ n.segs = Pushed(a, size, segs)
    /\ n.top = a /\ n.topsize = size - TopFoot /\ n.least_addr = Lowest(m, a)
    /\ SameOutside(m.chunks, ch, W)
    /\ \A q \in W : q \in Nat /\ \E p \in DOMAIN m.chunks : p <= q
    /\ m.top \in W \cup {NULL} /\ FreeAt(m.chunks) \cap W \subseteq {m.top} /\ FreeAt(ch) \cap W = {}
    /\ Used(m) \cap W = {} /\ T = Taken(ch, segs) \cap W
    /\ SegmentRecords(segs) \ W = SegmentRecords(m.segs) \ W
    /\ Counts(n, m)

\* It is sound.
LEMMA OpenedSound ==
    ASSUME NEW m, NEW n, NEW ch, NEW segs, NEW W, NEW T, NEW a, NEW size, Opened(m, n, ch, segs, W, T, a, size)
    PROVE  Sound(n) /\ Frame(n, m, {}, T) /\ n.top \in FreeAt(n.chunks)
<1>. DEFINE V == Window(a, a + size)
            Z == W \cup V
            ch2 == n.chunks
<1>1. /\ Sound(m) /\ Whole(m) /\ Binned(m, {}) /\ ~m.aborted
      /\ TopOpened(ch, segs, m.regions, ch2, n.regions, a, size)
      /\ IsState(n) /\ SameLists(n, m) /\ n.aborted = m.aborted /\ n.segs = Pushed(a, size, segs)
      /\ n.top = a /\ n.topsize = size - TopFoot /\ n.least_addr = Lowest(m, a)
      /\ SameOutside(m.chunks, ch, W)
      /\ \A q \in W : q \in Nat /\ \E p \in DOMAIN m.chunks : p <= q
      /\ m.top \in W \cup {NULL} /\ FreeAt(m.chunks) \cap W \subseteq {m.top} /\ FreeAt(ch) \cap W = {}
      /\ Used(m) \cap W = {} /\ T = Taken(ch, segs) \cap W
      /\ SegmentRecords(segs) \ W = SegmentRecords(m.segs) \ W
  BY DEF Opened, Sound, Whole
<1>2. /\ Body(ch2, a, n.segs, n.regions) /\ FirstHasTop(a, n.segs) /\ DOMAIN ch \cap V = {}
  BY <1>1, OpenTop
<1>3. /\ a \in Nat \ {0} /\ size \in Nat \ {0} /\ segs \in Seq(SegmentType)
      /\ SameOutside(ch, ch2, V) /\ DOMAIN ch2 \cap V = {a}
      /\ Headed(ch2[a], size - TopFoot, FALSE, TRUE, 0)
  <2>1. TopFoot = 5
    BY DEF TopFoot, SegmentSize, MinChunk
  <2>2. /\ a \in Nat \ {0} /\ size \in Nat /\ TopFoot < size /\ SameOutside(ch, ch2, V) /\ DOMAIN ch2 \cap V = {a}
        /\ Headed(ch2[a], size - TopFoot, FALSE, TRUE, 0) /\ Body(ch, NULL, segs, m.regions)
    BY <1>1 DEF TopOpened
  <2>3. segs \in Seq(SegmentType)
    BY <2>2 DEF Body
  <2>4. size \in Nat \ {0}
    BY <2>1, <2>2
  <2>. HIDE DEF V, ch2
  <2>. QED
    BY ONLY <2>2, <2>3, <2>4, Zenon
<1>4. SegmentRecords(n.segs) = SegmentRecords(segs)
  BY <1>1, <1>3, PushedRecords
<1>5. a \in DOMAIN ch2 /\ a \in V /\ ch2[a].size = size - TopFoot /\ ~ch2[a].c /\ ch2[a].p
  BY <1>3 DEF Headed
<1>6. a \in FreeAt(ch2) /\ a \notin Direct(ch2)
  BY <1>5 DEF FreeAt, Direct
<1>7. /\ \A q : q \in V => q \in Nat /\ a <= q
      /\ a # NULL
  BY <1>3 DEF Window, NULL
<1>. HIDE DEF V, ch2
<1>8. /\ Ord(ch2) \ V = Ord(ch) \ V /\ FreeAt(ch2) \ V = FreeAt(ch) \ V /\ Direct(ch2) \ V = Direct(ch) \ V
      /\ Ord(ch) \ W = Ord(m.chunks) \ W /\ FreeAt(ch) \ W = FreeAt(m.chunks) \ W /\ Direct(ch) \ W = Direct(m.chunks) \ W
  BY <1>1, <1>3, OutsideSets
<1>9. /\ \A c : Ord(c) \subseteq DOMAIN c /\ FreeAt(c) \subseteq DOMAIN c /\ Direct(c) \subseteq DOMAIN c
  BY DEF Ord, FreeAt, Direct
<1>10. SameOutside(m.chunks, ch2, Z)
  BY <1>1, <1>3 DEF SameOutside
<1>11. Low(n)
  <2>1. Low(m)
    BY <1>1 DEF Whole
  <2>2. /\ Lowest(m, a) \in Nat \ {0} /\ Lowest(m, a) <= a
        /\ \A p \in DOMAIN m.chunks : p \in Nat => Lowest(m, a) <= p
    BY <1>3, <2>1, LowestIs
  <2>3. \A p \in DOMAIN m.chunks : p \in Nat
    BY <1>1, ChunkTypes DEF Whole
  <2>4. ASSUME NEW q \in DOMAIN ch2 PROVE Lowest(m, a) <= q
    <3>1. CASE q \in V
      BY <1>3, <1>7, <2>2, <3>1
    <3>2. CASE q \in W /\ q \notin V
      <4>1. q \in Nat /\ \E p \in DOMAIN m.chunks : p <= q
        BY <1>1, <3>2
      <4>. QED
        BY <2>2, <2>3, <4>1
    <3>3. CASE q \notin Z
      <4>1. q \in DOMAIN m.chunks
        BY <1>10, <3>3 DEF SameOutside
      <4>. QED
        BY <2>2, <2>3, <4>1
    <3>. QED
      BY <3>1, <3>2, <3>3
  <2>. QED
    BY <1>1, <2>2, <2>4 DEF Low, ch2
<1>12. Whole(n)
  <2>1. Structure(n.chunks, n.top, n.segs, n.regions)
    BY <1>1, <1>2, StructureIsBody DEF ch2
  <2>. QED
    BY <1>1, <1>11, <2>1 DEF Whole
<1>13. FreeAt(ch2) \cap Z \subseteq {a}
  <2>1. FreeAt(ch2) \cap V \subseteq {a}
    BY <1>3, <1>9
  <2>. QED
    BY <1>1, <1>8, <2>1
<1>14. FreeAt(m.chunks) \cap Z \subseteq {m.top}
  BY <1>1, <1>2, <1>8, <1>9
<1>15. Used(m) \cap Z = {}
  <2>1. Used(m) \subseteq (Ord(m.chunks) \cup Direct(m.chunks))
    BY DEF Used
  <2>. QED
    BY <1>1, <1>2, <1>8, <1>9, <2>1
<1>16. Used(n) \cap Z = T
  <2>1. Used(n) = ((Ord(ch2) \ FreeAt(ch2)) \cup Direct(ch2)) \ SegmentRecords(segs)
    BY <1>4 DEF Used, ch2
  <2>2. (Ord(ch2) \cup Direct(ch2)) \cap V \subseteq {a}
    BY <1>3, <1>9
  <2>3. Used(n) \cap V = {}
    BY <1>6, <2>1, <2>2
  <2>4. Taken(ch, segs) \cap V = {}
    BY <1>2, <1>9 DEF Taken
  <2>. QED
    BY <1>1, <1>8, <2>1, <2>3, <2>4 DEF Taken
<1>17. Exchanged(m, n, {}, Z, {}, T)
  <2>1. /\ {} \subseteq Z /\ m.dv \notin {} /\ FreeAt(m.chunks) \cap Z \subseteq {m.top} \cup {}
        /\ FreeAt(n.chunks) \cap Z \subseteq {n.top}
        /\ n.top = m.top \/ (m.top \in Z \cup {NULL} /\ n.top \in Z \cup {NULL})
    BY <1>1, <1>5, <1>13, <1>14 DEF ch2
  <2>2. n.topsize = IF n.top = NULL THEN 0 ELSE n.chunks[n.top].size
    BY <1>1, <1>5, <1>7 DEF ch2
  <2>3. SegmentRecords(n.segs) \ Z = SegmentRecords(m.segs) \ Z
    BY <1>1, <1>4
  <2>4. SameOutside(m.chunks, n.chunks, Z) /\ Used(m) \cap Z = {} /\ Used(n) \cap Z = T
    BY <1>10, <1>15, <1>16 DEF ch2
  <2>5. Whole(m) /\ Binned(m, {}) /\ Whole(n) /\ SameLists(n, m) /\ Counts(n, m)
    BY <1>1, <1>12 DEF Opened
  <2>. HIDE DEF Z
  <2>. QED
    BY ONLY <2>1, <2>2, <2>3, <2>4, <2>5 DEF Exchanged
<1>. HIDE DEF Z
<1>18. Sound(n) /\ Frame(n, m, {}, T)
  BY <1>17, ExchangeSound
<1>. QED
  BY <1>1, <1>6, <1>18 DEF ch2

\* The first memory of the heap.
LEMMA FirstSegmentIs ==
    ASSUME NEW m, Sound(m), m.top = NULL, NEW a, NEW size, NewRegion(m, a, size), size > TopFoot,
           NEW x, x = [LeastAddr(Map(m, a, size), a) EXCEPT !.segs = <<NewSegment(a, size)>>,
                                                            !.release_checks = MaxReleaseCheckRate],
           NEW n, n = InitTop(x, a, size - TopFoot)
    PROVE  Widened(n, m, size - TopFoot)
<1>. DEFINE l == LeastAddr(Map(m, a, size), a)
            ch == m.chunks
            e == a + size
            S == Spaces(ch, m.segs)
            h == FreeHeader(size - TopFoot)
<1>1. Whole(m) /\ Binned(m, {}) /\ IsState(m)
  BY DEF Sound, Whole
<1>2. Body(ch, NULL, m.segs, m.regions) /\ FirstHasTop(NULL, m.segs)
  BY <1>1, StructureIsBody DEF Whole
<1>3. m.segs = <<>>
  <2>1. m.segs \in Seq(SegmentType) /\ Len(m.segs) = 0
    BY <1>2, SequenceTypes DEF FirstHasTop, Body
  <2>. QED
    BY <2>1
<1>4. Given(l, m, a, size, Lowest(m, a))
  BY <1>1, MapIs
<1>. HIDE DEF l
<1>5. /\ IsState(x) /\ x.chunks = ch /\ x.regions = With(m.regions, a, size)
      /\ x.bins = m.bins /\ x.dv = m.dv /\ x.dvsize = m.dvsize
      /\ x.least_addr = Lowest(m, a) /\ x.aborted = m.aborted /\ x.use_mmap = m.use_mmap
      /\ x.segs = <<NewSegment(a, size)>> /\ x.footprint = m.footprint + size
  <2>1. x = [l EXCEPT !.segs = <<NewSegment(a, size)>>, !.release_checks = MaxReleaseCheckRate]
    BY DEF l
  <2>. QED
    BY ONLY <1>4, <2>1 DEF Given, IsState, Fields, SameLists, SameDv, SameTop
<1>6. Topped(n, x, a, size - TopFoot) /\ n.chunks = Placed(x.chunks, a, h)
  <2>1. h = FreeHeader(size - TopFoot)
    OBVIOUS
  <2>. HIDE DEF h
  <2>. QED
    BY ONLY <1>5, <2>1, n = InitTop(x, a, size - TopFoot), InitTopIs
<1>7. /\ SpacesOk(S \cup {Space(a, e)}, With(m.regions, a, size))
      /\ e \in Nat /\ a < e /\ (\A t \in S : t.end <= a \/ e <= t.base)
      /\ DOMAIN ch \cap Window(a, e) = {}
  BY <1>1, NewSpaceIs
<1>8. a \in Nat \ {0} /\ size \in Nat /\ TopFoot = 5 /\ size - TopFoot \in Nat /\ size - TopFoot > 0
  BY DEF NewRegion, TopFoot, SegmentSize, MinChunk
<1>9. Headed(h, size - TopFoot, FALSE, TRUE, 0)
  BY <1>8, NewHeads
<1>10. DOMAIN ch \subseteq Nat
  BY <1>2, BodyTypes
<1>. HIDE DEF h, S
<1>11. /\ SameOutside(ch, n.chunks, Window(a, e)) /\ n.chunks[a] = h /\ a \in DOMAIN n.chunks
       /\ \A q \in DOMAIN n.chunks : q = a \/ q \in DOMAIN ch
  <2>1. /\ a \in Nat /\ e \in Nat /\ a <= a /\ h.size \in Nat /\ a < e /\ a + h.size <= e
        /\ n.chunks = Placed(ch, a, h)
    BY <1>5, <1>6, <1>7, <1>8, <1>9 DEF Headed
  <2>. HIDE DEF ch, e
  <2>. QED
    BY ONLY <1>10, <2>1, PlacedIn
<1>12. TopOpened(ch, <<>>, m.regions, n.chunks, n.regions, a, size)
  <2>1. DOMAIN n.chunks \cap Window(a, e) = {a}
    <3>1. a \in Window(a, e)
      BY <1>7, <1>8 DEF Window
    <3>. QED
      BY <1>7, <1>11, <3>1
  <2>2. n.regions = With(m.regions, a, size)
    BY <1>5, <1>6 DEF Topped, SameRest
  <2>3. AllRecorded(<<>>)
    BY DEF AllRecorded
  <2>4. Body(ch, NULL, <<>>, m.regions) /\ S = Spaces(ch, <<>>)
    BY <1>2, <1>3 DEF S
  <2>5. Headed(n.chunks[a], size - TopFoot, FALSE, TRUE, 0)
    BY <1>9, <1>11
  <2>6. /\ (\A t \in Spaces(ch, <<>>) : t.end <= a \/ a + size <= t.base)
        /\ SpacesOk(Spaces(ch, <<>>) \cup {Space(a, a + size)}, n.regions)
        /\ SameOutside(ch, n.chunks, Window(a, a + size)) /\ DOMAIN n.chunks \cap Window(a, a + size) = {a}
    BY <1>7, <1>11, <2>1, <2>2, <2>4
  <2>7. a \in Nat \ {0} /\ size \in Nat /\ TopFoot < size
    BY <1>8
  <2>. HIDE DEF ch
  <2>. QED
    BY ONLY <2>3, <2>4, <2>5, <2>6, <2>7 DEF TopOpened
<1>13. n.segs = Pushed(a, size, <<>>)
  <2>1. <<NewSegment(a, size)>> \o <<>> = <<NewSegment(a, size)>>
    OBVIOUS
  <2>. QED
    BY <1>5, <1>6, <2>1 DEF Topped, SameRest, Pushed
<1>14. Opened(m, n, ch, <<>>, {}, {}, a, size)
  <2>1. /\ IsState(n) /\ SameLists(n, m) /\ n.aborted = m.aborted
        /\ n.top = a /\ n.topsize = size - TopFoot /\ n.least_addr = Lowest(m, a)
    BY <1>5, <1>6 DEF Topped, SameRest, SameBins, SameLists, SameDv
  <2>2. SameOutside(m.chunks, ch, {}) /\ {} = Taken(ch, <<>>) \cap {}
    BY DEF SameOutside
  <2>3. SegmentRecords(<<>>) \ {} = SegmentRecords(m.segs) \ {}
    BY <1>3
  <2>4. /\ m.top \in {} \cup {NULL} /\ FreeAt(m.chunks) \cap {} \subseteq {m.top} /\ FreeAt(ch) \cap {} = {}
        /\ Used(m) \cap {} = {} /\ \A q \in {} : q \in Nat /\ \E p \in DOMAIN m.chunks : p <= q
    OBVIOUS
  <2>5. Counts(n, m)
    <3>1. n.regions = With(m.regions, a, size) /\ n.footprint = m.footprint + size
      BY <1>5, <1>6 DEF Topped, SameRest
    <3>. QED
      BY <1>1, <3>1, NewRegionCounts
  <2>. QED
    BY ONLY Sound(m), <1>12, <1>13, <2>1, <2>2, <2>3, <2>4, <2>5 DEF Opened
<1>15. Sound(n) /\ Frame(n, m, {}, {}) /\ n.top \in FreeAt(n.chunks)
  BY ONLY <1>14, OpenedSound
<1>16. n.top = a /\ n.topsize = size - TopFoot /\ a # NULL
  BY <1>6, <1>8 DEF Topped, NULL
<1>. QED
  BY <1>15, <1>16 DEF Widened

-----------------------------------------------------------------------------
(* The headers that add_segment writes. *)

\* A new segment: the header of its top is written first,
Adding(ch, top, end, a, e, csp, h, c0) ==
    /\ DOMAIN ch \subseteq Nat /\ {top, end, a, e, csp} \subseteq Nat
    /\ top <= csp /\ csp + TopFoot <= end /\ a < e /\ (end <= a \/ e <= top)
    /\ DOMAIN ch \cap Window(top, end) = {top} /\ DOMAIN ch \cap Window(a, e) = {}
    /\ h.size \in Nat /\ a + h.size <= e
    /\ c0 = Placed(Placed(Placed(ch, a, h), csp, InuseHeader(SegmentSize)), csp + SegmentSize, Fence)

\* then the old one may be closed.
Added(ch, top, end, a, e, csp, h, c0) ==
    /\ SameOutside(ch, c0, Window(top, end) \cup Window(a, e))
    /\ DOMAIN c0 \cap Window(top, end) = {top, csp, csp + SegmentSize}
    /\ DOMAIN c0 \cap Window(a, e) = {a}
    /\ c0[a] = h /\ c0[csp] = InuseHeader(SegmentSize) /\ c0[csp + SegmentSize] = Fence
    /\ csp # top => c0[top] = ch[top]
    /\ Window(top, end) \cap Window(a, e) = {}
    /\ DOMAIN c0 \subseteq Nat

\* The first header of a new segment.
LEMMA AddingAdds ==
    ASSUME NEW ch, NEW top, NEW end, NEW a, NEW e, NEW csp, NEW h, NEW c0, Adding(ch, top, end, a, e, csp, h, c0)
    PROVE  Added(ch, top, end, a, e, csp, h, c0)
<1>. DEFINE W == Window(top, end)
            V == Window(a, e)
            f == csp + 3
            g == InuseHeader(SegmentSize)
            ca == Placed(ch, a, h)
            cb == Placed(ca, csp, g)
<1>1. /\ DOMAIN ch \subseteq Nat /\ top \in Nat /\ end \in Nat /\ a \in Nat /\ e \in Nat /\ csp \in Nat
      /\ top <= csp /\ csp + 5 <= end /\ a < e /\ (end <= a \/ e <= top)
      /\ DOMAIN ch \cap W = {top} /\ DOMAIN ch \cap V = {}
      /\ h.size \in Nat /\ a + h.size <= e
      /\ c0 = Placed(cb, f, Fence)
  BY DEF Adding, TopFoot, SegmentSize, MinChunk
<1>2. SegmentSize = 3 /\ g.size = 3 /\ Fence.size = 0
  BY DEF SegmentSize, InuseHeader, Fence, Header
<1>3. f \in Nat /\ csp < f /\ f < end /\ csp < end /\ csp + 3 <= end /\ f = csp + 3
  BY <1>1
<1>4. /\ \A q \in Nat : q \in W <=> top <= q /\ q < end
      /\ \A q \in Nat : q \in V <=> a <= q /\ q < e
      /\ \A q : q \in W \/ q \in V => q \in Nat
  BY <1>1 DEF Window
<1>. HIDE DEF g, W, V
<1>5. /\ SameOutside(ch, ca, V) /\ ca[a] = h /\ a \in DOMAIN ca /\ DOMAIN ca \subseteq Nat
      /\ \A q \in DOMAIN ca : q = a \/ (q \in DOMAIN ch /\ (q < a \/ a + h.size <= q) /\ ca[q] = ch[q])
      /\ \A q \in DOMAIN ch : (q <= a \/ a + h.size <= q) => q \in DOMAIN ca
  <2>1. /\ a <= a /\ ca = Placed(ch, a, h) /\ DOMAIN ch \subseteq Nat /\ a \in Nat /\ e \in Nat
        /\ h.size \in Nat /\ a < e /\ a + h.size <= e
    BY <1>1
  <2>. HIDE DEF ca
  <2>2. /\ SameOutside(ch, ca, Window(a, e)) /\ ca[a] = h /\ a \in DOMAIN ca /\ DOMAIN ca \subseteq Nat
        /\ \A q \in DOMAIN ca : q = a \/ (q \in DOMAIN ch /\ (q < a \/ a + h.size <= q) /\ ca[q] = ch[q])
        /\ \A q \in DOMAIN ch : (q <= a \/ a + h.size <= q) => q \in DOMAIN ca
    BY ONLY <2>1, PlacedIn
  <2>. QED
    BY <2>2 DEF V
<1>. HIDE DEF ca
<1>6. /\ SameOutside(ca, cb, W) /\ cb[csp] = g /\ csp \in DOMAIN cb /\ DOMAIN cb \subseteq Nat
      /\ \A q \in DOMAIN cb : q = csp \/ (q \in DOMAIN ca /\ (q < csp \/ csp + 3 <= q) /\ cb[q] = ca[q])
      /\ \A q \in DOMAIN ca : (q <= csp \/ csp + 3 <= q) => q \in DOMAIN cb
  <2>1. g.size \in Nat /\ csp + g.size <= end
    BY <1>2, <1>3
  <2>2. /\ SameOutside(ca, cb, W) /\ cb[csp] = g /\ csp \in DOMAIN cb /\ DOMAIN cb \subseteq Nat
        /\ \A q \in DOMAIN cb : q = csp \/ (q \in DOMAIN ca /\ (q < csp \/ csp + g.size <= q) /\ cb[q] = ca[q])
        /\ \A q \in DOMAIN ca : (q <= csp \/ csp + g.size <= q) => q \in DOMAIN cb
    <3>1. cb = Placed(ca, csp, g)
      OBVIOUS
    <3>. HIDE DEF cb
    <3>. QED
      BY SMTT(30), <1>1, <1>3, <1>5, <2>1, <3>1, PlacedIn DEF W
  <2>. HIDE DEF cb
  <2>. QED
    BY <1>2, <2>2
<1>. HIDE DEF cb
<1>7. /\ SameOutside(cb, c0, W) /\ c0[f] = Fence /\ f \in DOMAIN c0 /\ DOMAIN c0 \subseteq Nat
      /\ \A q \in DOMAIN c0 : q = f \/ (q \in DOMAIN cb /\ c0[q] = cb[q])
      /\ \A q \in DOMAIN cb : q \in DOMAIN c0
  <2>1. Fence.size \in Nat /\ f + Fence.size <= end /\ top <= f
    BY <1>1, <1>2, <1>3
  <2>2. /\ SameOutside(cb, c0, W) /\ c0[f] = Fence /\ f \in DOMAIN c0 /\ DOMAIN c0 \subseteq Nat
        /\ \A q \in DOMAIN c0 : q = f \/ (q \in DOMAIN cb /\ (q < f \/ f + Fence.size <= q) /\ c0[q] = cb[q])
        /\ \A q \in DOMAIN cb : (q <= f \/ f + Fence.size <= q) => q \in DOMAIN c0
    <3>. HIDE DEF f
    <3>1. /\ DOMAIN cb \subseteq Nat /\ top \in Nat /\ end \in Nat /\ f \in Nat /\ top <= f /\ f < end
          /\ c0 = Placed(cb, f, Fence) /\ Fence.size \in Nat /\ f + Fence.size <= end
      BY <1>1, <1>3, <1>6, <2>1
    <3>2. /\ SameOutside(cb, c0, Window(top, end)) /\ c0[f] = Fence /\ f \in DOMAIN c0 /\ DOMAIN c0 \subseteq Nat
          /\ \A q \in DOMAIN c0 : q = f \/ (q \in DOMAIN cb /\ (q < f \/ f + Fence.size <= q) /\ c0[q] = cb[q])
          /\ \A q \in DOMAIN cb : (q <= f \/ f + Fence.size <= q) => q \in DOMAIN c0
      BY ONLY SMTT(30), <3>1, PlacedIn
    <3>. QED
      BY <3>2 DEF W
  <2>3. \A q \in DOMAIN cb : q <= f \/ f + Fence.size <= q
    BY <1>2, <1>3, <1>6
  <2>. QED
    BY <2>2, <2>3
<1>8. W \cap V = {}
  BY <1>1, <1>4
<1>9. SameOutside(ch, c0, W \cup V)
  BY <1>5, <1>6, <1>7 DEF SameOutside
<1>10. DOMAIN c0 \cap V = {a} /\ c0[a] = h
  <2>1. a \in V /\ a \notin W
    BY <1>1, <1>4, <1>8
  <2>2. a \in DOMAIN c0 /\ c0[a] = h
    BY <1>5, <1>6, <1>7, <2>1 DEF SameOutside
  <2>3. ASSUME NEW q \in DOMAIN c0, q \in V PROVE q = a
    <3>1. q \notin W
      BY <1>8, <2>3
    <3>2. q \in DOMAIN ca
      BY <1>6, <1>7, <2>3, <3>1 DEF SameOutside
    <3>. QED
      BY <1>1, <1>5, <2>3, <3>2
  <2>. QED
    BY <2>1, <2>2, <2>3
<1>11. DOMAIN c0 \cap W = {top, csp, f}
  <2>1. top \in DOMAIN ch /\ top \in W /\ csp \in W /\ f \in W /\ top \notin V
    BY <1>1, <1>3, <1>4, <1>8
  <2>2. top \in DOMAIN ca
    BY <1>5, <2>1 DEF SameOutside
  <2>3. top \in DOMAIN c0 /\ csp \in DOMAIN c0 /\ f \in DOMAIN c0
    BY <1>1, <1>6, <1>7, <2>2
  <2>4. ASSUME NEW q \in DOMAIN c0, q \in W, q # csp, q # f PROVE q = top
    <3>1. q \in DOMAIN ca
      BY <1>6, <1>7, <2>4
    <3>2. q \in DOMAIN ch
      BY <1>5, <1>8, <2>4, <3>1 DEF SameOutside
    <3>. QED
      BY <1>1, <2>4, <3>2
  <2>. QED
    BY <2>1, <2>3, <2>4
<1>12. c0[csp] = g
  <2>1. csp # f /\ csp \in DOMAIN c0
    BY <1>3, <1>11
  <2>. QED
    BY <1>6, <1>7, <2>1
<1>13. csp # top => c0[top] = ch[top]
  <2>1. ASSUME csp # top PROVE c0[top] = ch[top]
    <3>1. top # f /\ top \in DOMAIN c0 /\ top \in DOMAIN ch /\ top \in W
      BY <1>1, <1>3, <1>11
    <3>2. c0[top] = cb[top] /\ top \in DOMAIN cb
      BY <1>7, <3>1
    <3>3. cb[top] = ca[top] /\ top \in DOMAIN ca
      BY <1>6, <2>1, <3>2
    <3>4. ca[top] = ch[top]
      BY <1>5, <1>8, <3>1 DEF SameOutside
    <3>. QED
      BY <3>2, <3>3, <3>4
  <2>. QED
    BY <2>1
<1>. QED
  BY <1>2, <1>7, <1>8, <1>9, <1>10, <1>11, <1>12, <1>13 DEF Added, W, V, g

\* The same with the old top in use, with and without the new segment.
Closing(c0, top, csp) ==
    [q \in DOMAIN c0 |-> IF q = top /\ csp # top THEN InuseHeader(csp - top) ELSE c0[q]]

\* The two changes of headers add_segment makes, apart from each other.
Closes(ch, top, end, a, e, csp, h, c0, c1, c2) ==
    /\ Added(ch, top, end, a, e, csp, h, c0) /\ a < e /\ a \in Nat /\ e \in Nat
    /\ DOMAIN ch \cap Window(a, e) = {}
    /\ c2 = Closing(c0, top, csp) /\ c1 = Restrict(c2, DOMAIN c2 \ Window(a, e))

\* They are the ones of closing a segment and of opening one.
LEMMA ClosingIs ==
    ASSUME NEW ch, NEW top, NEW end, NEW a, NEW e, NEW csp, NEW h, NEW c0, NEW c1, NEW c2,
           Closes(ch, top, end, a, e, csp, h, c0, c1, c2)
    PROVE  /\ SameOutside(ch, c1, Window(top, end)) /\ DOMAIN c1 \cap Window(top, end) = {top, csp, csp + SegmentSize}
           /\ c1[csp] = InuseHeader(SegmentSize) /\ c1[csp + SegmentSize] = IF csp + SegmentSize = top THEN c2[top] ELSE Fence
           /\ csp # top => c1[top] = InuseHeader(csp - top)
           /\ SameOutside(c1, c2, Window(a, e)) /\ DOMAIN c2 \cap Window(a, e) = {a} /\ c2[a] = h
           /\ DOMAIN c2 = DOMAIN c0 /\ \A q \in DOMAIN c0 : q # top \/ csp = top => c2[q] = c0[q]
           /\ csp # top => c2[top] = InuseHeader(csp - top)
<1>0. /\ Added(ch, top, end, a, e, csp, h, c0) /\ a < e /\ a \in Nat /\ e \in Nat
      /\ DOMAIN ch \cap Window(a, e) = {}
      /\ c2 = Closing(c0, top, csp) /\ c1 = Restrict(c2, DOMAIN c2 \ Window(a, e))
  BY DEF Closes
<1>. DEFINE W == Window(top, end)
            V == Window(a, e)
            f == csp + SegmentSize
<1>1. /\ SameOutside(ch, c0, W \cup V) /\ DOMAIN c0 \cap W = {top, csp, f} /\ DOMAIN c0 \cap V = {a}
      /\ c0[a] = h /\ c0[csp] = InuseHeader(SegmentSize) /\ c0[f] = Fence
      /\ csp # top => c0[top] = ch[top]
      /\ W \cap V = {}
  BY <1>0 DEF Added
<1>. HIDE DEF W, V, f
<1>2. DOMAIN c2 = DOMAIN c0 /\ \A q \in DOMAIN c0 : c2[q] = IF q = top /\ csp # top THEN InuseHeader(csp - top) ELSE c0[q]
  BY <1>0 DEF Closing
<1>3. DOMAIN c1 = DOMAIN c2 \ V /\ \A q \in DOMAIN c2 \ V : c1[q] = c2[q]
  BY <1>0 DEF Restrict, V
<1>4. DOMAIN ch \cap V = {}
  BY <1>0 DEF V
<1>5. SameOutside(ch, c1, W)
  <2>1. \A q \in DOMAIN ch : q \notin V
    BY <1>4
  <2>2. DOMAIN c1 \ W = DOMAIN ch \ W
    BY <1>1, <1>2, <1>3, <2>1 DEF SameOutside
  <2>3. \A q \in DOMAIN ch \ W : c1[q] = ch[q]
    <3>1. ASSUME NEW q \in DOMAIN ch \ W PROVE c1[q] = ch[q]
      <4>1. q \in DOMAIN c0 /\ c0[q] = ch[q] /\ q # top /\ q \notin V
        BY <1>1, <2>1 DEF SameOutside
      <4>. QED
        BY <1>2, <1>3, <4>1
    <3>. QED
      BY <3>1
  <2>. QED
    BY <2>2, <2>3 DEF SameOutside
<1>6. DOMAIN c1 \cap W = {top, csp, f} /\ {top, csp, f} \cap V = {} /\ {top, csp, f} \subseteq DOMAIN c0
  BY <1>1, <1>2, <1>3
<1>7. c1[csp] = InuseHeader(SegmentSize) /\ (csp # top => c1[top] = InuseHeader(csp - top))
  BY <1>1, <1>2, <1>3, <1>6
<1>8. c1[f] = IF f = top THEN c2[top] ELSE Fence
  BY <1>1, <1>2, <1>3, <1>6
<1>9. SameOutside(c1, c2, V)
  BY <1>3 DEF SameOutside
<1>10. DOMAIN c2 \cap V = {a} /\ c2[a] = h
  BY <1>1, <1>2, <1>6
<1>11. csp # top => c2[top] = InuseHeader(csp - top)
  BY <1>2, <1>6
<1>. QED
  BY <1>2, <1>5, <1>6, <1>7, <1>8, <1>9, <1>10, <1>11 DEF W, V, f

-----------------------------------------------------------------------------
(* A segment of its own. *)

\* The segments as add_segment writes them.
LEMMA PushedSeq ==
    ASSUME NEW segs, segs \in Seq(SegmentType), 1 \in 1..Len(segs), NEW a \in Nat \ {0}, NEW size \in Nat \ {0}, NEW csp \in Nat,
           NEW t, t = <<NewSegment(a, size), [Head(segs) EXCEPT !.record = csp]>> \o Tail(segs)
    PROVE  t = Pushed(a, size, Recorded(segs, csp))
<1>. DEFINE x == NewSegment(a, size)
            y == [Head(segs) EXCEPT !.record = csp]
            P == Pushed(a, size, Recorded(segs, csp))
<1>1. /\ Len(segs) \in Nat /\ segs[1] \in SegmentType /\ DOMAIN segs = 1..Len(segs)
  BY SequenceTypes
<1>2. segs # <<>>
  BY <1>1
<1>3. /\ Tail(segs) \in Seq(SegmentType) /\ Len(Tail(segs)) = Len(segs) - 1
      /\ \A i \in 1..Len(Tail(segs)) : Tail(segs)[i] = segs[i + 1]
  BY <1>2, HeadTailProperties
<1>4. Head(segs) = segs[1]
  OBVIOUS
<1>5. x \in SegmentType
  BY DEF NewSegment, SegmentType, NULL
<1>6. y \in SegmentType
  BY <1>1, <1>4 DEF SegmentType
<1>7. Recorded(segs, csp) = [segs EXCEPT ![1] = y]
  <2>1. y = [segs[1] EXCEPT !.record = csp]
    BY <1>4
  <2>. HIDE DEF y
  <2>. QED
    BY <2>1 DEF Recorded
<1>. HIDE DEF x, y
<1>8. <<x, y>> \in Seq(SegmentType) /\ Len(<<x, y>>) = 2 /\ <<x, y>>[1] = x /\ <<x, y>>[2] = y
  BY <1>5, <1>6
<1>. DEFINE d == <<x, y>>
<1>9. d \in Seq(SegmentType) /\ Len(d) = 2 /\ d[1] = x /\ d[2] = y
  BY <1>8
<1>10. t = d \o Tail(segs)
  BY DEF x, y
<1>. HIDE DEF d
<1>11. /\ t \in Seq(SegmentType) /\ Len(t) = 2 + (Len(segs) - 1)
       /\ \A i \in 1..(2 + (Len(segs) - 1)) : t[i] = IF i <= 2 THEN d[i] ELSE Tail(segs)[i - 2]
  <2>. DEFINE u == Tail(segs)
  <2>1. u \in Seq(SegmentType) /\ Len(u) = Len(segs) - 1
    BY <1>3
  <2>. HIDE DEF u
  <2>2. /\ d \o u \in Seq(SegmentType) /\ Len(d \o u) = Len(d) + Len(u)
        /\ \A i \in 1..(Len(d) + Len(u)) : (d \o u)[i] = IF i <= Len(d) THEN d[i] ELSE u[i - Len(d)]
    BY ONLY <1>9, <2>1, ConcatProperties
  <2>3. /\ d \o u \in Seq(SegmentType) /\ Len(d \o u) = 2 + (Len(segs) - 1)
        /\ \A i \in 1..(2 + (Len(segs) - 1)) : (d \o u)[i] = IF i <= 2 THEN d[i] ELSE u[i - 2]
    BY ONLY <1>9, <2>1, <2>2
  <2>4. t = d \o u
    BY ONLY <1>10 DEF u
  <2>. HIDE DEF d
  <2>. QED
    BY ONLY <2>3, <2>4 DEF u
<1>12. /\ Recorded(segs, csp) \in Seq(SegmentType) /\ Len(Recorded(segs, csp)) = Len(segs)
       /\ \A i \in 1..Len(segs) : i # 1 => Recorded(segs, csp)[i] = segs[i]
       /\ Recorded(segs, csp)[1] = y
  <2>1. Recorded(segs, csp)[1] = y
    BY <1>1, <1>7
  <2>. QED
    BY <2>1, RecordedIs
<1>13. /\ P \in Seq(SegmentType) /\ Len(P) = Len(segs) + 1 /\ P[1] = x
       /\ \A i \in 1..Len(P) : i # 1 => i - 1 \in 1..Len(segs) /\ P[i] = Recorded(segs, csp)[i - 1]
  BY <1>12, PushedIs DEF x
<1>. HIDE DEF P
<1>14. ASSUME NEW i \in 1..Len(t) PROVE t[i] = P[i]
  <2>1. i \in Nat /\ i >= 1 /\ i <= Len(segs) + 1
    <3>1. Len(t) = Len(segs) + 1 /\ Len(segs) \in Nat
      BY ONLY <1>1, <1>11
    <3>. QED
      BY ONLY <1>14, <3>1
  <2>2. CASE i = 1
    <3>1. 1 \in 1..(2 + (Len(segs) - 1))
      BY <1>1
    <3>2. t[1] = d[1]
      BY ONLY <1>11, <3>1
    <3>. QED
      BY ONLY <1>9, <1>13, <2>2, <3>2
  <2>3. CASE i = 2
    <3>1. P[2] = Recorded(segs, csp)[1]
      BY <1>1, <1>13, <2>1, <2>3
    <3>. QED
      BY <1>1, <1>9, <1>11, <1>12, <2>3, <3>1
  <2>4. CASE i > 2
    <3>1. P[i] = Recorded(segs, csp)[i - 1] /\ i - 1 \in 1..Len(segs)
      BY <1>13, <2>1, <2>4, <1>1
    <3>2. Recorded(segs, csp)[i - 1] = segs[i - 1]
      BY SMTT(30), <1>12, <2>1, <2>4, <3>1
    <3>3. t[i] = Tail(segs)[i - 2]
      BY <1>1, <1>11, <2>1, <2>4
    <3>4. i - 2 \in 1..Len(Tail(segs)) /\ (i - 2) + 1 = i - 1
      BY <1>1, <1>3, <2>1, <2>4
    <3>5. Tail(segs)[i - 2] = segs[(i - 2) + 1]
      BY <1>3, <3>4
    <3>. QED
      BY <3>1, <3>2, <3>3, <3>4, <3>5
  <2>. QED
    BY <2>1, <2>2, <2>3, <2>4
<1>15. Len(t) = Len(P)
  BY <1>1, <1>11, <1>13
<1>. QED
  BY <1>11, <1>13, <1>14, <1>15, SeqEqual DEF P

\* The state of which the new segment is a part, and the old top not yet.
Written(p, m, a, size, csp) ==
    /\ IsState(p) /\ SameLists(p, m) /\ p.aborted = m.aborted
    /\ p.regions = With(m.regions, a, size) /\ p.top = a /\ p.topsize = size - TopFoot
    /\ p.least_addr = Lowest(m, a) /\ p.footprint = m.footprint + size
    /\ p.segs = Pushed(a, size, Recorded(m.segs, csp))
    /\ p.chunks = Placed(Placed(Placed(m.chunks, a, FreeHeader(size - TopFoot)), csp, InuseHeader(SegmentSize)),
                         csp + SegmentSize, Fence)

\* What add_segment writes before it fills the old top.
LEMMA WrittenIs ==
    ASSUME NEW m, IsState(m), m.segs \in Seq(SegmentType), 1 \in 1..Len(m.segs),
           NEW a \in Nat \ {0}, NEW size \in Nat \ {0}, NEW csp \in Nat,
           NEW l, l = LeastAddr(Map(m, a, size), a),
           NEW x, x = InitTop(l, a, size - TopFoot),
           NEW r, r = Put(SetSizeAndPinuseOfInuse(x, csp, SegmentSize), csp + SegmentSize, Fence),
           NEW p, p = [r EXCEPT !.segs = <<NewSegment(a, size), [Head(l.segs) EXCEPT !.record = csp]>> \o Tail(l.segs)]
    PROVE  Written(p, m, a, size, csp)
<1>. DEFINE h == FreeHeader(size - TopFoot)
            g == InuseHeader(SegmentSize)
            y == Put(x, csp, g)
<1>1. Given(l, m, a, size, Lowest(m, a))
  BY ONLY IsState(m), l = LeastAddr(Map(m, a, size), a), MapIs
<1>2. IsState(l) /\ l.segs = m.segs /\ l.chunks = m.chunks /\ l.regions = With(m.regions, a, size)
  BY ONLY <1>1 DEF Given
<1>3. Topped(x, l, a, size - TopFoot) /\ x.chunks = Placed(m.chunks, a, h)
  <2>1. Topped(x, l, a, size - TopFoot) /\ x.chunks = Placed(l.chunks, a, FreeHeader(size - TopFoot))
    BY ONLY <1>2, x = InitTop(l, a, size - TopFoot), InitTopIs
  <2>. QED
    BY ONLY <1>2, <2>1
<1>4. IsState(x)
  BY ONLY <1>3 DEF Topped, SameRest
<1>. HIDE DEF h
<1>5. Writes(y, x, Placed(x.chunks, csp, g))
  BY ONLY <1>4, PutIs
<1>6. r = Put(y, csp + SegmentSize, Fence)
  BY DEF SetSizeAndPinuseOfInuse, InuseHeader
<1>. HIDE DEF y, g
<1>7. Writes(r, x, Placed(Placed(x.chunks, csp, g), csp + SegmentSize, Fence))
  BY ONLY <1>5, <1>6, WritesPut
<1>8. /\ IsState(r) /\ SameLists(r, m) /\ r.aborted = m.aborted
      /\ r.regions = With(m.regions, a, size) /\ r.top = a /\ r.topsize = size - TopFoot
      /\ r.least_addr = Lowest(m, a) /\ r.footprint = m.footprint + size
      /\ r.chunks = Placed(Placed(Placed(m.chunks, a, h), csp, g), csp + SegmentSize, Fence)
  BY ONLY <1>1, <1>3, <1>7 DEF Given, Topped, Writes, SameRest, SameBins, SameLists, SameDv, SameTop
<1>. DEFINE t == <<NewSegment(a, size), [Head(l.segs) EXCEPT !.record = csp]>> \o Tail(l.segs)
<1>9. t = Pushed(a, size, Recorded(m.segs, csp))
  <2>1. t = <<NewSegment(a, size), [Head(m.segs) EXCEPT !.record = csp]>> \o Tail(m.segs)
    BY <1>2
  <2>. HIDE DEF t
  <2>. QED
    BY <2>1, PushedSeq
<1>10. p = [r EXCEPT !.segs = t]
  OBVIOUS
<1>. HIDE DEF t
<1>11. /\ IsState(p) /\ p.bins = r.bins /\ p.dv = r.dv /\ p.dvsize = r.dvsize /\ p.use_mmap = r.use_mmap
       /\ p.aborted = r.aborted /\ p.regions = r.regions /\ p.top = r.top /\ p.topsize = r.topsize
       /\ p.least_addr = r.least_addr /\ p.footprint = r.footprint /\ p.chunks = r.chunks /\ p.segs = t
  BY ONLY <1>8, <1>10 DEF IsState, Fields
<1>. QED
  BY ONLY <1>8, <1>9, <1>11 DEF Written, SameLists, SameDv, h, g

\* The old top, top, in the segment that ends at end, and where its record goes.
OldTop(m, end, csp) ==
    /\ Sound(m) /\ m.top # NULL
    /\ end = m.segs[1].base + m.segs[1].size
    /\ csp = IF end - TopFoot < m.top + MinChunk THEN m.top ELSE end - TopFoot

\* The old top and its segment.
LEMMA OldTopIs ==
    ASSUME NEW m, NEW end, NEW csp, OldTop(m, end, csp)
    PROVE  /\ Whole(m) /\ Binned(m, {}) /\ IsState(m) /\ 1 \in 1..Len(m.segs)
           /\ Body(m.chunks, m.top, m.segs, m.regions) /\ FirstHasTop(m.top, m.segs)
           /\ m.segs[1].base \in Nat /\ m.segs[1].base <= m.top
           /\ m.segs[1].base + m.segs[1].size = end
           /\ m.top \in Nat /\ end \in Nat /\ csp \in Nat
           /\ m.top <= csp /\ csp + TopFoot <= end /\ m.top < end
           /\ (csp # m.top => m.top < csp)
           /\ m.chunks[m.top].p /\ m.chunks[m.top].foot = 0 /\ HeaderOk(m.chunks[m.top])
           /\ DOMAIN m.chunks \cap Window(m.top, end) = {m.top}
           /\ \A t \in Spaces(m.chunks, m.segs) \ {SegmentSpace(m.segs[1])} : t.end <= m.top \/ end <= t.base
<1>. DEFINE ch == m.chunks
            segs == m.segs
            S == Spaces(ch, segs)
            s == SegmentSpace(segs[1])
<1>1. /\ Whole(m) /\ Binned(m, {}) /\ IsState(m)
      /\ end = segs[1].base + segs[1].size /\ m.top # NULL
      /\ csp = IF end - TopFoot < m.top + MinChunk THEN m.top ELSE end - TopFoot
  BY DEF OldTop, Sound, Whole
<1>2. Body(ch, m.top, segs, m.regions) /\ FirstHasTop(m.top, segs)
  BY <1>1, StructureIsBody DEF Whole
<1>3. /\ 1 \in 1..Len(segs)
      /\ segs[1].base \in Nat /\ segs[1].size \in Nat
      /\ m.top \in Nat /\ m.top \in FreeAt(ch) /\ m.top \in DOMAIN ch
      /\ segs[1].base <= m.top /\ m.top < segs[1].base + segs[1].size
      /\ After(ch, m.top) \in Nat /\ m.top < After(ch, m.top)
      /\ After(ch, m.top) + TopFoot = segs[1].base + segs[1].size /\ s \in S
  BY SMTT(30), <1>1, <1>2, FirstIs
<1>4. /\ end \in Nat /\ csp \in Nat /\ m.top <= csp /\ csp + TopFoot <= end /\ m.top < end
      /\ (csp # m.top => m.top < csp)
  <2>1. ASSUME NEW t \in Nat, NEW d \in Nat, NEW b \in Nat, t < b, b + 5 = d,
               NEW c, c = IF d - 5 < t + 2 THEN t ELSE d - 5
        PROVE  c \in Nat /\ t <= c /\ c + 5 <= d /\ (c # t => t < c)
    BY ONLY <2>1
  <2>2. end \in Nat /\ TopFoot = 5 /\ MinChunk = 2
    BY SMTT(30), <1>1, <1>3 DEF TopFoot, SegmentSize, MinChunk
  <2>3. /\ m.top \in Nat /\ end \in Nat /\ After(ch, m.top) \in Nat /\ m.top < After(ch, m.top)
        /\ After(ch, m.top) + 5 = end
        /\ csp = IF end - 5 < m.top + 2 THEN m.top ELSE end - 5
    BY <1>1, <1>3, <2>2
  <2>4. csp \in Nat /\ m.top <= csp /\ csp + 5 <= end /\ (csp # m.top => m.top < csp)
    BY ONLY <2>1, <2>3
  <2>. QED
    BY <1>1, <1>3, <2>2, <2>4
<1>5. ch[m.top].p /\ ch[m.top].foot = 0 /\ HeaderOk(ch[m.top])
  <2>1. HeaderOk(ch[m.top])
    BY <1>2, <1>3, BodyTypes
  <2>. QED
    BY <1>3, <2>1 DEF FreeAt, HeaderOk
<1>. HIDE DEF S, s
<1>6. \A t \in S \ {s} : t.end <= m.top \/ end <= t.base
  <2>1. ASSUME NEW t \in S, t # s PROVE t.end <= m.top \/ end <= t.base
    <3>0. SpacesOk(S, m.regions)
      BY <1>2 DEF Body, S
    <3>1. Separate(s, t) /\ t.base \in Nat /\ t.end \in Nat
      BY <1>3, <2>1, <3>0, SpaceFacts
    <3>2. t.end <= segs[1].base \/ end <= t.base
      BY <1>1, <3>1 DEF Separate, s, SegmentSpace
    <3>. QED
      BY <1>3, <3>1, <3>2
  <2>. QED
    BY <2>1
<1>7. DOMAIN ch \cap Window(m.top, end) = {m.top}
  <2>1. segs[1].base + segs[1].size <= end /\ end \in Nat /\ m.top # NULL
    BY <1>1, <1>3, <1>4
  <2>2. \A t \in Spaces(ch, segs) \ {SegmentSpace(segs[1])} : t.end <= m.top \/ end <= t.base
    BY <1>6 DEF S, s
  <2>. QED
    BY ONLY <1>2, <2>1, <2>2, TopAlone
<1>. QED
  BY <1>1, <1>2, <1>3, <1>4, <1>5, <1>6, <1>7 DEF S, s

\* The state q with the old top in use.
ClosedState(q, p, m, end, csp, a, size) ==
    /\ OldTop(m, end, csp) /\ NewRegion(m, a, size) /\ size > TopFoot
    /\ Written(p, m, a, size, csp)
    /\ Wrote(q, p) /\ q.chunks = Closing(p.chunks, m.top, csp)

\* What is written closes the old segment and adds the new one.
LEMMA ClosedAdds ==
    ASSUME NEW q, NEW p, NEW m, NEW end, NEW csp, NEW a, NEW size, ClosedState(q, p, m, end, csp, a, size),
           NEW e, e = a + size
    PROVE  /\ Added(m.chunks, m.top, end, a, e, csp, FreeHeader(size - TopFoot), p.chunks)
           /\ a \in Nat \ {0} /\ size \in Nat /\ e \in Nat /\ a < e /\ DOMAIN m.chunks \cap Window(a, e) = {}
           /\ SpacesOk(Spaces(m.chunks, m.segs) \cup {Space(a, e)}, With(m.regions, a, size))
           /\ \A t \in Spaces(m.chunks, m.segs) : t.end <= a \/ e <= t.base
           /\ Headed(FreeHeader(size - TopFoot), size - TopFoot, FALSE, TRUE, 0)
<1>. DEFINE h == FreeHeader(size - TopFoot)
            S == Spaces(m.chunks, m.segs)
<1>1. /\ OldTop(m, end, csp) /\ NewRegion(m, a, size) /\ size > TopFoot
      /\ Written(p, m, a, size, csp)
  BY DEF ClosedState
<1>2. /\ Whole(m) /\ Body(m.chunks, m.top, m.segs, m.regions) /\ FirstHasTop(m.top, m.segs) /\ 1 \in 1..Len(m.segs)
      /\ m.segs[1].base \in Nat /\ m.segs[1].base <= m.top
      /\ m.segs[1].base + m.segs[1].size = end
      /\ m.top \in Nat /\ end \in Nat /\ csp \in Nat
      /\ m.top <= csp /\ csp + TopFoot <= end /\ m.top < end
      /\ DOMAIN m.chunks \cap Window(m.top, end) = {m.top}
  BY <1>1, OldTopIs
<1>3. /\ SpacesOk(S \cup {Space(a, e)}, With(m.regions, a, size))
      /\ e \in Nat /\ a < e /\ (\A t \in S : t.base \in Nat /\ t.end \in Nat /\ t.base < t.end /\ (t.end <= a \/ e <= t.base))
      /\ DOMAIN m.chunks \cap Window(a, e) = {}
  BY ZenonT(60), <1>1, <1>2, NewSpaceIs
<1>4. a \in Nat \ {0} /\ size \in Nat /\ TopFoot = 5 /\ size - TopFoot \in Nat /\ size - TopFoot > 0
  BY <1>1 DEF NewRegion, TopFoot, SegmentSize, MinChunk
<1>5. Headed(h, size - TopFoot, FALSE, TRUE, 0)
  BY <1>4, NewHeads
<1>6. DOMAIN m.chunks \subseteq Nat
  BY <1>2, BodyTypes
<1>7. end <= a \/ e <= m.top
  <2>1. SegmentSpace(m.segs[1]) \in S
    BY <1>2 DEF Spaces
  <2>2. end <= a \/ e <= m.segs[1].base
    BY <1>2, <1>3, <2>1 DEF SegmentSpace
  <2>. QED
    BY <1>2, <1>3, <2>2
<1>. HIDE DEF h, S
<1>8. Adding(m.chunks, m.top, end, a, e, csp, h, p.chunks)
  <2>1. h.size \in Nat /\ a + h.size <= e
    BY <1>4, <1>5 DEF Headed
  <2>2. p.chunks = Placed(Placed(Placed(m.chunks, a, h), csp, InuseHeader(SegmentSize)), csp + SegmentSize, Fence)
    BY <1>1 DEF Written, h
  <2>3. {m.top, end, a, e, csp} \subseteq Nat
    BY <1>2, <1>3, <1>4
  <2>. QED
    BY ONLY <1>2, <1>3, <1>6, <1>7, <2>1, <2>2, <2>3 DEF Adding
<1>9. Added(m.chunks, m.top, end, a, e, csp, h, p.chunks)
  BY ONLY <1>8, AddingAdds
<1>. QED
  BY <1>3, <1>4, <1>5, <1>9 DEF h, S

\* What callers are taken to hold of it.
Kept1(top, csp) == IF csp = top THEN {} ELSE {top}

\* A state with the old segment closed and the new one opened.
ClosedIs(q, m, csp, a, room) ==
    /\ Sound(q) /\ Frame(q, m, {}, Kept1(m.top, csp)) /\ q.top = a /\ q.topsize = room /\ a # NULL

\* That is what add_segment comes to.
LEMMA ClosedStateIs ==
    ASSUME NEW q, NEW p, NEW m, NEW end, NEW csp, NEW a, NEW size, ClosedState(q, p, m, end, csp, a, size)
    PROVE  ClosedIs(q, m, csp, a, size - TopFoot)
<1>. DEFINE e == a + size
            h == FreeHeader(size - TopFoot)
            ch == m.chunks
            c2 == q.chunks
            c1 == Restrict(c2, DOMAIN c2 \ Window(a, e))
            W == Window(m.top, end)
            segs1 == Recorded(m.segs, csp)
            f == csp + SegmentSize
<1>1. /\ OldTop(m, end, csp) /\ NewRegion(m, a, size) /\ size > TopFoot
      /\ Written(p, m, a, size, csp) /\ Wrote(q, p) /\ c2 = Closing(p.chunks, m.top, csp)
  BY DEF ClosedState
<1>2. /\ Whole(m) /\ Binned(m, {}) /\ 1 \in 1..Len(m.segs)
      /\ Body(ch, m.top, m.segs, m.regions) /\ FirstHasTop(m.top, m.segs)
      /\ m.segs[1].base + m.segs[1].size = end
      /\ m.top \in Nat /\ end \in Nat /\ csp \in Nat
      /\ m.top <= csp /\ csp + TopFoot <= end /\ m.top < end /\ (csp # m.top => m.top < csp)
      /\ DOMAIN ch \cap W = {m.top}
      /\ \A t \in Spaces(ch, m.segs) \ {SegmentSpace(m.segs[1])} : t.end <= m.top \/ end <= t.base
  BY <1>1, OldTopIs
<1>3. Sound(m) /\ m.top # NULL
  BY <1>1 DEF OldTop
<1>4. /\ Added(ch, m.top, end, a, e, csp, h, p.chunks)
      /\ a \in Nat \ {0} /\ size \in Nat /\ e \in Nat /\ a < e /\ DOMAIN ch \cap Window(a, e) = {}
      /\ SpacesOk(Spaces(ch, m.segs) \cup {Space(a, e)}, With(m.regions, a, size))
      /\ \A t \in Spaces(ch, m.segs) : t.end <= a \/ e <= t.base
      /\ Headed(h, size - TopFoot, FALSE, TRUE, 0)
  BY ClosedAdds
<1>5. SegmentSize = 3 /\ TopFoot = 5 /\ f # m.top /\ f # csp /\ f = csp + 3
  BY <1>2 DEF SegmentSize, TopFoot, MinChunk
<1>. HIDE DEF h, e
<1>6. /\ SameOutside(ch, c1, W) /\ DOMAIN c1 \cap W = {m.top, csp, f}
      /\ c1[csp] = InuseHeader(SegmentSize) /\ c1[f] = IF f = m.top THEN c2[m.top] ELSE Fence
      /\ csp # m.top => c1[m.top] = InuseHeader(csp - m.top)
      /\ SameOutside(c1, c2, Window(a, e)) /\ DOMAIN c2 \cap Window(a, e) = {a} /\ c2[a] = h
  <2>1. c2 = Closing(p.chunks, m.top, csp) /\ c1 = Restrict(c2, DOMAIN c2 \ Window(a, e))
    BY <1>1
  <2>. HIDE DEF c1, c2
  <2>2. /\ SameOutside(ch, c1, Window(m.top, end)) /\ DOMAIN c1 \cap Window(m.top, end) = {m.top, csp, csp + SegmentSize}
        /\ c1[csp] = InuseHeader(SegmentSize) /\ c1[csp + SegmentSize] = IF csp + SegmentSize = m.top THEN c2[m.top] ELSE Fence
        /\ csp # m.top => c1[m.top] = InuseHeader(csp - m.top)
        /\ SameOutside(c1, c2, Window(a, e)) /\ DOMAIN c2 \cap Window(a, e) = {a} /\ c2[a] = h
    <3>1. /\ Added(ch, m.top, end, a, e, csp, h, p.chunks)
          /\ a \in Nat /\ e \in Nat /\ a < e /\ DOMAIN ch \cap Window(a, e) = {}
      BY <1>4
    <3>. DEFINE t == m.top
                c0 == p.chunks
    <3>2. /\ Added(ch, t, end, a, e, csp, h, c0)
          /\ a \in Nat /\ e \in Nat /\ a < e /\ DOMAIN ch \cap Window(a, e) = {}
          /\ c2 = Closing(c0, t, csp) /\ c1 = Restrict(c2, DOMAIN c2 \ Window(a, e))
      BY <2>1, <3>1
    <3>. HIDE DEF t, c0, ch
    <3>3. /\ SameOutside(ch, c1, Window(t, end)) /\ DOMAIN c1 \cap Window(t, end) = {t, csp, csp + SegmentSize}
          /\ c1[csp] = InuseHeader(SegmentSize) /\ c1[csp + SegmentSize] = IF csp + SegmentSize = t THEN c2[t] ELSE Fence
          /\ csp # t => c1[t] = InuseHeader(csp - t)
          /\ SameOutside(c1, c2, Window(a, e)) /\ DOMAIN c2 \cap Window(a, e) = {a} /\ c2[a] = h
      <4>1. Closes(ch, t, end, a, e, csp, h, c0, c1, c2)
        BY ONLY <3>2 DEF Closes
      <4>. QED
        BY ONLY <4>1, ClosingIs
    <3>. QED
      BY <3>3 DEF t
  <2>. QED
    BY <2>2
<1>. HIDE DEF c1, c2
<1>7. c1[f] = Fence
  BY <1>5, <1>6
<1>8. Headed(c1[csp], SegmentSize, TRUE, TRUE, 0)
  <2>1. SegmentSize \in Nat /\ SegmentSize > 0
    BY <1>5
  <2>2. Headed(InuseHeader(SegmentSize), SegmentSize, TRUE, TRUE, 0)
    BY <2>1, NewHeads
  <2>. QED
    BY <1>6, <2>2
<1>9. csp # m.top => Headed(c1[m.top], csp - m.top, TRUE, TRUE, 0)
  <2>1. ASSUME csp # m.top PROVE Headed(c1[m.top], csp - m.top, TRUE, TRUE, 0)
    <3>1. csp - m.top \in Nat /\ csp - m.top > 0
      BY <1>2, <2>1
    <3>. DEFINE s == csp - m.top
    <3>2. s \in Nat /\ s > 0 /\ c1[m.top] = InuseHeader(s)
      BY <1>6, <2>1, <3>1
    <3>. HIDE DEF s
    <3>3. Headed(InuseHeader(s), s, TRUE, TRUE, 0)
      BY <3>2, NewHeads
    <3>4. Headed(c1[m.top], s, TRUE, TRUE, 0)
      BY <3>2, <3>3
    <3>. QED
      BY <3>4 DEF s
  <2>. QED
    BY <2>1
<1>10. m.top \in DOMAIN c1 /\ csp \in DOMAIN c1 /\ f \in DOMAIN c1
  BY <1>6
<1>11. HeaderOk(c1[m.top]) /\ c1[m.top].p
  <2>1. CASE csp = m.top
    BY <1>8, <2>1 DEF Headed
  <2>2. CASE csp # m.top
    BY <1>9, <2>2 DEF Headed
  <2>. QED
    BY <2>1, <2>2
<1>12. TopClosed(ch, m.top, m.segs, m.regions, c1, end, csp)
  <2>1. AtTop(ch, m.top, m.segs, m.regions, c1, end)
    <3>1. m.segs[1].base + m.segs[1].size <= end
      BY <1>2
    <3>. QED
      BY <1>2, <1>3, <1>6, <1>10, <1>11, <3>1 DEF AtTop
  <2>2. DOMAIN c1 \cap Window(m.top, end) = {m.top, csp, csp + SegmentSize} /\ c1[csp + SegmentSize] = Fence
    BY <1>6, <1>7
  <2>. QED
    BY <1>2, <1>8, <1>9, <2>1, <2>2 DEF TopClosed
<1>13. /\ Body(c1, NULL, segs1, m.regions) /\ AllRecorded(segs1)
       /\ Spaces(c1, segs1) = Spaces(ch, m.segs)
       /\ Len(segs1) = Len(m.segs) /\ segs1[1].record = csp
       /\ \A i \in 1..Len(m.segs) : i # 1 => segs1[i] = m.segs[i]
  BY <1>12, CloseTop
<1>. HIDE DEF segs1
<1>14. /\ IsState(p) /\ SameLists(p, m) /\ p.aborted = m.aborted
       /\ p.regions = With(m.regions, a, size) /\ p.top = a /\ p.topsize = size - TopFoot
       /\ p.least_addr = Lowest(m, a) /\ p.footprint = m.footprint + size /\ p.segs = Pushed(a, size, segs1)
  BY <1>1 DEF Written, segs1
<1>15. /\ IsState(q) /\ SameLists(q, m) /\ q.aborted = m.aborted
       /\ q.regions = With(m.regions, a, size) /\ q.top = a /\ q.topsize = size - TopFoot
       /\ q.least_addr = Lowest(m, a) /\ q.footprint = m.footprint + size /\ q.segs = Pushed(a, size, segs1)
  BY <1>1, <1>14 DEF Wrote, SameRest, SameBins, SameTop, SameLists, SameDv
<1>16. TopOpened(c1, segs1, m.regions, q.chunks, q.regions, a, size)
  <2>1. /\ \A t \in Spaces(c1, segs1) : t.end <= a \/ a + size <= t.base
        /\ SpacesOk(Spaces(c1, segs1) \cup {Space(a, a + size)}, q.regions)
        /\ SameOutside(c1, c2, Window(a, a + size)) /\ DOMAIN c2 \cap Window(a, a + size) = {a}
    BY <1>4, <1>6, <1>13, <1>15 DEF e
  <2>2. Headed(c2[a], size - TopFoot, FALSE, TRUE, 0)
    BY <1>4, <1>6
  <2>3. a \in Nat \ {0} /\ size \in Nat /\ TopFoot < size
    BY <1>1, <1>4, <1>5
  <2>. QED
    BY <1>13, <2>1, <2>2, <2>3 DEF TopOpened, c2
<1>17. /\ {m.top, csp, f} \cap (FreeAt(c1) \cup Direct(c1)) = {} /\ {m.top, csp} \subseteq Ord(c1) /\ f \notin Ord(c1)
       /\ m.top \in Nat \ {0} /\ csp \in Nat \ {0}
  BY <1>12, ClosedChunks
<1>18. SegmentRecords(segs1) = SegmentRecords(m.segs) \cup {csp}
  <2>1. \A i \in 1..Len(m.segs) : m.segs[i].record = NULL <=> i = 1
    BY <1>2 DEF FirstHasTop
  <2>2. csp # NULL
    BY <1>17 DEF NULL
  <2>3. ASSUME NEW r \in SegmentRecords(segs1) PROVE r \in SegmentRecords(m.segs) \cup {csp}
    BY <1>13, <2>3 DEF SegmentRecords
  <2>4. ASSUME NEW r \in SegmentRecords(m.segs) PROVE r \in SegmentRecords(segs1)
    <3>1. PICK i \in 1..Len(m.segs) : r = m.segs[i].record /\ r # NULL
      BY <2>4 DEF SegmentRecords
    <3>. QED
      BY <1>13, <2>1, <3>1 DEF SegmentRecords
  <2>5. csp \in SegmentRecords(segs1)
    BY <1>2, <1>13, <2>2 DEF SegmentRecords
  <2>. QED
    BY <2>3, <2>4, <2>5
<1>19. \A q1 \in W : q1 \in Nat /\ m.top <= q1
  BY <1>2 DEF Window
<1>20. m.top \in FreeAt(ch)
  BY <1>2, <1>3, BodyTypes
<1>21. csp \in W /\ m.top \in W
  BY <1>6
<1>22. /\ \A c : Ord(c) \subseteq DOMAIN c /\ FreeAt(c) \subseteq DOMAIN c /\ Direct(c) \subseteq DOMAIN c
       /\ FreeAt(ch) \cap Direct(ch) = {}
  BY DEF Ord, FreeAt, Direct
<1>. HIDE DEF W, f
<1>23. m.top \notin SegmentRecords(m.segs)
  <2>1. Structure(ch, m.top, m.segs, m.regions)
    BY <1>2 DEF Whole
  <2>. QED
    BY <1>20, <2>1, FreeNoRecord
<1>24. Taken(c1, segs1) \cap W = Kept1(m.top, csp)
  <2>1. Taken(c1, segs1) \cap W \subseteq {m.top, csp, f}
    BY <1>6, <1>22 DEF Taken
  <2>2. csp \notin Taken(c1, segs1)
    BY <1>18 DEF Taken
  <2>3. f \notin Taken(c1, segs1)
    BY <1>17 DEF Taken
  <2>4. ASSUME csp # m.top PROVE m.top \in Taken(c1, segs1)
    BY <1>17, <1>18, <1>23, <2>4 DEF Taken
  <2>. QED
    BY <1>21, <2>1, <2>2, <2>3, <2>4 DEF Kept1
<1>25. Used(m) \cap W = {}
  <2>1. Used(m) \subseteq (Ord(ch) \cup Direct(ch)) \ {m.top}
    BY <1>20, <1>22 DEF Used
  <2>. QED
    BY <1>2, <1>22, <2>1 DEF W
<1>26. Opened(m, q, c1, segs1, W, Kept1(m.top, csp), a, size)
  <2>1. SameOutside(m.chunks, c1, W)
    BY <1>6 DEF W
  <2>2. \A q1 \in W : q1 \in Nat /\ \E p1 \in DOMAIN m.chunks : p1 <= q1
    BY <1>19, <1>20, <1>22
  <2>3. m.top \in W \cup {NULL} /\ FreeAt(m.chunks) \cap W \subseteq {m.top} /\ FreeAt(c1) \cap W = {}
    BY <1>2, <1>6, <1>17, <1>21, <1>22 DEF W
  <2>4. SegmentRecords(segs1) \ W = SegmentRecords(m.segs) \ W
    BY <1>18, <1>21
  <2>5. Kept1(m.top, csp) = Taken(c1, segs1) \cap W /\ Used(m) \cap W = {}
    BY <1>24, <1>25
  <2>6. Counts(q, m)
    BY <1>1, <1>2, <1>15, NewRegionCounts
  <2>. QED
    BY ONLY <1>3, <1>15, <1>16, <2>1, <2>2, <2>3, <2>4, <2>5, <2>6 DEF Opened
<1>27. Sound(q) /\ Frame(q, m, {}, Kept1(m.top, csp))
  BY ONLY <1>26, OpenedSound
<1>28. a # NULL
  BY <1>4 DEF NULL
<1>. QED
  BY <1>15, <1>27, <1>28 DEF ClosedIs

\* Nothing written.
LEMMA WroteSame ==
    ASSUME NEW p, IsState(p) PROVE Wrote(p, p)
BY DEF Wrote, SameRest, SameBins, SameTop

\* The rest of the old top is free.
LEMMA RestIsFree ==
    ASSUME NEW m, NEW p, NEW end, NEW csp, NEW a, NEW size, OldTop(m, end, csp), NewRegion(m, a, size), size > TopFoot,
           Written(p, m, a, size, csp), csp # m.top,
           NEW n, n = InsertChunk(SetFreeWithPinuse(p, m.top, csp - m.top, csp), m.top, csp - m.top)
    PROVE  Kept(n, m) /\ n.top = a /\ n.topsize = size - TopFoot /\ a # NULL
<1>. DEFINE t == m.top
            s == csp - t
            c0 == p.chunks
            c2 == Closing(c0, t, csp)
            q == [p EXCEPT !.chunks = c2]
            k == SetFreeWithPinuse(p, t, s, csp)
            room == size - TopFoot
<1>1. IsState(p) /\ p.top = a
  BY DEF Written
<1>2. Wrote(q, p) /\ q.chunks = c2 /\ IsState(q)
  BY <1>1 DEF Wrote, SameRest, SameBins, SameTop, IsState, Fields
<1>. HIDE DEF q
<1>3. ClosedState(q, p, m, end, csp, a, size)
  BY <1>2 DEF ClosedState
<1>4. ClosedIs(q, m, csp, a, room)
  BY <1>3, ClosedStateIs
<1>. HIDE DEF room
<1>5. /\ Sound(q) /\ Frame(q, m, {}, {t}) /\ q.top = a /\ q.topsize = room /\ a # NULL
  BY <1>4 DEF ClosedIs, Kept1
<1>6. /\ t \in Nat /\ csp \in Nat /\ t < csp
      /\ m.chunks[t].p /\ m.chunks[t].foot = 0 /\ HeaderOk(m.chunks[t])
      /\ Whole(m) /\ Binned(m, {})
  BY OldTopIs
<1>7. Added(m.chunks, t, end, a, a + size, csp, FreeHeader(size - TopFoot), c0)
  BY <1>3, ClosedAdds
<1>8. c0[t] = m.chunks[t] /\ t \in DOMAIN c0 /\ csp \in DOMAIN c0
  BY <1>7 DEF Added
<1>9. DOMAIN c2 = DOMAIN c0 /\ c2[t] = InuseHeader(s) /\ \A x \in DOMAIN c0 : x # t => c2[x] = c0[x]
  BY <1>8 DEF Closing
<1>10. s \in Nat /\ s > 0 /\ t + s = csp /\ s = csp - t
  BY <1>6
<1>11. Headed(c2[t], s, TRUE, TRUE, 0)
  <2>1. Headed(InuseHeader(s), s, TRUE, TRUE, 0)
    BY <1>10, NewHeads
  <2>. HIDE DEF c2, s
  <2>. QED
    BY <1>9, <2>1
<1>. HIDE DEF c2, s, c0, k
<1>12. c2[t].c /\ c2[t].p /\ c2[t].foot = 0 /\ c2[t].size = s
  BY <1>11 DEF Headed
<1>13. t \in Used(q) /\ Whole(q) /\ Binned(q, {})
  <2>1. t \in {t}
    OBVIOUS
  <2>. QED
    BY <1>5, <2>1 DEF Frame, Sound
<1>14. /\ Block(c2, q.segs, t, csp, {t}) /\ csp \in Ord(c2)
  <2>1. After(c2, t) = csp
    BY <1>10, <1>12 DEF After
  <2>2. q.chunks[t].c
    BY <1>2, <1>12
  <2>3. Block(q.chunks, q.segs, t, After(q.chunks, t), {t}) /\ After(q.chunks, t) \in Ord(q.chunks)
    BY <1>13, <2>2, BehindUsed
  <2>. QED
    BY <1>2, <2>1, <2>3
<1>15. Ends(c2, t, csp)
  <2>1. Structure(c2, q.top, q.segs, q.regions)
    BY <1>2, <1>13 DEF Whole
  <2>. QED
    BY <1>14, <2>1, BlockEnds
<1>16. c2[csp] = c0[csp] /\ c2[csp].size > 0 /\ c2[csp].c
  <2>1. c2[csp] = InuseHeader(SegmentSize)
    <3>1. c0[csp] = InuseHeader(SegmentSize) /\ csp # t
      BY <1>7 DEF Added, t
    <3>. QED
      BY <1>8, <1>9, <3>1
  <2>. QED
    BY <1>6, <1>8, <1>9, <2>1 DEF InuseHeader, Header, SegmentSize
<1>17. Ends(c0, t, csp)
  <2>1. \A x \in DOMAIN c0 : x \in Nat /\ HeaderOk(c0[x])
    BY <1>6, <1>8, <1>9, <1>15 DEF Ends
  <2>2. csp \in DOMAIN c0 => \A x \in DOMAIN c0 : x <= csp \/ csp + c0[csp].size <= x
    BY <1>9, <1>15, <1>16 DEF Ends
  <2>. QED
    BY <1>6, <1>8, <2>1, <2>2 DEF Ends
<1>18. Wrote(k, p) /\ One(c0, k.chunks, t, csp, FALSE)
  <2>1. /\ Ends(p.chunks, t, csp) /\ csp \in DOMAIN p.chunks /\ p.chunks[t].p /\ p.chunks[csp].size > 0
        /\ k = SetFreeWithPinuse(p, t, csp - t, csp)
    BY <1>6, <1>8, <1>16, <1>17 DEF c0, s, k
  <2>2. Wrote(k, p) /\ One(p.chunks, k.chunks, t, csp, FALSE)
    <3>. HIDE DEF t
    <3>. QED
      BY ONLY <1>1, <2>1, SetFreeWithPinuseIs
  <2>. QED
    BY <2>2 DEF c0
<1>19. One(c2, k.chunks, t, csp, FALSE)
  <2>1. /\ Else(c0, k.chunks, t, csp, {t})
        /\ Headed(k.chunks[t], csp - t, FALSE, c0[t].p, c0[t].foot)
        /\ Told(c0, k.chunks, csp, FALSE, csp - t)
    BY <1>18 DEF One
  <2>2. Else(c2, k.chunks, t, csp, {t})
    BY <1>6, <1>9, <2>1 DEF Else
  <2>3. c0[t].p = TRUE /\ c2[t].p = TRUE /\ c0[t].foot = 0 /\ c2[t].foot = 0
    <3>1. c0[t].p \in BOOLEAN /\ c2[t].p \in BOOLEAN
      BY <1>6, <1>8, <1>11 DEF HeaderOk, Headed
    <3>. QED
      BY SMTT(30), <1>6, <1>8, <1>12, <3>1
  <2>4. Headed(k.chunks[t], csp - t, FALSE, c2[t].p, c2[t].foot)
    BY <2>1, <2>3, Zenon
  <2>5. Told(c2, k.chunks, csp, FALSE, csp - t)
    BY <1>9, <1>16, <2>1 DEF Told
  <2>. QED
    BY <2>2, <2>4, <2>5 DEF One
<1>. DEFINE n1 == InsertChunk(k, t, s)
<1>20. n = n1
  BY DEF k, s
<1>21. IsState(k)
  BY <1>18 DEF Wrote, SameRest
<1>22. BinsOnly(n, k) /\ SameDv(n, k) /\ n.bins = k.bins \cup {[at |-> t, size |-> s]}
  <2>1. BinsOnly(n1, k) /\ SameDv(n1, k) /\ n1.bins = k.bins \cup {[at |-> t, size |-> s]}
    BY ONLY <1>21, InsertIs
  <2>. HIDE DEF n1
  <2>. QED
    BY ONLY <1>20, <2>1
<1>23. /\ SameRest(n, q) /\ SameTop(n, q) /\ SameDv(n, q) /\ n.bins = q.bins \cup {[at |-> t, size |-> s]}
       /\ n.chunks = k.chunks
  BY ONLY <1>2, <1>18, <1>22 DEF BinsOnly, Wrote, SameRest, SameTop, SameBins, SameDv
<1>24. q.dv # t /\ q.top # t
  <2>1. q.top # t
    BY <1>13, UsedIs
  <2>2. q.dv # t
    <3>1. ASSUME q.dv = t PROVE FALSE
      <4>1. t # NULL /\ t \notin FreeAt(q.chunks)
        BY <1>13, UsedIs
      <4>2. q.dv \in FreeAt(q.chunks)
        BY <1>13, <3>1, <4>1 DEF Binned
      <4>. QED
        BY <3>1, <4>1, <4>2
    <3>. QED
      BY <3>1
  <2>. QED
    BY <2>1, <2>2
<1>25. Cleared(q, {}, t, csp, {t})
  <2>1. t \notin FreeAt(q.chunks)
    BY <1>13, UsedIs
  <2>. QED
    BY <1>2, <1>13, <1>14, <2>1 DEF Cleared
<1>26. Sound(n) /\ Frame(n, q, {t}, {})
  <2>1. /\ Cleared(q, {}, t, csp, {t}) /\ csp \in DOMAIN q.chunks /\ q.top \notin {t}
        /\ q.chunks[t].p /\ q.chunks[csp].c /\ SameRest(n, q) /\ SameTop(n, q)
        /\ One(q.chunks, n.chunks, t, csp, FALSE)
        /\ n.bins = q.bins \cup {[at |-> t, size |-> csp - t]} /\ SameDv(n, q) /\ q.dv \notin {t}
    BY <1>2, <1>8, <1>9, <1>10, <1>12, <1>16, <1>19, <1>23, <1>24, <1>25
  <2>. HIDE DEF t
  <2>. QED
    BY ONLY <2>1, MadeFree
<1>27. Frame(n, m, {}, {})
  <2>1. t \notin Used(m)
    <3>1. t \in FreeAt(m.chunks)
      <4>1. m.top # NULL
        BY DEF OldTop
      <4>. QED
        BY <1>6, <4>1, ChunkTypes DEF Whole
    <3>. QED
      BY <3>1, UsedNotFree
  <2>2. {t} \subseteq {t} /\ {t} \cap (Used(m) \ {}) = {}
    BY <2>1
  <2>3. Frame(n, m, {}, ({t} \ {t}) \cup {})
    BY ONLY <1>5, <1>26, <2>2, FrameThen
  <2>4. ({t} \ {t}) \cup {} = {}
    OBVIOUS
  <2>. QED
    BY ONLY <2>3, <2>4
<1>. QED
  BY <1>5, <1>23, <1>26, <1>27 DEF Kept, SameTop, room

\* add_segment keeps the heap sound and its top has the room of the region.
LEMMA AddSegmentIs ==
    ASSUME NEW m, Sound(m), m.top # NULL, NEW a, NEW size, NewRegion(m, a, size), size > TopFoot,
           NEW n, n = AddSegment(LeastAddr(Map(m, a, size), a), a, size)
    PROVE  Widened(n, m, size - TopFoot)
<1>. DEFINE l == LeastAddr(Map(m, a, size), a)
            end == m.segs[1].base + m.segs[1].size
            asp == end - TopFoot
            csp == IF asp < m.top + MinChunk THEN m.top ELSE asp
            x == InitTop(l, a, size - TopFoot)
            r == Put(SetSizeAndPinuseOfInuse(x, csp, SegmentSize), csp + SegmentSize, Fence)
            p == [r EXCEPT !.segs = <<NewSegment(a, size), [Head(l.segs) EXCEPT !.record = csp]>> \o Tail(l.segs)]
            k == InsertChunk(SetFreeWithPinuse(p, m.top, csp - m.top, csp), m.top, csp - m.top)
<1>1. Whole(m) /\ Binned(m, {}) /\ IsState(m)
  BY DEF Sound, Whole
<1>2. Body(m.chunks, m.top, m.segs, m.regions) /\ FirstHasTop(m.top, m.segs)
  BY <1>1, StructureIsBody DEF Whole
<1>3. /\ m.segs \in Seq(SegmentType) /\ DOMAIN m.segs = 1..Len(m.segs) /\ 1 \in 1..Len(m.segs)
  BY <1>2, FirstIs, SequenceTypes DEF Body
<1>4. Given(l, m, a, size, Lowest(m, a))
  BY <1>1, MapIs
<1>5. l.segs = m.segs /\ l.top = m.top
  BY <1>4 DEF Given, SameTop
<1>6. SegmentHolding(l, m.top) = 1
  <2>1. \A j \in DOMAIN m.segs : Holds(m.segs[j], m.top) <=> j = 1
    BY <1>2, <1>3, OneSegment
  <2>. HIDE DEF l
  <2>. QED
    BY <1>3, <1>5, <2>1 DEF SegmentHolding
<1>7. AddSegment(l, a, size) = IF csp = m.top THEN p ELSE k
  <2>. HIDE DEF l
  <2>. DEFINE oldSeg == l.segs[SegmentHolding(l, l.top)]
              lasp == oldSeg.base + oldSeg.size - TopFoot
              lcsp == IF lasp < l.top + MinChunk THEN l.top ELSE lasp
              lr == Put(SetSizeAndPinuseOfInuse(x, lcsp, SegmentSize), lcsp + SegmentSize, Fence)
              lp == [lr EXCEPT !.segs = <<NewSegment(a, size), [Head(l.segs) EXCEPT !.record = lcsp]>> \o Tail(l.segs)]
              lk == InsertChunk(SetFreeWithPinuse(lp, l.top, lcsp - l.top, lcsp), l.top, lcsp - l.top)
  <2>1. AddSegment(l, a, size) = IF lcsp = l.top THEN lp ELSE lk
    BY Zenon DEF AddSegment, NewSegment
  <2>2. lcsp = csp
    <3>1. l.top = m.top /\ oldSeg = m.segs[1]
      BY <1>5, <1>6
    <3>. HIDE DEF oldSeg
    <3>2. lasp = asp
      <4>1. m.segs[1].base \in Nat /\ m.segs[1].size \in Nat /\ TopFoot \in Nat
        BY <1>3, SequenceTypes DEF TopFoot, SegmentSize, MinChunk
      <4>. QED
        BY ONLY <3>1, <4>1
    <3>. HIDE DEF lasp, asp
    <3>. QED
      BY ONLY <3>1, <3>2
  <2>. HIDE DEF lcsp, csp, x
  <2>3. lp = p
    BY <2>2
  <2>. HIDE DEF lp, p
  <2>4. lk = k
    BY <1>5, <2>2, <2>3
  <2>. HIDE DEF lk, k
  <2>. QED
    BY SMTT(30), <1>5, <2>1, <2>2, <2>3, <2>4
<1>8. OldTop(m, end, csp)
  BY DEF OldTop
<1>9. csp \in Nat /\ a \in Nat \ {0} /\ size \in Nat \ {0}
  <2>. HIDE DEF csp, end
  <2>. QED
    BY <1>8, OldTopIs DEF NewRegion
<1>10. Written(p, m, a, size, csp)
  <2>1. l = LeastAddr(Map(m, a, size), a)
    OBVIOUS
  <2>. HIDE DEF l, csp
  <2>2. x = InitTop(l, a, size - TopFoot)
    OBVIOUS
  <2>. HIDE DEF x
  <2>3. r = Put(SetSizeAndPinuseOfInuse(x, csp, SegmentSize), csp + SegmentSize, Fence)
    OBVIOUS
  <2>. HIDE DEF r
  <2>4. p = [r EXCEPT !.segs = <<NewSegment(a, size), [Head(l.segs) EXCEPT !.record = csp]>> \o Tail(l.segs)]
    OBVIOUS
  <2>. HIDE DEF p
  <2>. QED
    BY ONLY <1>1, <1>3, <1>9, <2>1, <2>2, <2>3, <2>4, WrittenIs
<1>. HIDE DEF l, end, csp, p
<1>11. CASE csp = m.top
  <2>1. IsState(p)
    BY <1>10 DEF Written
  <2>2. p.chunks = Closing(p.chunks, m.top, csp)
    <3>. DEFINE c == Placed(Placed(m.chunks, a, FreeHeader(size - TopFoot)), csp, InuseHeader(SegmentSize))
                f == csp + SegmentSize
    <3>1. p.chunks = Placed(c, f, Fence)
      BY <1>10 DEF Written
    <3>. HIDE DEF c, f
    <3>2. p.chunks = [y \in DOMAIN p.chunks |-> p.chunks[y]]
      BY <3>1 DEF Placed
    <3>3. Closing(p.chunks, m.top, csp) = [y \in DOMAIN p.chunks |-> p.chunks[y]]
      BY <1>11 DEF Closing
    <3>. QED
      BY <3>2, <3>3
  <2>3. Wrote(p, p)
    BY <2>1, WroteSame
  <2>4. ClosedState(p, p, m, end, csp, a, size)
    BY ONLY <1>8, <1>10, <2>2, <2>3, NewRegion(m, a, size), size > TopFoot DEF ClosedState
  <2>5. ClosedIs(p, m, csp, a, size - TopFoot)
    BY <2>4, ClosedStateIs
  <2>6. Widened(p, m, size - TopFoot)
    BY <1>11, <2>5 DEF ClosedIs, Kept1, Widened
  <2>7. n = p
    BY <1>7, <1>11 DEF l
  <2>. QED
    BY <2>6, <2>7
<1>12. CASE csp # m.top
  <2>1. n = k
    BY <1>7, <1>12 DEF l
  <2>2. Kept(k, m) /\ k.top = a /\ k.topsize = size - TopFoot /\ a # NULL
    BY <1>8, <1>10, <1>12, RestIsFree
  <2>. HIDE DEF k
  <2>. QED
    BY <2>1, <2>2 DEF Kept, Widened
<1>. QED
  BY <1>11, <1>12

-----------------------------------------------------------------------------
(* A segment that begins earlier, with one chunk in the new part. *)

\* The segment i from a lower base on.
Lowered(segs, i, a) ==
    [segs EXCEPT ![i] = [base |-> a, size |-> (segs[i].base - a) + segs[i].size, record |-> segs[i].record]]

\* The segment i is the one that changes.
LEMMA LoweredIs ==
    ASSUME NEW segs, segs \in Seq(SegmentType), NEW i \in 1..Len(segs), NEW a \in Nat \ {0}, a < segs[i].base,
           NEW L, L = Lowered(segs, i, a)
    PROVE  /\ L \in Seq(SegmentType) /\ Len(L) = Len(segs)
           /\ L[i].base = a /\ L[i].record = segs[i].record /\ L[i].size \in Nat
           /\ a + L[i].size = segs[i].base + segs[i].size
           /\ L[i].base + L[i].size = segs[i].base + segs[i].size
           /\ \A j \in 1..Len(segs) : j # i => L[j] = segs[j]
           /\ \A j \in 1..Len(segs) : L[j].record = segs[j].record
<1>. DEFINE d == segs[i].base - a
            y == [base |-> a, size |-> d + segs[i].size, record |-> segs[i].record]
<1>1. /\ Len(segs) \in Nat /\ DOMAIN segs = 1..Len(segs)
      /\ segs[i].base \in Nat \ {0} /\ segs[i].size \in Nat \ {0} /\ segs[i].record \in Nat
  BY SequenceTypes
<1>2. d \in Nat /\ d > 0 /\ a + d = segs[i].base
  BY SMTT(30), <1>1
<1>3. L = [segs EXCEPT ![i] = y]
  BY DEF Lowered
<1>4. y.base = a /\ y.size = d + segs[i].size /\ y.record = segs[i].record
  OBVIOUS
<1>. HIDE DEF d
<1>5. y.size \in Nat \ {0} /\ a + y.size = segs[i].base + segs[i].size
  BY SMTT(30), <1>1, <1>2, <1>4
<1>6. y \in SegmentType
  BY <1>1, <1>5 DEF SegmentType
<1>. HIDE DEF y
<1>7. L \in Seq(SegmentType) /\ Len(L) = Len(segs) /\ L[i] = y /\ \A j \in 1..Len(segs) : j # i => L[j] = segs[j]
  BY <1>1, <1>3, <1>6
<1>. QED
  BY <1>4, <1>5, <1>7

\* A region in front of a segment, as a chunk in use.
Prepended(ch, top, segs, rg, ch2, rg2, i, a, e) ==
    /\ Body(ch, top, segs, rg) /\ i \in 1..Len(segs) /\ e = segs[i].base /\ a \in Nat \ {0} /\ a < e
    /\ SameOutside(ch, ch2, Window(a, e)) /\ DOMAIN ch2 \cap Window(a, e) = {a}
    /\ Headed(ch2[a], e - a, TRUE, TRUE, 0)
    /\ \A t \in Spaces(ch, segs) : t.end <= a \/ e <= t.base
    /\ SpacesOk((Spaces(ch, segs) \ {SegmentSpace(segs[i])})
                  \cup {Space(a, segs[i].base + segs[i].size)}, rg2)

\* Body is kept.
LEMMA PrependBody ==
    ASSUME NEW ch, NEW top, NEW segs, NEW rg, NEW ch2, NEW rg2, NEW i, NEW a, NEW e,
           Prepended(ch, top, segs, rg, ch2, rg2, i, a, e)
    PROVE  /\ Body(ch2, top, Lowered(segs, i, a), rg2) /\ DOMAIN ch \cap Window(a, e) = {}
           /\ top \notin Window(a, e) /\ a \in Ord(ch2) /\ a \notin FreeAt(ch2) /\ a \in Window(a, e)
<1>. DEFINE W == Window(a, e)
            L == Lowered(segs, i, a)
            s == SegmentSpace(segs[i])
            S == Spaces(ch, segs)
            end == segs[i].base + segs[i].size
            T == {Space(a, end)}
<1>1. /\ Body(ch, top, segs, rg) /\ i \in 1..Len(segs) /\ e = segs[i].base /\ a \in Nat \ {0} /\ a < e
      /\ SameOutside(ch, ch2, W) /\ DOMAIN ch2 \cap W = {a}
      /\ \A t \in S : t.end <= a \/ e <= t.base
      /\ SpacesOk((S \ {s}) \cup T, rg2)
  BY DEF Prepended
<1>2. /\ Layout(ch, top) /\ segs \in Seq(SegmentType)
      /\ \A j \in 1..Len(segs) : SegmentOk(ch, top, segs[j])
      /\ \A j, k \in 1..Len(segs) : segs[j].base = segs[k].base => j = k
  BY <1>1 DEF Body
<1>3. Headed(ch2[a], e - a, TRUE, TRUE, 0)
  BY DEF Prepended
<1>4. /\ \A j \in 1..Len(segs) : /\ segs[j].base \in Nat \ {0} /\ segs[j].size \in Nat \ {0} /\ segs[j].record \in Nat
      /\ e \in Nat /\ end \in Nat /\ e < end /\ a < end
  BY SMTT(30), <1>1, <1>2, SequenceTypes
<1>5. /\ L \in Seq(SegmentType) /\ Len(L) = Len(segs)
      /\ L[i].base = a /\ L[i].record = segs[i].record /\ L[i].size \in Nat /\ L[i].base + L[i].size = end
      /\ a + L[i].size = end
      /\ \A j \in 1..Len(segs) : j # i => L[j] = segs[j]
      /\ \A j \in 1..Len(segs) : L[j].record = segs[j].record
  BY <1>1, <1>2, LoweredIs
<1>. HIDE DEF L, S
<1>6. \A j \in 1..Len(segs) : segs[j].base + segs[j].size <= a \/ e <= segs[j].base
  <2>1. ASSUME NEW j \in 1..Len(segs) PROVE segs[j].base + segs[j].size <= a \/ e <= segs[j].base
    <3>1. SegmentSpace(segs[j]) \in S
      BY DEF S, Spaces
    <3>. QED
      BY <1>1, <3>1 DEF SegmentSpace
  <2>. QED
    BY <2>1
<1>7. DOMAIN ch \cap W = {}
  BY <1>1, <1>4, NoChunks DEF S
<1>8. Outside(ch, top, ch2, a, e) /\ top \notin W
  <2>1. SameOutside(ch, ch2, a..(e - 1))
    BY <1>1 DEF Window
  <2>. QED
    BY <1>1, <1>4, <1>6, <2>1, ApartOutside DEF Window
<1>9. \A q \in Nat : q \in W <=> a <= q /\ q < e
  BY SMTT(30), <1>1, <1>4 DEF Window
<1>10. /\ a \in DOMAIN ch2 /\ a \in W /\ HeaderOk(ch2[a]) /\ ch2[a].size = e - a /\ ch2[a].c /\ ch2[a].p
       /\ ch2[a].size \in Nat /\ ch2[a].size > 0 /\ After(ch2, a) = e
  BY SMTT(30), <1>1, <1>3, <1>4 DEF Headed, After
<1>11. a \in Ord(ch2) /\ a \notin FreeAt(ch2) /\ a \notin Direct(ch2)
  BY <1>10 DEF Ord, FreeAt, Direct
<1>12. /\ Ord(ch2) \ W = Ord(ch) \ W /\ FreeAt(ch2) \ W = FreeAt(ch) \ W /\ Direct(ch2) \ W = Direct(ch) \ W
  BY <1>1, OutsideSets
<1>13. e \in Ord(ch) /\ ch[e].p /\ e \in DOMAIN ch /\ e \notin W
  BY <1>1, <1>2, <1>4, <1>9 DEF SegmentOk, Ord
<1>14. HeaderOk(ch[e])
  BY <1>1, <1>13, BodyTypes
<1>15. Tagged(ch2, a, e)
  <2>1. ch2[e] = ch[e] /\ e \in DOMAIN ch2
    BY <1>1, <1>13 DEF SameOutside
  <2>2. ch2[e].p /\ ch2[e].foot = 0
    BY <1>13, <1>14, <2>1 DEF HeaderOk
  <2>. QED
    BY <1>10, <2>1, <2>2 DEF Tagged
<1>. HIDE DEF W, T
<1>16. InsideOk(ch2, top, a, e)
  <2>1. \A p \in DOMAIN ch2 \cap W : p = a
    BY <1>1
  <2>2. Ord(ch2) \cap W = {a}
    BY <1>10, <1>11, <2>1 DEF Ord
  <2>3. \A q \in Ord(ch2) \cap W : ~ch2[q].p => \E p \in (Ord(ch2) \cap W) \ {top} : After(ch2, p) = q
    BY <1>10, <2>2
  <2>4. \A p \in DOMAIN ch2 \cap W : p \in Nat \ {0} /\ HeaderOk(ch2[p])
    BY <1>1, <1>10
  <2>5. \A p \in Ord(ch2) \cap W : /\ After(ch2, p) <= e
                                   /\ \A q \in DOMAIN ch2 \cap W : q <= p \/ After(ch2, p) <= q
                                   /\ p # top => Tagged(ch2, p, After(ch2, p))
    BY <1>1, <1>4, <1>10, <1>15, <2>1, <2>2
  <2>. QED
    BY <2>3, <2>4, <2>5 DEF InsideOk, W, Window
<1>17. DOMAIN ch \subseteq Nat /\ DOMAIN ch2 \subseteq Nat
  <2>1. DOMAIN ch \subseteq Nat
    BY <1>1, BodyTypes
  <2>. QED
    BY <1>1, <2>1 DEF SameOutside
<1>18. SegmentOk(ch2, top, L[i])
  <2>1. SegmentOk(ch, top, segs[i])
    BY <1>1, <1>2
  <2>. DEFINE lim == Limit(segs[i], top)
  <2>2. Limit(L[i], top) = lim
    BY <1>5 DEF Limit
  <2>3. /\ lim \in DOMAIN ch /\ e <= lim /\ lim < end
        /\ \A q \in DOMAIN ch : e <= q /\ q < end => q <= lim /\ (q < lim => q \in Ord(ch))
        /\ IF segs[i].record = NULL THEN After(ch, top) + TopFoot = end
           ELSE /\ segs[i].record \in Ord(ch) /\ e <= segs[i].record /\ segs[i].record < end
                /\ segs[i].record + TopFoot <= end
                /\ ch[segs[i].record].c /\ ch[segs[i].record].size = SegmentSize
                /\ ch[lim].size = 0
    BY <1>1, <2>1 DEF SegmentOk, Holds
  <2>4. lim \in Nat /\ lim \notin W /\ lim \in DOMAIN ch2 /\ ch2[lim] = ch[lim]
    <3>1. lim \in Nat
      BY <1>17, <2>3
    <3>2. lim \notin W
      BY <1>4, <1>9, <2>3, <3>1
    <3>. QED
      BY <1>1, <2>3, <3>1, <3>2 DEF SameOutside
  <2>. HIDE DEF lim
  <2>5. a <= lim
    BY <1>1, <1>4, <2>3, <2>4
  <2>6. ASSUME NEW q \in DOMAIN ch2, a <= q, q < end PROVE q <= lim /\ (q < lim => q \in Ord(ch2))
    <3>1. CASE q \in W
      <4>1. q = a
        BY <1>1, <2>6, <3>1
      <4>. QED
        BY <1>11, <2>5, <4>1
    <3>2. CASE q \notin W
      <4>1. q \in DOMAIN ch /\ q \in Nat
        BY <1>1, <1>17, <2>6, <3>2 DEF SameOutside
      <4>2. e <= q
        BY <1>4, <1>9, <2>6, <3>2, <4>1
      <4>3. q <= lim /\ (q < lim => q \in Ord(ch))
        BY <2>3, <2>6, <4>1, <4>2
      <4>. QED
        BY <1>12, <3>2, <4>3
    <3>. QED
      BY <3>1, <3>2
  <2>7. CASE segs[i].record = NULL
    <3>1. lim = top
      BY <2>7 DEF lim, Limit
    <3>2. After(ch2, top) + TopFoot = end
      BY <2>3, <2>4, <2>7, <3>1 DEF After
    <3>. QED
      BY <1>4, <1>5, <1>10, <1>11, <2>2, <2>3, <2>4, <2>5, <2>6, <2>7, <3>2 DEF SegmentOk, Holds
  <2>8. CASE segs[i].record # NULL
    <3>. DEFINE rec == segs[i].record
    <3>1. /\ rec \in Ord(ch) /\ e <= rec /\ rec < end /\ rec + TopFoot <= end /\ rec \in Nat
          /\ ch[rec].c /\ ch[rec].size = SegmentSize /\ ch[lim].size = 0
      BY <1>1, <1>4, <2>3, <2>8
    <3>2. rec \notin W /\ rec \in DOMAIN ch
      BY <1>4, <1>9, <3>1 DEF Ord
    <3>3. rec \in Ord(ch2) /\ ch2[rec] = ch[rec] /\ a <= rec
      BY <1>1, <1>4, <1>12, <3>1, <3>2 DEF SameOutside
    <3>. HIDE DEF rec
    <3>4. L[i].record = rec /\ rec # NULL
      BY <1>5, <2>8 DEF rec
    <3>. QED
      BY <1>4, <1>5, <1>10, <1>11, <2>2, <2>3, <2>4, <2>5, <2>6, <3>1, <3>3, <3>4 DEF SegmentOk, Holds
  <2>. QED
    BY <2>7, <2>8
<1>19. SegmentSpace(L[i]) = Space(a, end)
  BY <1>5 DEF SegmentSpace, Space
<1>20. /\ \A p \in Direct(ch) : DirectSpace(ch, p) # s
       /\ \A j \in 1..Len(segs) : j # i => SegmentSpace(segs[j]) # s
  BY <1>1, SpacesDiffer
<1>21. \A j, k \in 1..Len(L) : L[j].base = L[k].base => j = k
  <2>1. ASSUME NEW j \in 1..Len(segs), j # i PROVE L[j].base # a
    <3>1. L[j].base = segs[j].base
      BY <1>5, <2>1
    <3>. QED
      BY SMTT(30), <1>1, <1>4, <1>6, <3>1
  <2>2. \A j, k \in 1..Len(segs) : j # i /\ k # i /\ L[j].base = L[k].base => j = k
    BY <1>2, <1>5
  <2>. QED
    BY <1>5, <2>1, <2>2
<1>22. Swapped(ch, top, segs, rg, ch2, top, L, rg2, a, e, s, T)
  <2>1. Body(ch, top, segs, rg) /\ Outside(ch, top, ch2, a, e) /\ InsideOk(ch2, top, a, e) /\ TopSwap(ch2, top, top, a, e)
    BY <1>1, <1>8, <1>16 DEF TopSwap, W, Window
  <2>2. \A t \in Spaces(ch, segs) \ {s} : t.end <= a \/ e <= t.base
    BY <1>1 DEF S
  <2>3. \A p \in Direct(ch) : DirectSpace(ch, p) = s => p \in a..(e - 1) /\ After(ch, p) \in a..(e - 1)
    BY <1>20
  <2>4. /\ L \in Seq(SegmentType)
        /\ \A j, k \in 1..Len(L) : L[j].base = L[k].base => j = k
    BY <1>5, <1>21
  <2>5. \A j \in 1..Len(L) :
          \/ SegmentOk(ch2, top, L[j]) /\ SegmentSpace(L[j]) \in T
          \/ \E k \in 1..Len(segs) : /\ L[j] = segs[k] /\ SegmentSpace(segs[k]) # s
                                     /\ segs[k].record # NULL \/ top = top
    BY <1>5, <1>18, <1>19, <1>20 DEF T
  <2>6. \A j \in 1..Len(segs) : SegmentSpace(segs[j]) # s => \E k \in 1..Len(L) : L[k] = segs[j]
    BY <1>5
  <2>7. \A j \in 1..Len(segs), q \in DOMAIN ch \ (a..(e - 1)) : SegmentSpace(segs[j]) = s /\ Holds(segs[j], q) =>
          \E k \in 1..Len(L) : /\ Holds(L[k], q)
                               /\ segs[j].record # NULL => L[k].record = segs[j].record
    <3>1. ASSUME NEW j \in 1..Len(segs), NEW q \in DOMAIN ch, SegmentSpace(segs[j]) = s, Holds(segs[j], q)
          PROVE  \E k \in 1..Len(L) : /\ Holds(L[k], q)
                                      /\ segs[j].record # NULL => L[k].record = segs[j].record
      <4>1. j = i /\ q \in Nat
        BY <1>17, <1>20, <3>1
      <4>2. e <= q /\ q < end
        BY <1>1, <3>1, <4>1 DEF Holds
      <4>3. Holds(L[i], q)
        BY <1>1, <1>4, <1>5, <4>1, <4>2 DEF Holds
      <4>. QED
        BY <1>1, <1>5, <4>1, <4>3
    <3>. QED
      BY <3>1
  <2>8. \A p \in Direct(ch2) \cap (a..(e - 1)) : DirectOk(ch2, p) /\ DirectSpace(ch2, p) \in T
    <3>1. Direct(ch2) \cap W = {}
      <4>1. Direct(ch2) \subseteq DOMAIN ch2
        BY DEF Direct
      <4>. QED
        BY <1>1, <1>11, <4>1
    <3>. QED
      BY <3>1 DEF W, Window
  <2>9. \A t \in T : \/ \E k \in 1..Len(L) : t = SegmentSpace(L[k])
                     \/ \E p \in Direct(ch2) \cap (a..(e - 1)) : t = DirectSpace(ch2, p)
    BY <1>1, <1>5, <1>19 DEF T
  <2>10. \A p \in Ord(ch2) \cap (a..(e - 1)) : \E k \in 1..Len(L) : Holds(L[k], p)
    <3>1. ASSUME NEW p \in Ord(ch2) \cap W PROVE Holds(L[i], p)
      <4>1. p = a
        BY <1>1, <3>1 DEF Ord
      <4>. QED
        BY <1>1, <1>4, <1>5, <4>1 DEF Holds
    <3>. QED
      BY <1>1, <1>5, <3>1 DEF W, Window
  <2>11. \A q \in DOMAIN ch2 \cap (a..(e - 1)) : ch2[q].size = 0 =>
           \/ \E k \in 1..Len(L) : L[k].record # NULL /\ q = L[k].record + SegmentSize
           \/ \E p \in Direct(ch2) : q = After(ch2, p)
    <3>1. \A q \in DOMAIN ch2 \cap W : ch2[q].size # 0
      BY <1>1, <1>10
    <3>. QED
      BY <3>1 DEF W, Window
  <2>12. SpacesOk((Spaces(ch, segs) \ {s}) \cup T, rg2)
    BY <1>1 DEF S
  <2>. HIDE DEF s
  <2>. QED
    BY ONLY <2>1, <2>2, <2>3, <2>4, <2>5, <2>6, <2>7, <2>8, <2>9, <2>10, <2>11, <2>12 DEF Swapped
<1>23. Body(ch2, top, L, rg2)
  BY <1>22, SwapBody
<1>. QED
  BY <1>7, <1>8, <1>10, <1>11, <1>23 DEF W, L

\* A state of which segment i begins earlier, at a.
LowerState(x, m, i, a, size) ==
    /\ IsState(x) /\ SameLists(x, m) /\ SameTop(x, m)
    /\ x.segs = Lowered(m.segs, i, a) /\ x.aborted = m.aborted /\ x.chunks = m.chunks
    /\ x.regions = With(m.regions, a, size) /\ x.least_addr = Lowest(m, a)
    /\ x.footprint = m.footprint + size

\* What sys_alloc writes of the segment.
LEMMA LowerIs ==
    ASSUME NEW m, IsState(m), m.segs \in Seq(SegmentType), NEW i \in 1..Len(m.segs),
           NEW a \in Nat, NEW size \in Nat, m.segs[i].base = a + size,
           NEW l, l = LeastAddr(Map(m, a, size), a),
           NEW x, x = [l EXCEPT !.segs[i].base = a, !.segs[i].size = @ + size]
    PROVE  LowerState(x, m, i, a, size)
<1>. DEFINE segs == m.segs
            s == segs[i]
            t == [base |-> a, size |-> (s.base - a) + s.size, record |-> s.record]
<1>1. Given(l, m, a, size, Lowest(m, a))
  BY MapIs
<1>2. l.segs = segs
  BY <1>1 DEF Given
<1>3. DOMAIN segs = 1..Len(segs) /\ s \in SegmentType /\ s.base \in Nat /\ s.size \in Nat
  BY SequenceTypes
<1>4. [[s EXCEPT !.base = a] EXCEPT !.size = @ + size] = t
  <2>1. s = [base |-> s.base, size |-> s.size, record |-> s.record]
    BY <1>3 DEF SegmentType
  <2>2. (s.base - a) + s.size = s.size + size
    <3>1. ASSUME NEW b \in Nat, NEW z \in Nat, b = a + size PROVE (b - a) + z = z + size
      BY ONLY <3>1, a \in Nat, size \in Nat
    <3>2. s.base = a + size
      OBVIOUS
    <3>. HIDE DEF s
    <3>. QED
      BY <1>3, <3>1, <3>2
  <2>. DEFINE r == [s EXCEPT !.base = a]
  <2>. HIDE DEF s
  <2>3. r = [base |-> a, size |-> s.size, record |-> s.record]
    BY ONLY <2>1
  <2>4. [r EXCEPT !.size = @ + size] = [base |-> a, size |-> s.size + size, record |-> s.record]
    <3>. HIDE DEF r
    <3>. QED
      BY ONLY <2>3
  <2>. QED
    BY ONLY <2>2, <2>4
<1>. DEFINE y == [l EXCEPT !.segs[i].base = a]
<1>5. x = [y EXCEPT !.segs[i].size = @ + size]
  BY ZenonT(60)
<1>6. x.segs = [segs EXCEPT ![i] = t]
  <2>0. y.segs = [segs EXCEPT ![i] = [s EXCEPT !.base = a]] /\ "segs" \in DOMAIN y
    BY Zenon, <1>1, <1>2 DEF Given, IsState, Fields
  <2>000. i \in DOMAIN segs
    BY SMTT(30), <1>3
  <2>. HIDE DEF y, segs
  <2>00. x.segs = [y.segs EXCEPT ![i] = [y.segs[i] EXCEPT !.size = @ + size]]
    BY <1>5, <2>0
  <2>1. x.segs = [segs EXCEPT ![i] = [[s EXCEPT !.base = a] EXCEPT !.size = @ + size]]
    <3>. DEFINE u == [s EXCEPT !.base = a]
    <3>1. y.segs = [segs EXCEPT ![i] = u]
      BY <2>0
    <3>. HIDE DEF u
    <3>. QED
      BY <2>00, <3>1, <2>000 DEF u
  <2>. HIDE DEF t, s
  <2>. QED
    BY <1>4, <2>1
<1>7. x.segs = Lowered(m.segs, i, a)
  BY SMTT(30), <1>6 DEF Lowered
<1>8. /\ IsState(x) /\ SameLists(x, m) /\ SameTop(x, m)
      /\ x.aborted = m.aborted /\ x.chunks = m.chunks
      /\ x.regions = With(m.regions, a, size) /\ x.least_addr = Lowest(m, a)
      /\ x.footprint = m.footprint + size
  <2>. DEFINE v == [l.segs EXCEPT ![i].base = a]
              w == [y.segs EXCEPT ![i].size = @ + size]
  <2>1. y = [l EXCEPT !.segs = v] /\ x = [y EXCEPT !.segs = w]
    BY <1>5
  <2>. HIDE DEF y, v, w
  <2>. QED
    BY ZenonT(60), <1>1, <2>1 DEF Given, IsState, Fields, SameLists, SameDv, SameTop
<1>. QED
  BY <1>7, <1>8 DEF LowerState

\* The new part is one chunk, which a caller is taken to hold.
PartUsed(n, x, m, i, a, size) ==
    /\ LowerState(x, m, i, a, size)
    /\ IsState(n) /\ SameRest(n, x) /\ SameBins(n, x) /\ SameTop(n, x)
    /\ n.chunks = Placed(m.chunks, a, InuseHeader(size))
PartIsUsed(n, m, i, a, size) ==
    /\ Sound(n) /\ Frame(n, m, {}, {a})
    /\ n.chunks[a].size = size /\ n.chunks[a].c /\ n.chunks[a].p /\ a \notin Used(m)

\* The region in front is a chunk in use, before it is parted.
LEMMA PartUsedIs ==
    ASSUME NEW m, Sound(m), m.top # NULL, NEW a, NEW size, NewRegion(m, a, size),
           NEW i \in 1..Len(m.segs), m.segs[i].base = a + size,
           NEW x, NEW n, PartUsed(n, x, m, i, a, size)
    PROVE  PartIsUsed(n, m, i, a, size)
<1>. DEFINE ch == m.chunks
            ch2 == n.chunks
            segs == m.segs
            segs2 == Lowered(segs, i, a)
            e == a + size
            S == Spaces(ch, segs)
            s == SegmentSpace(segs[i])
            s2 == Space(a, e)
            W == Window(a, e)
            rg2 == With(m.regions, a, size)
<1>1. Whole(m) /\ Binned(m, {}) /\ IsState(m) /\ ~m.aborted
  BY DEF Sound, Whole
<1>2. Body(ch, m.top, segs, m.regions) /\ FirstHasTop(m.top, segs)
  BY <1>1, StructureIsBody DEF Whole
<1>3. /\ SpacesOk(S \cup {s2}, rg2) /\ s2 \notin S /\ e \in Nat /\ a < e
      /\ \A t \in S : t.base \in Nat /\ t.end \in Nat /\ t.base < t.end /\ (t.end <= a \/ e <= t.base)
      /\ DOMAIN ch \cap W = {}
  BY <1>1, NewSpaceIs
<1>4. a \in Nat \ {0} /\ size \in Nat \ {0}
  BY DEF NewRegion
<1>5. s \in S /\ s.base = e /\ s2.end = e /\ s2.base = a /\ s.end = segs[i].base + segs[i].size
  BY DEF Spaces, SegmentSpace, Space
<1>6. SpacesOk((S \ {s}) \cup {Space(a, segs[i].base + segs[i].size)}, rg2)
  <2>. DEFINE S2 == S \cup {s2}
  <2>. HIDE DEF S, s, s2, e, rg2
  <2>1. s \in S2 /\ s2 \in S2 /\ s2.end = s.base /\ SpacesOk(S2, rg2)
    BY <1>3, <1>5
  <2>2. S2 \ {s2, s} = S \ {s}
    BY <1>3
  <2>. HIDE DEF S2
  <2>3. SpacesOk((S2 \ {s2, s}) \cup {Space(s2.base, s.end)}, rg2)
    BY <2>1, JoinSpaces
  <2>. QED
    BY <1>5, <2>2, <2>3
<1>7. /\ LowerState(x, m, i, a, size)
      /\ IsState(n) /\ SameRest(n, x) /\ SameBins(n, x) /\ SameTop(n, x)
      /\ ch2 = Placed(ch, a, InuseHeader(size))
  <2>1. /\ LowerState(x, m, i, a, size)
        /\ IsState(n) /\ SameRest(n, x) /\ SameBins(n, x) /\ SameTop(n, x)
        /\ n.chunks = Placed(m.chunks, a, InuseHeader(size))
    BY ONLY PartUsed(n, x, m, i, a, size) DEF PartUsed
  <2>. QED
    BY ONLY <2>1 DEF ch, ch2
<1>8. Headed(InuseHeader(size), size, TRUE, TRUE, 0)
  <2>1. size \in Nat /\ size > 0
    BY <1>4
  <2>. QED
    BY <2>1, NewHeads, Zenon
<1>9. InuseHeader(size).size = size
  BY DEF InuseHeader, Header
<1>. HIDE DEF W, S, s, s2, rg2
<1>10. /\ SameOutside(ch, ch2, W) /\ ch2[a] = InuseHeader(size) /\ a \in DOMAIN ch2
       /\ \A q \in DOMAIN ch2 : q = a \/ q \in DOMAIN ch
  <2>. DEFINE h == InuseHeader(size)
  <2>1. DOMAIN ch \subseteq Nat
    BY <1>2, BodyTypes
  <2>2. h.size \in Nat /\ a + h.size <= e /\ a \in Nat /\ e \in Nat /\ a <= a /\ a < e
    BY <1>3, <1>4, <1>9
  <2>3. ch2 = Placed(ch, a, h)
    BY <1>7
  <2>. HIDE DEF h, ch2, ch, e
  <2>4. /\ SameOutside(ch, ch2, Window(a, e)) /\ ch2[a] = h /\ a \in DOMAIN ch2
        /\ \A q \in DOMAIN ch2 : q = a \/ q \in DOMAIN ch
    BY ONLY SMTT(30), <2>1, <2>2, <2>3, PlacedIn
  <2>. QED
    BY <2>4 DEF W, h, e
<1>11. DOMAIN ch2 \cap W = {a}
  <2>1. a \in W
    BY <1>3, <1>4 DEF W, Window
  <2>. QED
    BY <1>3, <1>10, <2>1
<1>12. Prepended(ch, m.top, segs, m.regions, ch2, rg2, i, a, e)
  <2>1. e - a = size
    BY <1>4
  <2>2. Headed(ch2[a], e - a, TRUE, TRUE, 0)
    <3>. HIDE DEF ch2, e
    <3>. QED
      BY ONLY <1>8, <1>10, <2>1, Zenon
  <2>3. segs[i].base = e
    OBVIOUS
  <2>. HIDE DEF ch2, ch, segs, e
  <2>4. /\ Body(ch, m.top, segs, m.regions) /\ i \in 1..Len(segs) /\ e = segs[i].base /\ a \in Nat \ {0} /\ a < e
        /\ SameOutside(ch, ch2, Window(a, e)) /\ DOMAIN ch2 \cap Window(a, e) = {a}
    BY <1>2, <1>3, <1>4, <1>10, <1>11, <2>3 DEF W, segs
  <2>5. /\ \A t \in Spaces(ch, segs) : t.end <= a \/ e <= t.base
        /\ SpacesOk((Spaces(ch, segs) \ {SegmentSpace(segs[i])}) \cup {Space(a, segs[i].base + segs[i].size)}, rg2)
    BY <1>3, <1>6 DEF S, s
  <2>. QED
    BY <2>2, <2>4, <2>5, Zenon DEF Prepended
<1>. HIDE DEF ch, ch2, segs, e
<1>13. /\ Body(ch2, m.top, segs2, rg2) /\ m.top \notin W /\ a \in Ord(ch2) /\ a \notin FreeAt(ch2) /\ a \in W
  <2>. HIDE DEF segs2
  <2>. QED
    BY <1>12, PrependBody DEF W, segs2
<1>14. /\ Len(segs2) = Len(segs) /\ \A j \in 1..Len(segs) : segs2[j].record = segs[j].record
  <2>1. segs \in Seq(SegmentType) /\ i \in 1..Len(segs) /\ a < segs[i].base
    BY <1>2, <1>3 DEF Body, segs, e
  <2>. QED
    BY <1>4, <2>1, LoweredIs
<1>15. /\ n.top = m.top /\ n.topsize = m.topsize /\ n.segs = segs2 /\ n.regions = rg2
       /\ n.least_addr = Lowest(m, a) /\ n.aborted = m.aborted /\ SameLists(n, m)
  BY <1>7 DEF LowerState, SameRest, SameTop, SameBins, SameLists, SameDv, segs, segs2, rg2
<1>. HIDE DEF segs2
<1>16. SegmentRecords(segs2) = SegmentRecords(segs)
  BY <1>14 DEF SegmentRecords
<1>17. Low(n)
  <2>1. /\ Lowest(m, a) \in Nat \ {0} /\ Lowest(m, a) <= a
        /\ \A p \in DOMAIN m.chunks : p \in Nat => Lowest(m, a) <= p
    BY <1>1, <1>4, LowestIs DEF Whole
  <2>2. \A p \in DOMAIN ch : p \in Nat
    BY <1>2, BodyTypes
  <2>. QED
    BY <1>10, <1>15, <2>1, <2>2 DEF Low, ch, ch2
<1>18. Whole(n)
  <2>1. FirstHasTop(m.top, segs2)
    BY <1>2, <1>14 DEF FirstHasTop
  <2>2. Structure(n.chunks, n.top, n.segs, n.regions)
    BY <1>13, <1>15, <2>1, StructureIsBody DEF ch2
  <2>. QED
    BY <1>1, <1>7, <1>15, <1>17, <2>2 DEF Whole
<1>19. /\ \A c : Ord(c) \subseteq DOMAIN c /\ FreeAt(c) \subseteq DOMAIN c /\ Direct(c) \subseteq DOMAIN c
  BY DEF Ord, FreeAt, Direct
<1>20. SegmentRecords(segs) \cap W = {}
  <2>1. ASSUME NEW r \in SegmentRecords(segs) PROVE r \in DOMAIN ch
    <3>1. PICK j \in 1..Len(segs) : segs[j].record = r /\ r # NULL
      BY <2>1 DEF SegmentRecords
    <3>2. SegmentOk(ch, m.top, segs[j])
      BY <1>2 DEF Body
    <3>. QED
      BY <1>19, <3>1, <3>2 DEF SegmentOk
  <2>. QED
    BY <1>3, <2>1
<1>21. Used(m) \cap W = {} /\ FreeAt(ch) \cap W = {} /\ a \notin Used(m)
  <2>1. Used(m) \subseteq DOMAIN ch
    BY <1>19 DEF Used, ch
  <2>. QED
    BY <1>3, <1>13, <1>19, <2>1
<1>22. Used(n) \cap W = {a}
  <2>1. a \in Used(n)
    BY <1>13, <1>15, <1>16, <1>20 DEF Used, ch2
  <2>2. Used(n) \subseteq DOMAIN ch2
    BY <1>19 DEF Used, ch2
  <2>. QED
    BY <1>11, <1>13, <2>1, <2>2
<1>23. FreeAt(ch2) \cap W = {}
  BY <1>11, <1>13, <1>19
<1>24. n.topsize = IF n.top = NULL THEN 0 ELSE n.chunks[n.top].size
  <2>1. m.top \in DOMAIN ch
    BY <1>2, FirstIs DEF ch
  <2>2. ch2[m.top] = ch[m.top]
    BY <1>10, <1>13, <2>1 DEF SameOutside
  <2>3. m.topsize = ch[m.top].size
    BY <1>1 DEF Binned, ch
  <2>. QED
    BY <1>15, <2>2, <2>3 DEF ch2
<1>25. Exchanged(m, n, {}, W, {}, {a})
  <2>1. Whole(m) /\ Binned(m, {}) /\ Whole(n) /\ SameLists(n, m) /\ SameOutside(m.chunks, n.chunks, W)
    BY <1>1, <1>10, <1>15, <1>18 DEF ch, ch2
  <2>2. FreeAt(m.chunks) \cap W = {} /\ FreeAt(n.chunks) \cap W = {} /\ SegmentRecords(n.segs) = SegmentRecords(m.segs)
    BY <1>15, <1>16, <1>21, <1>23 DEF ch, ch2, segs
  <2>3. Counts(n, m)
    <3>1. n.regions = With(m.regions, a, size) /\ n.footprint = m.footprint + size
      BY <1>7 DEF LowerState, SameRest
    <3>. QED
      BY <1>1, <3>1, NewRegionCounts
  <2>. QED
    BY <1>15, <1>21, <1>22, <1>24, <2>1, <2>2, <2>3 DEF Exchanged
<1>26. Sound(n) /\ Frame(n, m, {}, {a})
  BY <1>25, ExchangeSound
<1>27. ch2[a].size = size /\ ch2[a].c /\ ch2[a].p
  BY <1>10 DEF InuseHeader, Header
<1>. QED
  BY <1>21, <1>26, <1>27 DEF PartIsUsed, ch2

\* The header of the chunk behind is written before that of the rest.
LEMMA PlacedBetween ==
    ASSUME NEW ch, NEW x, NEW y, NEW z \in Nat, Ends(ch, x, y), x < z, z < y, z \notin DOMAIN ch, y \in DOMAIN ch,
           NEW hx, hx.size = z - x, NEW hz, hz.size = y - z, NEW g, g.size = ch[y].size
    PROVE  /\ At(Placed(ch, x, hx), y) = ch[y]
           /\ Placed(Placed(Placed(ch, x, hx), y, g), z, hz) = Triple(ch, x, z, y, hx, hz, g)
<1>1. /\ \A q \in DOMAIN ch : q \in Nat /\ (q <= y \/ y + ch[y].size <= q)
      /\ x \in Nat /\ y \in Nat /\ x \in DOMAIN ch /\ ch[y].size \in Nat /\ x < y
  BY DEF Ends, HeaderOk
<1>. DEFINE c1 == Placed(ch, x, hx)
            c2 == Placed(c1, y, g)
            c3 == Placed(c2, z, hz)
            t == Triple(ch, x, z, y, hx, hz, g)
<1>2. /\ \A q : q \in (x + 1)..(x + hx.size - 1) <=> q \in Int /\ x < q /\ q < z
      /\ \A q : q \in (y + 1)..(y + g.size - 1) <=> q \in Int /\ y < q /\ q < y + ch[y].size
      /\ \A q : q \in (z + 1)..(z + hz.size - 1) <=> q \in Int /\ z < q /\ q < y
      /\ \A q : q \in (x + 1)..(y - 1) <=> q \in Int /\ x < q /\ q < y
  BY <1>1
<1>3. /\ DOMAIN c1 = (DOMAIN ch \ ((x + 1)..(x + hx.size - 1))) \cup {x}
      /\ \A q \in DOMAIN c1 : c1[q] = IF q = x THEN hx ELSE ch[q]
  BY DEF Placed
<1>. HIDE DEF c1
<1>4. \A q : q \in DOMAIN c1 <=> q = x \/ (q \in DOMAIN ch /\ ~(x < q /\ q < z))
  BY <1>1, <1>2, <1>3
<1>5. /\ DOMAIN c2 = (DOMAIN c1 \ ((y + 1)..(y + g.size - 1))) \cup {y}
      /\ \A q \in DOMAIN c2 : c2[q] = IF q = y THEN g ELSE c1[q]
  BY DEF Placed
<1>. HIDE DEF c2
<1>6. \A q : q \in DOMAIN c2 <=> q \in DOMAIN c1
  BY <1>1, <1>2, <1>4, <1>5
<1>7. /\ DOMAIN c3 = (DOMAIN c2 \ ((z + 1)..(z + hz.size - 1))) \cup {z}
      /\ \A q \in DOMAIN c3 : c3[q] = IF q = z THEN hz ELSE c2[q]
      /\ c3 = [q \in DOMAIN c3 |-> c3[q]]
  BY DEF Placed
<1>. HIDE DEF c3
<1>8. \A q : q \in DOMAIN c3 <=> q = z \/ (q \in DOMAIN c2 /\ ~(z < q /\ q < y))
  BY <1>1, <1>2, <1>4, <1>6, <1>7
<1>9. /\ DOMAIN t = (DOMAIN ch \ ((x + 1)..(y - 1))) \cup {x, z}
      /\ \A q \in DOMAIN t : t[q] = IF q = x THEN hx ELSE IF q = z THEN hz ELSE IF q = y THEN g ELSE ch[q]
      /\ t = [q \in DOMAIN t |-> t[q]]
  BY DEF Triple
<1>. HIDE DEF t
<1>10. \A q : q \in DOMAIN t <=> q = x \/ q = z \/ (q \in DOMAIN ch /\ ~(x < q /\ q < y))
  BY <1>1, <1>2, <1>9
<1>11. DOMAIN c3 = DOMAIN t
  <2>1. ASSUME NEW q PROVE q \in DOMAIN c3 <=> q \in DOMAIN t
    BY <1>1, <1>4, <1>6, <1>8, <1>10
  <2>. QED
    BY <2>1
<1>12. ASSUME NEW q \in DOMAIN t PROVE c3[q] = t[q]
  BY <1>1, <1>3, <1>4, <1>5, <1>6, <1>7, <1>8, <1>9, <1>11
<1>13. c3 = t
  BY <1>7, <1>9, <1>11, <1>12
<1>14. y \in DOMAIN c1 /\ c1[y] = ch[y]
  BY <1>1, <1>3, <1>4
<1>. QED
  BY <1>13, <1>14 DEF At, c1, c2, c3, t

\* The rest of a chunk becomes free, and the chunk behind is told.
LEMMA SplitClearIs ==
    ASSUME NEW m, IsState(m), NEW x, NEW y, NEW z, Inside(m.chunks, x, z, y), y \in DOMAIN m.chunks,
           m.chunks[x].p, m.chunks[y].size > 0,
           NEW n, n = SetFreeWithPinuse(SetSizeAndPinuseOfInuse(m, x, z - x), z, y - z, y)
    PROVE  Wrote(n, m) /\ Two(m.chunks, n.chunks, x, z, y, FALSE)
<1>. DEFINE ch == m.chunks
            hx == InuseHeader(z - x)
            hz == FreeHeader(y - z)
            g == [ch[y] EXCEPT !.p = FALSE]
            hy == [g EXCEPT !.foot = y - z]
            o1 == Put(m, x, hx)
            o2 == Put(o1, y, g)
            o3 == Put(o2, z, hz)
            c1 == Placed(ch, x, hx)
            c2 == Placed(c1, y, g)
            c3 == Placed(c2, z, hz)
<1>1. z + (y - z) = y /\ z - x \in Nat /\ z - x > 0 /\ y - z \in Nat /\ y - z > 0
  BY InsideSizes
<1>2. HeaderOk(ch[x]) /\ HeaderOk(ch[y]) /\ Ends(ch, x, y) /\ z \in Nat /\ x < z /\ z < y /\ z \notin DOMAIN ch
  BY InsideOf
<1>3. Headed(hx, z - x, TRUE, ch[x].p, ch[x].foot)
  BY <1>1, <1>2, NewHeads, HeadAt
<1>4. Headed(hz, y - z, FALSE, TRUE, 0)
  BY <1>1, NewHeads
<1>5. Headed(hy, ch[y].size, ch[y].c, FALSE, y - z) /\ g.size = ch[y].size
  BY <1>1, <1>2, FreeHead
<1>6. n = Put(Put(ClearPinuse(o1, y), z, hz), y, [HeaderAt(Put(ClearPinuse(o1, y), z, hz), y) EXCEPT !.foot = y - z])
  BY <1>1 DEF SetFreeWithPinuse, SetSizeAndPinuseOfFree, SetSizeAndPinuseOfInuse, FreeHeader, InuseHeader
<1>7. hx.size = z - x /\ hz.size = y - z /\ hy.size = ch[y].size
  BY <1>3, <1>4, <1>5 DEF Headed
<1>. HIDE DEF hx, hz
<1>8. At(c1, y) = ch[y]
  BY <1>2, <1>5, <1>7, PlacedBetween
<1>9. Writes(o1, m, c1)
  BY PutIs
<1>10. HeaderAt(o1, y) = ch[y]
  <2>. HIDE DEF o1, c1
  <2>. QED
    BY <1>8, <1>9, WritesPut
<1>11. ClearPinuse(o1, y) = o2
  BY <1>10 DEF ClearPinuse
<1>12. hy = [g EXCEPT !.foot = y - z]
  OBVIOUS
<1>. HIDE DEF g, hy
<1>13. Writes(o3, m, c3)
  <2>. HIDE DEF o1, c1
  <2>1. Writes(o2, m, c2)
    BY <1>9, WritesPut
  <2>. HIDE DEF o2, c2
  <2>. QED
    BY <2>1, WritesPut
<1>14. c3 = Triple(ch, x, z, y, hx, hz, g)
  BY <1>2, <1>5, <1>7, PlacedBetween
<1>15. n = Put(o3, y, [HeaderAt(o3, y) EXCEPT !.foot = y - z])
  BY <1>6, <1>11
<1>. HIDE DEF o1, o2, o3, c1, c2, c3
<1>16. Writes(o3, m, Triple(ch, x, z, y, hx, hz, g)) /\ Inside(ch, x, z, y) /\ y \in DOMAIN ch
  BY <1>13, <1>14
<1>17. HeaderAt(o3, y) = g /\ Writes(Put(o3, y, hy), m, Triple(ch, x, z, y, hx, hz, hy))
  <2>. HIDE DEF ch
  <2>. QED
    BY ONLY <1>7, <1>16, LastPut
<1>18. n = Put(o3, y, hy)
  BY <1>12, <1>15, <1>17
<1>19. Writes(n, m, Triple(ch, x, z, y, hx, hz, hy))
  BY <1>17, <1>18
<1>. QED
  BY <1>3, <1>4, <1>5, <1>19, TripleIsTwo

\* The chunk p in use, up to e, of which nb are kept.
Parting(m, p, e, q, nb) ==
    /\ Sound(m) /\ p \in Used(m) /\ m.chunks[p].c /\ m.chunks[p].p /\ After(m.chunks, p) = e
    /\ nb \in Nat /\ nb > 0 /\ q = p + nb /\ q < e
Parted(n, m, p, nb) ==
    /\ Sound(n) /\ Frame(n, m, {p}, {p}) /\ n.chunks[p].size = nb /\ n.chunks[p].c /\ n.chunks[p].p

\* What is known when a chunk is parted,
LEMMA PartingIs ==
    ASSUME NEW m, NEW p, NEW e, NEW q, NEW nb, Parting(m, p, e, q, nb)
    PROVE  /\ Whole(m) /\ Binned(m, {}) /\ IsState(m) /\ Structure(m.chunks, m.top, m.segs, m.regions)
           /\ p \in Nat /\ q \in Nat /\ e \in Nat /\ p < q /\ q < e /\ q - p = nb /\ p < e
           /\ Block(m.chunks, m.segs, p, e, {p}) /\ e \in Ord(m.chunks) /\ e \in DOMAIN m.chunks
           /\ m.chunks[e].p /\ Inside(m.chunks, p, q, e) /\ q \notin DOMAIN m.chunks
           /\ p \notin FreeAt(m.chunks) /\ p # m.top /\ p # m.dv /\ p # NULL
           /\ m.chunks[p].p /\ m.chunks[p].c /\ p \in Used(m)
<1>. DEFINE ch == m.chunks
<1>1. /\ Sound(m) /\ p \in Used(m) /\ m.chunks[p].c /\ m.chunks[p].p /\ After(m.chunks, p) = e
      /\ nb \in Nat /\ nb > 0 /\ q = p + nb /\ q < e
  BY DEF Parting
<1>2. Whole(m) /\ Binned(m, {}) /\ IsState(m) /\ Structure(ch, m.top, m.segs, m.regions)
  BY <1>1 DEF Sound, Whole
<1>3. /\ Block(ch, m.segs, p, e, {p}) /\ e \in Ord(ch) /\ e \in DOMAIN ch /\ ch[e].p /\ e \in Nat /\ p < e
  BY <1>1, <1>2, BehindUsed
<1>4. p \in Nat /\ p \notin FreeAt(ch) /\ p # m.top /\ p # NULL
  BY <1>1, <1>2, UsedIs
<1>5. p # m.dv
  BY <1>2, <1>4 DEF Binned
<1>6. q \in Nat /\ p < q /\ q - p = nb
  BY <1>1, <1>4
<1>7. Inside(ch, p, q, e) /\ q \notin DOMAIN ch
  BY <1>1, <1>2, <1>3, <1>6, BlockInside
<1>. QED
  BY <1>1, <1>2, <1>3, <1>4, <1>5, <1>6, <1>7

\* What was made of it is what was meant.
LEMMA PartedIs ==
    ASSUME NEW m, NEW p, NEW e, NEW q, NEW nb, Parting(m, p, e, q, nb), NEW k, BinsOnly(k, m),
           NEW n, NEW y, NEW S, Sound(n), Frame(n, k, S, {p}), Two(m.chunks, n.chunks, p, q, y, FALSE),
           S \cap Used(m) = {p}
    PROVE  Parted(n, m, p, nb)
<1>1. q - p = nb /\ m.chunks[p].p /\ p \in Used(m)
  BY PartingIs
<1>2. Frame(n, m, S, {p})
  BY FrameBins
<1>3. S \cap Used(m) = {p} \cap Used(m)
  BY <1>1
<1>4. Frame(n, m, {p}, {p})
  BY <1>2, <1>3, FrameNarrow
<1>5. n.chunks[p].size = nb /\ n.chunks[p].c /\ n.chunks[p].p
  BY <1>1 DEF Two, Headed
<1>. QED
  BY <1>4, <1>5 DEF Parted

\* the chunk behind it being in use,
LEMMA PartInUse ==
    ASSUME NEW m, NEW p, NEW e, NEW q, NEW nb, Parting(m, p, e, q, nb), m.chunks[e].c,
           NEW n, n = InsertChunk(SetFreeWithPinuse(SetSizeAndPinuseOfInuse(m, p, nb), q, e - q, e), q, e - q)
    PROVE  Parted(n, m, p, nb)
<1>. DEFINE o == SetFreeWithPinuse(SetSizeAndPinuseOfInuse(m, p, nb), q, e - q, e)
<1>1. /\ Whole(m) /\ Binned(m, {}) /\ IsState(m) /\ Structure(m.chunks, m.top, m.segs, m.regions)
      /\ p \in Nat /\ q \in Nat /\ e \in Nat /\ p < q /\ q < e /\ q - p = nb /\ p < e
      /\ Block(m.chunks, m.segs, p, e, {p}) /\ e \in Ord(m.chunks) /\ e \in DOMAIN m.chunks
      /\ m.chunks[e].p /\ Inside(m.chunks, p, q, e) /\ q \notin DOMAIN m.chunks
      /\ p \notin FreeAt(m.chunks) /\ p # m.top /\ p # m.dv /\ p # NULL
      /\ m.chunks[p].p /\ m.chunks[p].c /\ p \in Used(m)
  BY PartingIs
<1>2. m.chunks[e].size > 0
  BY <1>1 DEF Ord
<1>3. o = SetFreeWithPinuse(SetSizeAndPinuseOfInuse(m, p, q - p), q, e - q, e) /\ n = InsertChunk(o, q, e - q)
  BY <1>1
<1>. HIDE DEF o
<1>4. Wrote(o, m) /\ Two(m.chunks, o.chunks, p, q, e, FALSE)
  BY <1>1, <1>2, <1>3, SplitClearIs
<1>5. IsState(o) /\ SameRest(o, m) /\ SameTop(o, m) /\ SameBins(o, m)
  BY <1>4 DEF Wrote, SameRest
<1>6. BinsOnly(n, o) /\ SameDv(n, o) /\ n.bins = o.bins \cup {[at |-> q, size |-> e - q]}
  BY <1>3, <1>5, InsertIs
<1>7. SameRest(n, m) /\ SameTop(n, m) /\ SameDv(n, m) /\ n.bins = m.bins \cup {[at |-> q, size |-> e - q]}
  BY <1>5, <1>6 DEF BinsOnly, SameRest, SameTop, SameBins, SameDv
<1>8. Two(m.chunks, n.chunks, p, q, e, FALSE)
  <2>1. n.chunks = o.chunks
    BY <1>6 DEF BinsOnly
  <2>. QED
    BY <1>4, <2>1, Zenon
<1>9. Cleared(m, {}, p, e, {p})
  BY <1>1 DEF Cleared
<1>10. SplitInUse(m, {}, p, q, e, {p}, n)
  BY <1>1, <1>7, <1>8, <1>9 DEF SplitInUse
<1>11. Sound(n) /\ Frame(n, m, {p}, {p})
  BY <1>10, MadeSplit
<1>12. BinsOnly(m, m) /\ {p} \cap Used(m) = {p}
  BY SMTT(30), <1>1, SameIsBinsOnly
<1>. QED
  BY <1>8, <1>11, <1>12, PartedIs

\* With the chunk behind, which is free.
PartingFree(m, p, e, q, nb, y, S) ==
    /\ Parting(m, p, e, q, nb) /\ e \in FreeAt(m.chunks) /\ y = After(m.chunks, e) /\ S = {p} \cup {e}

\* or free.
LEMMA PartingFreeIs ==
    ASSUME NEW m, NEW p, NEW e, NEW q, NEW nb, NEW y, NEW S, PartingFree(m, p, e, q, nb, y, S)
    PROVE  /\ Block(m.chunks, m.segs, p, y, S) /\ Inside(m.chunks, p, q, y)
           /\ y \in Nat /\ e < y /\ q < y /\ y - q = (e - q) + m.chunks[e].size /\ e + m.chunks[e].size = y
           /\ S \cap Used(m) = {p} /\ S \cap FreeAt(m.chunks) = {e} /\ e \in S /\ p \in S
           /\ e # m.top => m.top \notin S /\ y \in DOMAIN m.chunks /\ m.chunks[y].c /\ ~m.chunks[y].p /\ m.chunks[y].size > 0
           /\ e = m.top => y \notin DOMAIN m.chunks /\ m.dv \notin S
           /\ e # m.dv => m.dv \notin S
<1>. DEFINE ch == m.chunks
<1>1. Parting(m, p, e, q, nb) /\ e \in FreeAt(ch) /\ y = After(ch, e) /\ S = {p} \cup {e}
  BY DEF PartingFree
<1>2. /\ Whole(m) /\ Binned(m, {}) /\ Structure(m.chunks, m.top, m.segs, m.regions)
      /\ p \in Nat /\ q \in Nat /\ e \in Nat /\ p < q /\ q < e /\ p < e
      /\ Block(m.chunks, m.segs, p, e, {p}) /\ Inside(m.chunks, p, q, e) /\ q \notin DOMAIN m.chunks
      /\ p \notin FreeAt(m.chunks) /\ p # m.top /\ p # m.dv /\ p # NULL /\ p \in Used(m)
  BY <1>1, PartingIs
<1>3. /\ Block(ch, m.segs, e, y, {e})
      /\ e # m.top => y \in DOMAIN ch /\ ch[y].c /\ ~ch[y].p /\ ch[y].size > 0
      /\ e = m.top => y \notin DOMAIN ch
  BY <1>1, <1>2, BehindFree
<1>4. Block(ch, m.segs, p, y, S)
  BY <1>1, <1>2, <1>3, BlockJoin
<1>5. y = e + ch[e].size /\ ch[e].size \in Nat /\ y \in Nat /\ e < y
  BY <1>1, <1>2, ChunkTypes DEF After, FreeAt
<1>6. q < y /\ y - q = (e - q) + ch[e].size
  BY <1>2, <1>5
<1>7. Inside(ch, p, q, y)
  <2>1. Ends(ch, p, y)
    BY <1>2, <1>4, BlockEnds
  <2>. QED
    BY <1>2, <1>6, <2>1 DEF Inside
<1>8. e \notin Used(m) /\ e # NULL
  BY <1>1, <1>2, UsedNotFree DEF NULL
<1>9. e = m.top => m.dv \notin S
  BY <1>1, <1>2, <1>8 DEF Binned
<1>. QED
  BY <1>1, <1>2, <1>3, <1>4, <1>5, <1>6, <1>7, <1>8, <1>9

\* A header and the victim, or a header and a bin, are written in any order.
LEMMA PutAndDv ==
    ASSUME NEW m, IsState(m), NEW x, NEW h, NEW a, NEW s
    PROVE  SetDv(Put(m, x, h), a, s) = Put(SetDv(m, a, s), x, h)
<1>. DEFINE c == Placed(m.chunks, x, h)
            d == SetDv(m, a, s)
<1>1. Put(m, x, h) = [m EXCEPT !.chunks = c]
  BY DEF Put, Placed
<1>2. d.chunks = m.chunks
  BY DEF SetDv, IsState, Fields
<1>3. Put(d, x, h) = [d EXCEPT !.chunks = c]
  <2>1. Put(d, x, h) = [d EXCEPT !.chunks = Placed(d.chunks, x, h)]
    BY DEF Put, Placed
  <2>. QED
    BY <1>2, <2>1
<1>4. d = [m EXCEPT !.dv = a, !.dvsize = s]
  BY DEF SetDv
<1>. HIDE DEF c, d
<1>5. [[m EXCEPT !.chunks = c] EXCEPT !.dv = a, !.dvsize = s] = [[m EXCEPT !.dv = a, !.dvsize = s] EXCEPT !.chunks = c]
  BY DEF IsState, Fields
<1>. QED
  BY <1>1, <1>3, <1>4, <1>5 DEF SetDv, d

\* A header and an entry of the bins may be written in either order.
LEMMA PutAndUnlink ==
    ASSUME NEW m, IsState(m), NEW x, NEW h, NEW a, NEW s, [at |-> a, size |-> s] \in m.bins
    PROVE  UnlinkChunk(Put(m, x, h), a, s) = Put(UnlinkChunk(m, a, s), x, h)
<1>. DEFINE c == Placed(m.chunks, x, h)
            b == m.bins \ {[at |-> a, size |-> s]}
            u == Put(m, x, h)
            d == UnlinkChunk(m, a, s)
<1>1. u = [m EXCEPT !.chunks = c]
  BY DEF Put, Placed
<1>2. d = [m EXCEPT !.bins = b]
  BY DEF UnlinkChunk, Check
<1>3. d.chunks = m.chunks /\ u.bins = m.bins
  BY <1>1, <1>2 DEF IsState, Fields
<1>4. UnlinkChunk(u, a, s) = [u EXCEPT !.bins = b]
  <2>1. UnlinkChunk(u, a, s) = [u EXCEPT !.bins = u.bins \ {[at |-> a, size |-> s]}]
    BY <1>3 DEF UnlinkChunk, Check
  <2>. QED
    BY <1>3, <2>1
<1>5. Put(d, x, h) = [d EXCEPT !.chunks = c]
  <2>1. Put(d, x, h) = [d EXCEPT !.chunks = Placed(d.chunks, x, h)]
    BY DEF Put, Placed
  <2>. QED
    BY <1>3, <2>1
<1>. HIDE DEF c, b, d, u
<1>6. [[m EXCEPT !.chunks = c] EXCEPT !.bins = b] = [[m EXCEPT !.bins = b] EXCEPT !.chunks = c]
  BY DEF IsState, Fields
<1>. QED
  BY <1>1, <1>2, <1>4, <1>5, <1>6 DEF u, d

\* The rest joins top,
LEMMA PartBeforeTop ==
    ASSUME NEW m, NEW p, NEW e, NEW q, NEW nb, NEW y, NEW S, PartingFree(m, p, e, q, nb, y, S), e = m.top,
           NEW n, n = SetTop(SetSizeAndPinuseOfInuse(m, p, nb), q, m.topsize + (e - q))
    PROVE  Parted(n, m, p, nb)
<1>. DEFINE ch == m.chunks
            hx == InuseHeader(nb)
            hz == FreeHeader(y - q)
            u == SetSizeAndPinuseOfInuse(m, p, nb)
            c == Placed(ch, p, hx)
<1>1. Parting(m, p, e, q, nb) /\ e \in FreeAt(ch) /\ y = After(ch, e)
  BY DEF PartingFree
<1>2. /\ Whole(m) /\ Binned(m, {}) /\ IsState(m)
      /\ p \in Nat /\ q \in Nat /\ e \in Nat /\ p < q /\ q < e /\ q - p = nb
      /\ q \notin DOMAIN ch /\ p \notin FreeAt(ch) /\ ch[p].p /\ p \in Used(m)
  BY <1>1, PartingIs
<1>3. /\ Block(ch, m.segs, p, y, S) /\ Inside(ch, p, q, y)
      /\ y \in Nat /\ q < y /\ y - q = (e - q) + ch[e].size
      /\ S \cap Used(m) = {p} /\ S \cap FreeAt(ch) = {e} /\ e \in S
      /\ y \notin DOMAIN ch /\ m.dv \notin S
  BY PartingFreeIs
<1>4. m.topsize + (e - q) = y - q
  <2>1. m.topsize = ch[e].size
    <3>1. e # NULL
      BY <1>2 DEF NULL
    <3>. QED
      BY <1>2, <3>1 DEF Binned
  <2>2. ch[e].size \in Nat
    BY <1>1, <1>2, ChunkTypes DEF Whole, FreeAt
  <2>. QED
    BY <1>2, <1>3, <2>1, <2>2
<1>5. Headed(hx, q - p, TRUE, ch[p].p, ch[p].foot)
  <2>1. HeaderOk(ch[p])
    BY <1>3, InsideOf
  <2>2. nb \in Nat /\ nb > 0
    BY <1>1 DEF Parting
  <2>3. Headed(hx, nb, TRUE, TRUE, 0)
    BY <2>2, NewHeads, Zenon
  <2>. QED
    BY <1>2, <2>1, <2>3, HeadAt
<1>6. Headed(hz, y - q, FALSE, TRUE, 0)
  <2>1. y - q \in Nat /\ y - q > 0
    BY <1>2, <1>3
  <2>. QED
    BY <2>1, NewHeads, Zenon
<1>7. Writes(u, m, c)
  <2>1. u = Put(m, p, hx)
    BY DEF SetSizeAndPinuseOfInuse, InuseHeader
  <2>. QED
    BY <1>2, <2>1, PutIs
<1>8. Topped(n, m, q, y - q) /\ n.chunks = Placed(c, q, hz)
  <2>. DEFINE s == y - q
  <2>1. n = SetTop(u, q, s) /\ hz = FreeHeader(s)
    BY <1>4
  <2>. HIDE DEF u, c, s, hz
  <2>2. Topped(SetTop(u, q, s), m, q, s) /\ SetTop(u, q, s).chunks = Placed(c, q, FreeHeader(s))
    BY <1>7, SetTopPut
  <2>. QED
    BY <2>1, <2>2 DEF s
<1>9. hx.size = q - p /\ hz.size = y - q
  BY <1>5, <1>6 DEF Headed
<1>. HIDE DEF hx, hz
<1>10. Placed(c, q, hz) = Triple(ch, p, q, y, hx, hz, ch[y])
  <2>1. /\ q \in Nat /\ Ends(ch, p, y) /\ p < q /\ q < y /\ q \notin DOMAIN ch
    BY <1>3, InsideOf
  <2>. QED
    BY <1>9, <2>1, PlacedMiddle
<1>11. Two(ch, n.chunks, p, q, y, FALSE)
  <2>1. FALSE \in BOOLEAN
    OBVIOUS
  <2>2. /\ q \in Nat /\ Ends(ch, p, y) /\ p < q /\ q < y
    BY <1>3, InsideOf
  <2>3. Two(ch, Triple(ch, p, q, y, hx, hz, ch[y]), p, q, y, FALSE)
    BY <1>3, <1>5, <1>6, <2>1, <2>2, TripleTwo
  <2>4. n.chunks = Triple(ch, p, q, y, hx, hz, ch[y])
    BY <1>8, <1>10
  <2>. QED
    BY <2>3, <2>4, Zenon
<1>12. Cleared(m, {}, p, y, S)
  <2>1. S \cap FreeAt(ch) \subseteq {} \cup {m.top, m.dv}
    BY <1>3
  <2>. QED
    BY <1>2, <1>3, <2>1 DEF Cleared
<1>13. TopIsSplit(m, {}, p, q, y, S, n)
  BY <1>1, <1>2, <1>3, <1>8, <1>11, <1>12 DEF TopIsSplit, Topped
<1>14. Sound(n) /\ Frame(n, m, S, {p})
  BY <1>13, MadeTopSplit
<1>15. BinsOnly(m, m)
  BY <1>2, SameIsBinsOnly
<1>. QED
  BY <1>1, <1>3, <1>11, <1>14, <1>15, PartedIs

\* or the designated victim,
LEMMA PartBeforeDv ==
    ASSUME NEW m, NEW p, NEW e, NEW q, NEW nb, NEW y, NEW S, PartingFree(m, p, e, q, nb, y, S), e # m.top, e = m.dv,
           NEW n, n = IntoDv(SetSizeAndPinuseOfInuse(m, p, nb), q, e - q)
    PROVE  Parted(n, m, p, nb)
<1>. DEFINE ch == m.chunks
            s == y - q
            d == SetDv(m, q, s)
            h == InuseHeader(nb)
<1>1. Parting(m, p, e, q, nb) /\ e \in FreeAt(ch) /\ y = After(ch, e)
  BY DEF PartingFree
<1>2. /\ Whole(m) /\ Binned(m, {}) /\ IsState(m)
      /\ p \in Nat /\ q \in Nat /\ e \in Nat /\ p < q /\ q < e /\ q - p = nb
      /\ p \notin FreeAt(ch) /\ ch[p].p /\ p \in Used(m)
  BY <1>1, PartingIs
<1>3. /\ Block(ch, m.segs, p, y, S) /\ Inside(ch, p, q, y)
      /\ y \in Nat /\ q < y /\ y - q = (e - q) + ch[e].size
      /\ S \cap Used(m) = {p} /\ S \cap FreeAt(ch) = {e} /\ e \in S
      /\ m.top \notin S /\ y \in DOMAIN ch /\ ch[y].c /\ ~ch[y].p /\ ch[y].size > 0
  BY PartingFreeIs
<1>4. m.dvsize + (e - q) = s
  <2>1. m.dvsize = ch[e].size
    <3>1. e # NULL
      BY <1>2 DEF NULL
    <3>. QED
      BY <1>2, <3>1 DEF Binned
  <2>2. ch[e].size \in Nat
    BY <1>1, <1>2, ChunkTypes DEF Whole, FreeAt
  <2>. QED
    BY <1>2, <1>3, <2>1, <2>2
<1>5. n = SetSizeAndPinuseOfFree(SetSizeAndPinuseOfInuse(d, p, nb), q, s)
  <2>1. SetSizeAndPinuseOfInuse(m, p, nb) = Put(m, p, h) /\ SetSizeAndPinuseOfInuse(d, p, nb) = Put(d, p, h)
    BY DEF SetSizeAndPinuseOfInuse, InuseHeader
  <2>2. Put(m, p, h).dvsize = m.dvsize
    BY <1>2, PutIs DEF Writes, SameBins
  <2>3. n = SetSizeAndPinuseOfFree(SetDv(Put(m, p, h), q, Put(m, p, h).dvsize + (e - q)), q, Put(m, p, h).dvsize + (e - q))
    BY <2>1 DEF IntoDv
  <2>4. n = SetSizeAndPinuseOfFree(SetDv(Put(m, p, h), q, s), q, s)
    BY <1>4, <2>2, <2>3
  <2>5. SetDv(Put(m, p, h), q, s) = Put(d, p, h)
    BY <1>2, PutAndDv
  <2>. QED
    BY <2>1, <2>4, <2>5
<1>6. BinsOnly(d, m) /\ d.bins = m.bins /\ d.dv = q /\ d.dvsize = s
  BY <1>2, SetDvIs
<1>. HIDE DEF d
<1>7. d.chunks = ch /\ IsState(d)
  BY <1>6 DEF BinsOnly, SameRest
<1>8. Wrote(n, d) /\ Two(d.chunks, n.chunks, p, q, y, FALSE)
  <2>1. n = SetSizeAndPinuseOfFree(SetSizeAndPinuseOfInuse(d, p, q - p), q, y - q)
    BY <1>2, <1>5
  <2>2. /\ IsState(d) /\ Inside(d.chunks, p, q, y) /\ y \in DOMAIN d.chunks
        /\ d.chunks[p].p /\ ~d.chunks[y].p /\ d.chunks[y].size > 0
    BY <1>2, <1>3, <1>7
  <2>. QED
    BY <2>1, <2>2, SplitIs
<1>9. Two(m.chunks, n.chunks, p, q, y, FALSE)
  BY <1>7, <1>8, Zenon
<1>10. SameRest(n, m) /\ SameTop(n, m) /\ n.bins = m.bins /\ n.dv = q /\ n.dvsize = y - q
  BY <1>6, <1>8 DEF Wrote, BinsOnly, SameRest, SameTop, SameBins
<1>11. Cleared(m, {}, p, y, S)
  <2>1. S \cap FreeAt(ch) \subseteq {} \cup {m.top, m.dv}
    BY <1>3
  <2>. QED
    BY <1>2, <1>3, <2>1 DEF Cleared
<1>12. SplitInUse(m, {}, p, q, y, S, n)
  BY <1>2, <1>3, <1>9, <1>10, <1>11 DEF SplitInUse
<1>13. Sound(n) /\ Frame(n, m, S, {p})
  BY <1>12, MadeSplit
<1>14. BinsOnly(m, m)
  BY <1>2, SameIsBinsOnly
<1>. QED
  BY <1>1, <1>3, <1>9, <1>13, <1>14, PartedIs

\* or another free chunk.
LEMMA PartBeforeFree ==
    ASSUME NEW m, NEW p, NEW e, NEW q, NEW nb, NEW y, NEW S, PartingFree(m, p, e, q, nb, y, S), e # m.top, e # m.dv,
           NEW n, n = InsertChunk(SetFreeWithPinuse(UnlinkChunk(SetSizeAndPinuseOfInuse(m, p, nb), e, m.chunks[e].size),
                                                    q, y - q, y), q, y - q)
    PROVE  Parted(n, m, p, nb)
<1>. DEFINE ch == m.chunks
            v == UnlinkChunk(m, e, ch[e].size)
            h == InuseHeader(nb)
            o == SetFreeWithPinuse(SetSizeAndPinuseOfInuse(v, p, nb), q, y - q, y)
<1>1. Parting(m, p, e, q, nb) /\ e \in FreeAt(ch) /\ y = After(ch, e)
  BY DEF PartingFree
<1>2. /\ Whole(m) /\ Binned(m, {}) /\ IsState(m)
      /\ p \in Nat /\ q \in Nat /\ e \in Nat /\ p < q /\ q < e /\ q - p = nb
      /\ p \notin FreeAt(ch) /\ ch[p].p /\ p \in Used(m)
  BY <1>1, PartingIs
<1>3. /\ Block(ch, m.segs, p, y, S) /\ Inside(ch, p, q, y)
      /\ y \in Nat /\ q < y
      /\ S \cap Used(m) = {p} /\ S \cap FreeAt(ch) = {e} /\ e \in S
      /\ m.top \notin S /\ y \in DOMAIN ch /\ ch[y].c /\ ~ch[y].p /\ ch[y].size > 0 /\ m.dv \notin S
  BY PartingFreeIs
<1>4. Whole(v) /\ Binned(v, {} \cup {e}) /\ BinsOnly(v, m) /\ SameDv(v, m) /\ [at |-> e, size |-> ch[e].size] \in m.bins
  <2>1. e \in FreeAt(ch) \ ({m.top, m.dv} \cup {})
    BY <1>1
  <2>. QED
    BY <1>2, <2>1, Unlinked
<1>5. n = InsertChunk(o, q, y - q)
  <2>1. SetSizeAndPinuseOfInuse(m, p, nb) = Put(m, p, h) /\ SetSizeAndPinuseOfInuse(v, p, nb) = Put(v, p, h)
    BY DEF SetSizeAndPinuseOfInuse, InuseHeader
  <2>2. UnlinkChunk(Put(m, p, h), e, ch[e].size) = Put(v, p, h)
    BY <1>2, <1>4, PutAndUnlink
  <2>. QED
    BY <2>1, <2>2
<1>6. o = SetFreeWithPinuse(SetSizeAndPinuseOfInuse(v, p, q - p), q, y - q, y)
  BY <1>2
<1>. HIDE DEF v, o
<1>7. v.chunks = ch /\ v.segs = m.segs /\ IsState(v) /\ SameTop(v, m)
  BY <1>4 DEF BinsOnly, SameRest
<1>8. Wrote(o, v) /\ Two(v.chunks, o.chunks, p, q, y, FALSE)
  <2>1. /\ IsState(v) /\ Inside(v.chunks, p, q, y) /\ y \in DOMAIN v.chunks
        /\ v.chunks[p].p /\ v.chunks[y].size > 0
    BY <1>2, <1>3, <1>7
  <2>. QED
    BY <1>6, <2>1, SplitClearIs
<1>9. IsState(o) /\ SameRest(o, v) /\ SameTop(o, v) /\ SameBins(o, v)
  BY <1>8 DEF Wrote, SameRest
<1>10. BinsOnly(n, o) /\ SameDv(n, o) /\ n.bins = o.bins \cup {[at |-> q, size |-> y - q]}
  BY SMTT(30), <1>5, <1>9, InsertIs
<1>11. SameRest(n, v) /\ SameTop(n, v) /\ SameDv(n, v) /\ n.bins = v.bins \cup {[at |-> q, size |-> y - q]}
  BY <1>9, <1>10 DEF BinsOnly, SameRest, SameTop, SameBins, SameDv
<1>12. n.chunks = o.chunks
  BY <1>10 DEF BinsOnly
<1>13. Two(v.chunks, n.chunks, p, q, y, FALSE) /\ Two(m.chunks, n.chunks, p, q, y, FALSE)
  BY <1>7, <1>8, <1>12, Zenon
<1>14. Cleared(v, {} \cup {e}, p, y, S)
  <2>1. S \cap FreeAt(v.chunks) \subseteq ({} \cup {e}) \cup {v.top, v.dv} /\ ({} \cup {e}) \cap FreeAt(v.chunks) \subseteq S
    BY <1>3, <1>7
  <2>2. Block(v.chunks, v.segs, p, y, S)
    BY SMTT(30), <1>3, <1>7
  <2>. QED
    BY <1>4, <2>1, <2>2 DEF Cleared
<1>15. SplitInUse(v, {} \cup {e}, p, q, y, S, n)
  <2>1. y \in DOMAIN v.chunks /\ v.top \notin S /\ q \in Nat /\ p < q /\ q < y /\ v.chunks[y].c /\ v.dv \notin S
    BY <1>2, <1>3, <1>4, <1>7 DEF SameTop, SameDv
  <2>. QED
    BY <1>11, <1>13, <1>14, <2>1 DEF SplitInUse
<1>16. Sound(n) /\ Frame(n, v, S, {p})
  BY <1>15, MadeSplit
<1>. QED
  BY <1>1, <1>3, <1>4, <1>13, <1>16, PartedIs

\* A header written twice, where nothing else is.
LEMMA PutTwice ==
    ASSUME NEW m, IsState(m), NEW a \in Nat, NEW s \in Nat, NEW t \in Nat, t <= s, t > 0,
           DOMAIN m.chunks \cap Window(a, a + s) = {}
    PROVE  Put(Put(m, a, InuseHeader(s)), a, InuseHeader(t)) = Put(m, a, InuseHeader(t))
<1>. DEFINE ch == m.chunks
            h == InuseHeader(s)
            g == InuseHeader(t)
            u == Put(m, a, h)
            c1 == Placed(ch, a, h)
            c2 == Placed(c1, a, g)
            c3 == Placed(ch, a, g)
<1>1. h.size = s /\ g.size = t
  BY DEF InuseHeader, Header
<1>. HIDE DEF h, g
<1>2. \A q : q \in Window(a, a + s) <=> q \in Int /\ a <= q /\ q < a + s
  BY DEF Window
<1>3. \A q : q \in (a + 1)..(a + h.size - 1) <=> q \in Int /\ a < q /\ q < a + s
  BY <1>1
<1>4. \A q : q \in (a + 1)..(a + g.size - 1) <=> q \in Int /\ a < q /\ q < a + t
  BY <1>1
<1>5. DOMAIN c1 = DOMAIN ch \cup {a} /\ \A q \in DOMAIN c1 : c1[q] = IF q = a THEN h ELSE ch[q]
  BY <1>2, <1>3 DEF Placed
<1>6. DOMAIN c3 = DOMAIN ch \cup {a} /\ c3 = [q \in DOMAIN ch \cup {a} |-> IF q = a THEN g ELSE ch[q]]
  BY <1>2, <1>4 DEF Placed
<1>. HIDE DEF c1
<1>7. DOMAIN c2 = DOMAIN ch \cup {a} /\ c2 = [q \in DOMAIN ch \cup {a} |-> IF q = a THEN g ELSE c1[q]]
  BY <1>2, <1>4, <1>5 DEF Placed
<1>8. c2 = c3
  BY <1>5, <1>6, <1>7
<1>9. u = [m EXCEPT !.chunks = c1] /\ u.chunks = c1
  BY DEF Put, Placed, IsState, Fields, c1
<1>10. Put(u, a, g) = [u EXCEPT !.chunks = c2]
  <2>1. Put(u, a, g) = [u EXCEPT !.chunks = Placed(u.chunks, a, g)]
    BY DEF Put, Placed
  <2>. QED
    BY <1>9, <2>1
<1>11. Put(m, a, g) = [m EXCEPT !.chunks = c3]
  BY DEF Put, Placed
<1>. HIDE DEF c2, c3, u
<1>12. [[m EXCEPT !.chunks = c1] EXCEPT !.chunks = c2] = [m EXCEPT !.chunks = c2]
  BY DEF IsState, Fields
<1>. QED
  BY <1>8, <1>9, <1>10, <1>11, <1>12 DEF u, h, g

\* One of the four ways in which the rest of the new part is put away.
PutAway(x, e, q, u) ==
    IF e = x.top THEN SetTop(u, q, x.topsize + (e - q))
    ELSE IF e = x.dv THEN IntoDv(u, q, e - q)
    ELSE IF IsInuse(x, e) THEN InsertChunk(SetFreeWithPinuse(u, q, e - q, e), q, e - q)
    ELSE InsertChunk(SetFreeWithPinuse(UnlinkChunk(u, e, ChunkSize(x, e)), q, (e - q) + ChunkSize(x, e),
                                       e + ChunkSize(x, e)), q, (e - q) + ChunkSize(x, e))

\* In each case the chunk is parted.
LEMMA PutAwayIs ==
    ASSUME NEW m, NEW p, NEW e, NEW q, NEW nb, Parting(m, p, e, q, nb),
           NEW x, SameTop(m, x), m.dv = x.dv, HeaderAt(x, e) = m.chunks[e],
           NEW n, n = PutAway(x, e, q, SetSizeAndPinuseOfInuse(m, p, nb))
    PROVE  Parted(n, m, p, nb)
<1>. DEFINE ch == m.chunks
            u == SetSizeAndPinuseOfInuse(m, p, nb)
            y == After(ch, e)
            S == {p} \cup {e}
<1>1. /\ Whole(m) /\ Binned(m, {}) /\ e \in Nat /\ e \in Ord(ch) /\ e \in DOMAIN ch /\ ch[e].p
      /\ p \in Nat /\ p < e
  BY PartingIs
<1>2. (IsInuse(x, e) <=> ch[e].c) /\ ChunkSize(x, e) = ch[e].size
  BY <1>1 DEF IsInuse, ChunkSize
<1>3. e = x.top => e \in FreeAt(ch)
  <2>1. e # NULL
    BY <1>1 DEF NULL
  <2>. QED
    BY <1>1, <2>1, ChunkTypes DEF SameTop, Whole
<1>4. e = x.dv => e \in FreeAt(ch)
  <2>1. e # NULL
    BY <1>1 DEF NULL
  <2>. QED
    BY <1>1, <2>1 DEF Binned
<1>5. ~ch[e].c => e \in FreeAt(ch)
  BY <1>1 DEF FreeAt
<1>6. e \in FreeAt(ch) => PartingFree(m, p, e, q, nb, y, S)
  BY DEF PartingFree
<1>. HIDE DEF u
<1>7. CASE e = x.top
  <2>1. n = SetTop(u, q, m.topsize + (e - q)) /\ e = m.top
    BY <1>7 DEF PutAway, SameTop, u
  <2>2. PartingFree(m, p, e, q, nb, y, S)
    BY <1>3, <1>6, <1>7
  <2>. HIDE DEF y, S
  <2>. QED
    BY <2>1, <2>2, PartBeforeTop DEF u
<1>8. CASE e # x.top /\ e = x.dv
  <2>1. n = IntoDv(u, q, e - q) /\ e # m.top /\ e = m.dv
    BY <1>8 DEF PutAway, SameTop, u
  <2>2. PartingFree(m, p, e, q, nb, y, S)
    BY <1>4, <1>6, <1>8
  <2>. HIDE DEF y, S
  <2>. QED
    BY <2>1, <2>2, PartBeforeDv DEF u
<1>9. CASE e # x.top /\ e # x.dv /\ ch[e].c
  <2>1. n = InsertChunk(SetFreeWithPinuse(u, q, e - q, e), q, e - q)
    BY <1>2, <1>9 DEF PutAway, u
  <2>. QED
    BY <1>9, <2>1, PartInUse DEF u
<1>10. CASE e # x.top /\ e # x.dv /\ ~ch[e].c
  <2>1. PartingFree(m, p, e, q, nb, y, S) /\ e # m.top /\ e # m.dv
    BY <1>5, <1>6, <1>10 DEF SameTop
  <2>2. y - q = (e - q) + ch[e].size /\ e + ch[e].size = y
    <3>. HIDE DEF y, S
    <3>. QED
      BY <2>1, PartingFreeIs
  <2>3. n = InsertChunk(SetFreeWithPinuse(UnlinkChunk(u, e, ch[e].size), q, (e - q) + ch[e].size, e + ch[e].size),
                        q, (e - q) + ch[e].size)
    BY <1>2, <1>10 DEF PutAway, u
  <2>. HIDE DEF y, S
  <2>4. n = InsertChunk(SetFreeWithPinuse(UnlinkChunk(u, e, ch[e].size), q, y - q, y), q, y - q)
    BY <2>2, <2>3
  <2>. QED
    BY <2>1, <2>4, PartBeforeFree DEF u
<1>. QED
  BY <1>7, <1>8, <1>9, <1>10

\* What sys_alloc knows when it calls prepend_alloc.
Prepending(m, a, size, i, nb) ==
    /\ Sound(m) /\ m.top # NULL /\ NewRegion(m, a, size)
    /\ i \in 1..Len(m.segs) /\ m.segs[i].base = a + size
    /\ nb \in Nat /\ nb >= MinChunk /\ nb + MinChunk <= size

\* prepend_alloc meets the request.
LEMMA PrependIs ==
    ASSUME NEW m, NEW a, NEW size, NEW i, NEW nb, Prepending(m, a, size, i, nb),
           NEW l, l = LeastAddr(Map(m, a, size), a),
           NEW x, x = [l EXCEPT !.segs[i].base = a, !.segs[i].size = @ + size],
           NEW o, o = PrependAlloc(x, a, a + size, nb)
    PROVE  Took(o.m, m, o.p, nb)
<1>. DEFINE ch == m.chunks
            e == a + size
            q == a + nb
            u == SetSizeAndPinuseOfInuse(x, a, nb)
            h == InuseHeader(size)
            k == Put(x, a, h)
            n == PutAway(x, e, q, u)
<1>1. /\ Sound(m) /\ m.top # NULL /\ NewRegion(m, a, size)
      /\ i \in 1..Len(m.segs) /\ m.segs[i].base = a + size
      /\ nb \in Nat /\ nb >= MinChunk /\ nb + MinChunk <= size
  BY DEF Prepending
<1>2. Whole(m) /\ IsState(m) /\ Body(ch, m.top, m.segs, m.regions)
  BY <1>1, StructureIsBody DEF Sound, Whole
<1>3. a \in Nat \ {0} /\ size \in Nat \ {0} /\ a \in Nat /\ size \in Nat
  BY <1>1 DEF NewRegion
<1>4. m.segs \in Seq(SegmentType)
  BY SMTT(30), <1>2 DEF Body
<1>5. LowerState(x, m, i, a, size)
  BY ZenonT(60), <1>1, <1>2, <1>3, <1>4, LowerIs
<1>6. IsState(x) /\ x.chunks = ch
  BY SMTT(30), <1>5 DEF LowerState
<1>7. e \in DOMAIN ch /\ ch[e].p
  <2>1. SegmentOk(ch, m.top, m.segs[i])
    BY <1>1, <1>2 DEF Body
  <2>. QED
    BY <1>1, <2>1 DEF SegmentOk, Ord
<1>8. MinChunk = 2
  BY DEF MinChunk
<1>9. q \in Nat /\ q < e /\ e - q >= MinChunk /\ nb > 0 /\ nb <= size /\ e > q /\ e \in Nat
  BY SMTT(30), <1>1, <1>3, <1>8
<1>10. HeaderAt(x, e) = ch[e]
  BY <1>6, <1>7 DEF HeaderAt
<1>11. o = Outcome(n, a)
  <2>1. e > q /\ HeaderAt(x, e).p /\ e - q >= MinChunk
    BY <1>7, <1>9, <1>10
  <2>2. Check(x, e > q /\ HeaderAt(x, e).p /\ e - q >= MinChunk) = x
    BY <2>1 DEF Check
  <2>3. o = PrependAlloc(x, a, e, nb)
    OBVIOUS
  <2>. HIDE DEF e
  <2>. QED
    BY Zenon, <2>2, <2>3 DEF PrependAlloc, PutAway
<1>12. DOMAIN ch \cap Window(a, e) = {}
  BY <1>1, <1>2, NewSpaceIs
<1>13. SetSizeAndPinuseOfInuse(k, a, nb) = u
  <2>1. DOMAIN x.chunks \cap Window(a, a + size) = {}
    BY <1>6, <1>12
  <2>2. IsState(x) /\ a \in Nat /\ size \in Nat /\ nb \in Nat /\ nb <= size /\ nb > 0
    BY <1>1, <1>3, <1>6, <1>9
  <2>3. Put(Put(x, a, InuseHeader(size)), a, InuseHeader(nb)) = Put(x, a, InuseHeader(nb))
    BY ONLY <2>1, <2>2, PutTwice
  <2>4. Put(k, a, InuseHeader(nb)) = Put(x, a, InuseHeader(nb))
    BY <2>3
  <2>. HIDE DEF k
  <2>. QED
    BY <2>4 DEF SetSizeAndPinuseOfInuse, InuseHeader
<1>14. Writes(k, x, Placed(ch, a, h))
  BY <1>6, PutIs
<1>. HIDE DEF k, u, n, e, q
<1>15. PartUsed(k, x, m, i, a, size)
  BY <1>5, <1>14 DEF PartUsed, Writes, SameRest
<1>16. PartIsUsed(k, m, i, a, size)
  BY <1>1, <1>15, PartUsedIs
<1>17. /\ Sound(k) /\ Frame(k, m, {}, {a})
       /\ k.chunks[a].size = size /\ k.chunks[a].c /\ k.chunks[a].p /\ a \notin Used(m)
  BY <1>16 DEF PartIsUsed
<1>18. Parting(k, a, e, q, nb)
  <2>1. a \in Used(k)
    BY <1>17 DEF Frame
  <2>. QED
    BY <1>1, <1>9, <1>17, <2>1 DEF Parting, After, e, q
<1>19. SameTop(k, x) /\ k.dv = x.dv
  BY <1>14 DEF Writes, SameBins
<1>20. HeaderAt(x, e) = k.chunks[e]
  <2>1. k.chunks = Placed(ch, a, h) /\ h.size = size
    BY <1>14 DEF Writes, InuseHeader, Header
  <2>2. e \notin (a + 1)..(a + h.size - 1) /\ e # a
    BY <1>3, <2>1 DEF e
  <2>. HIDE DEF h
  <2>3. k.chunks[e] = ch[e]
    BY <1>7, <2>1, <2>2 DEF Placed
  <2>. QED
    BY <1>10, <2>3
<1>21. Parted(n, k, a, nb)
  <2>1. n = PutAway(x, e, q, SetSizeAndPinuseOfInuse(k, a, nb))
    BY <1>13 DEF n
  <2>. QED
    BY <1>18, <1>19, <1>20, <2>1, PutAwayIs
<1>22. Sound(n) /\ Frame(n, k, {a}, {a}) /\ n.chunks[a].size = nb /\ n.chunks[a].c /\ n.chunks[a].p
  BY <1>21 DEF Parted
<1>23. Frame(n, m, {}, {a})
  <2>1. Frame(n, m, {}, ({a} \ {a}) \cup {a})
    BY <1>17, <1>22, FrameThen
  <2>2. ({a} \ {a}) \cup {a} = {a}
    OBVIOUS
  <2>. QED
    BY <2>1, <2>2
<1>24. Took(n, m, a, nb)
  <2>1. a # NULL /\ nb <= nb
    BY <1>1, <1>3 DEF NULL
  <2>. QED
    BY <1>17, <1>22, <1>23, <2>1 DEF Took, Fits
<1>25. o.m = n /\ o.p = a
  BY <1>11, OutcomeIs DEF OutcomeFields
<1>. QED
  BY <1>24, <1>25

-----------------------------------------------------------------------------
(* Memory from the system. *)

\* A request is met, or refused and nothing that is held changed.
Met(o, m, nb) == IF o.p = NULL THEN Kept(o.m, m) ELSE Took(o.m, m, o.p, nb)

\* A chunk taken after the heap was widened.
LEMMA TookAfter ==
    ASSUME NEW m, NEW x, NEW n, NEW p, NEW nb, Frame(x, m, {}, {}), Took(n, x, p, nb)
    PROVE  Took(n, m, p, nb)
<1>1. Sound(n) /\ Frame(n, x, {}, {p}) /\ p \notin Used(x) /\ p # NULL
      /\ Fits(n, p, nb) /\ (~x.use_mmap => n.chunks[p].c) /\ (n.chunks[p].c => n.chunks[p].p)
  BY DEF Took
<1>2. Used(x) = Used(m) /\ x.use_mmap = m.use_mmap
  BY DEF Frame
<1>3. Frame(n, m, {}, ({} \ {}) \cup {p})
  BY <1>1, FrameThen
<1>4. ({} \ {}) \cup {p} = {p}
  OBVIOUS
<1>. QED
  BY <1>1, <1>2, <1>3, <1>4 DEF Took

TakeTop(x, nb) == IF nb < x.topsize THEN Outcome(FromTop(x, nb), x.top) ELSE Outcome(x, NULL)

\* The chunk sys_alloc takes of top.
LEMMA TakeTopIs ==
    ASSUME NEW m, NEW x, NEW room, Widened(x, m, room), NEW nb \in Nat, nb >= MinChunk,
           NEW o, o = TakeTop(x, nb)
    PROVE  Met(o, m, nb)
<1>1. Sound(x) /\ Frame(x, m, {}, {}) /\ x.top # NULL
  BY DEF Widened
<1>2. CASE nb < x.topsize
  <2>1. o = Outcome(FromTop(x, nb), x.top)
    BY <1>2 DEF TakeTop
  <2>2. o.m = FromTop(x, nb) /\ o.p = x.top
    BY <2>1, OutcomeIs DEF OutcomeFields
  <2>3. Took(FromTop(x, nb), x, x.top, nb)
    BY <1>1, <1>2, FromTopIs
  <2>. QED
    BY <1>1, <2>2, <2>3, TookAfter DEF Met
<1>3. CASE ~(nb < x.topsize)
  <2>1. o = Outcome(x, NULL)
    BY <1>3 DEF TakeTop
  <2>2. o.m = x /\ o.p = NULL
    BY <2>1, OutcomeIs DEF OutcomeFields
  <2>. QED
    BY <1>1, <2>2 DEF Met, Kept
<1>. QED
  BY <1>2, <1>3

Extending(m, a, size, nb) ==
    Sound(m) /\ NewRegion(m, a, size) /\ nb \in Nat /\ nb >= MinChunk /\ size >= nb + TopFoot + 1

\* sys_alloc with the first region,
LEMMA ExtendFirst ==
    ASSUME NEW m, NEW a, NEW size, NEW nb, Extending(m, a, size, nb), ~IsInitialized(m)
    PROVE  Met(Extend(m, nb, a, size), m, nb)
<1>. DEFINE x == [LeastAddr(Map(m, a, size), a) EXCEPT !.segs = <<NewSegment(a, size)>>,
                                                       !.release_checks = MaxReleaseCheckRate]
            n == InitTop(x, a, size - TopFoot)
<1>1. Extend(m, nb, a, size) = TakeTop(n, nb)
  BY DEF Extend, TakeTop, NewSegment
<1>2. m.top = NULL /\ Sound(m) /\ NewRegion(m, a, size) /\ nb \in Nat /\ nb >= MinChunk
  BY DEF Extending, IsInitialized
<1>3. size > TopFoot
  BY DEF Extending, NewRegion, TopFoot, SegmentSize, MinChunk
<1>. HIDE DEF x
<1>4. Widened(n, m, size - TopFoot)
  <2>1. x = [LeastAddr(Map(m, a, size), a) EXCEPT !.segs = <<NewSegment(a, size)>>,
                                                  !.release_checks = MaxReleaseCheckRate]
    BY DEF x
  <2>. QED
    BY <1>2, <1>3, <2>1, FirstSegmentIs
<1>. HIDE DEF n
<1>. QED
  BY SMTT(30), <1>1, <1>2, <1>4, TakeTopIs

\* with one behind the segment of top,
LEMMA ExtendAppend ==
    ASSUME NEW m, NEW a, NEW size, NEW nb, Extending(m, a, size, nb), IsInitialized(m),
           NEW j \in 1..Len(m.segs), m.segs[j].base + m.segs[j].size = a, Holds(m.segs[j], m.top)
    PROVE  Met(Extend(m, nb, a, size), m, nb)
<1>. DEFINE before == {i \in DOMAIN m.segs : m.segs[i].base + m.segs[i].size = a}
            i == CHOOSE i \in before : TRUE
            k == Map(m, a, size)
            x == [k EXCEPT !.segs[i].size = @ + size]
            n == InitTop(x, m.top, m.topsize + size)
<1>1. m.top # NULL /\ Sound(m) /\ NewRegion(m, a, size) /\ nb \in Nat /\ nb >= MinChunk
  BY DEF Extending, IsInitialized
<1>2. Body(m.chunks, m.top, m.segs, m.regions) /\ FirstHasTop(m.top, m.segs)
  BY <1>1, StructureIsBody DEF Sound, Whole
<1>3. DOMAIN m.segs = 1..Len(m.segs)
  BY <1>2 DEF Body
<1>4. j \in before
  BY <1>3
<1>5. i \in before
  BY <1>4
<1>6. i = j
  <2>1. i \in 1..Len(m.segs) /\ m.segs[i].base + m.segs[i].size = m.segs[j].base + m.segs[j].size
    BY SMTT(30), <1>3, <1>5
  <2>. HIDE DEF i
  <2>. QED
    BY <1>1, <1>2, <2>1, OneSegment
<1>7. Extend(m, nb, a, size) = TakeTop(n, nb)
  <2>1. \E q \in before : Holds(m.segs[q], m.top)
    BY <1>4
  <2>. QED
    BY Zenon, <2>1 DEF Extend, TakeTop
<1>. HIDE DEF i, before
<1>8. Widened(n, m, m.topsize + size)
  <2>1. x = [k EXCEPT !.segs[j].size = @ + size]
    BY <1>6
  <2>2. k = Map(m, a, size)
    OBVIOUS
  <2>. HIDE DEF x, k
  <2>. QED
    BY <1>1, <2>1, <2>2, AppendIs
<1>. HIDE DEF n
<1>. QED
  BY <1>1, <1>7, <1>8, TakeTopIs

\* with one in front of a segment,
LEMMA ExtendPrepend ==
    ASSUME NEW m, NEW a, NEW size, NEW nb, Extending(m, a, size, nb), IsInitialized(m),
           ~\E j \in 1..Len(m.segs) : m.segs[j].base + m.segs[j].size = a /\ Holds(m.segs[j], m.top),
           \E j \in 1..Len(m.segs) : m.segs[j].base = a + size
    PROVE  Met(Extend(m, nb, a, size), m, nb)
<1>. DEFINE before == {i \in DOMAIN m.segs : m.segs[i].base + m.segs[i].size = a}
            after == {i \in DOMAIN m.segs : m.segs[i].base = a + size}
            i == CHOOSE i \in after : TRUE
            l == LeastAddr(Map(m, a, size), a)
            x == [l EXCEPT !.segs[i].base = a, !.segs[i].size = @ + size]
            o == PrependAlloc(x, a, a + size, nb)
<1>1. m.top # NULL /\ Sound(m) /\ NewRegion(m, a, size) /\ nb \in Nat /\ nb >= MinChunk
  BY DEF Extending, IsInitialized
<1>2. DOMAIN m.segs = 1..Len(m.segs)
  BY <1>1, StructureIsBody DEF Body, Sound, Whole
<1>3. after # {} /\ ~\E q \in before : Holds(m.segs[q], m.top)
  BY <1>2
<1>4. i \in 1..Len(m.segs) /\ m.segs[i].base = a + size
  BY SMTT(30), <1>2, <1>3
<1>5. Extend(m, nb, a, size) = o
  BY Zenon, <1>3 DEF Extend
<1>6. Prepending(m, a, size, i, nb)
  <2>1. nb + MinChunk <= size
    BY DEF Extending, NewRegion, TopFoot, SegmentSize, MinChunk
  <2>. HIDE DEF i
  <2>. QED
    BY <1>1, <1>4, <2>1 DEF Prepending
<1>7. Took(o.m, m, o.p, nb)
  <2>1. l = LeastAddr(Map(m, a, size), a) /\ x = [l EXCEPT !.segs[i].base = a, !.segs[i].size = @ + size]
        /\ o = PrependAlloc(x, a, a + size, nb)
    OBVIOUS
  <2>. HIDE DEF i, l, x, o
  <2>. QED
    BY <1>6, <2>1, PrependIs
<1>. HIDE DEF o
<1>. QED
  BY <1>5, <1>7 DEF Met, Took

\* and with one apart from all.
LEMMA ExtendAlone ==
    ASSUME NEW m, NEW a, NEW size, NEW nb, Extending(m, a, size, nb), IsInitialized(m),
           ~\E j \in 1..Len(m.segs) : m.segs[j].base + m.segs[j].size = a /\ Holds(m.segs[j], m.top),
           ~\E j \in 1..Len(m.segs) : m.segs[j].base = a + size
    PROVE  Met(Extend(m, nb, a, size), m, nb)
<1>. DEFINE before == {i \in DOMAIN m.segs : m.segs[i].base + m.segs[i].size = a}
            after == {i \in DOMAIN m.segs : m.segs[i].base = a + size}
            n == AddSegment(LeastAddr(Map(m, a, size), a), a, size)
<1>1. m.top # NULL /\ Sound(m) /\ NewRegion(m, a, size) /\ nb \in Nat /\ nb >= MinChunk
  BY DEF Extending, IsInitialized
<1>2. DOMAIN m.segs = 1..Len(m.segs)
  BY <1>1, StructureIsBody DEF Body, Sound, Whole
<1>3. after = {} /\ ~\E q \in before : Holds(m.segs[q], m.top)
  BY SMTT(30), <1>2
<1>4. Extend(m, nb, a, size) = TakeTop(n, nb)
  BY Zenon, <1>3 DEF Extend, TakeTop
<1>5. size > TopFoot
  BY DEF Extending, NewRegion, TopFoot, SegmentSize, MinChunk
<1>6. Widened(n, m, size - TopFoot)
  BY <1>1, <1>5, AddSegmentIs
<1>. HIDE DEF n
<1>. QED
  BY <1>1, <1>4, <1>6, TakeTopIs

\* In each case it meets the request.
LEMMA ExtendIs ==
    ASSUME NEW m, NEW a, NEW size, NEW nb, Extending(m, a, size, nb)
    PROVE  Met(Extend(m, nb, a, size), m, nb)
BY ExtendFirst, ExtendAppend, ExtendPrepend, ExtendAlone

\* sys_alloc meets the request or changes nothing that is held,
LEMMA SysAllocIs ==
    ASSUME NEW m, Sound(m), NEW nb \in Nat, nb >= MinChunk, NEW o \in SysAlloc(m, nb)
    PROVE  Met(o, m, nb)
<1>. DEFINE asize == GranularityAlign(nb + TopFoot + 1)
<1>1. \/ m.use_mmap /\ o \in MmapAlloc(m, nb)
      \/ asize > nb /\ \E a \in Places(m, asize) : o = Extend(m, nb, a, asize)
      \/ o = Outcome(m, NULL)
  <2>. HIDE DEF asize
  <2>. QED
    BY DEF SysAlloc, asize
<1>2. CASE m.use_mmap /\ o \in MmapAlloc(m, nb)
  <2>1. Took(o.m, m, o.p, nb)
    BY <1>2, MmapAllocIs
  <2>. QED
    BY <2>1 DEF Met, Took
<1>3. CASE asize > nb /\ \E a \in Places(m, asize) : o = Extend(m, nb, a, asize)
  <2>1. PICK a \in Places(m, asize) : o = Extend(m, nb, a, asize)
    BY <1>3
  <2>2. asize \in Nat /\ asize >= nb + TopFoot + 1
    <3>1. TopFoot + 1 \in Nat /\ TopFoot + 1 <= Granularity /\ nb + (TopFoot + 1) = nb + TopFoot + 1
      BY GranularityAssumption DEF TopFoot, SegmentSize, MinChunk
    <3>2. GranularityAlign(nb + (TopFoot + 1)) > nb
      BY <1>3, <3>1
    <3>. HIDE DEF asize
    <3>3. GranularityAlign(nb + (TopFoot + 1)) \in Nat /\ GranularityAlign(nb + (TopFoot + 1)) >= nb + (TopFoot + 1)
      BY <3>1, <3>2, GranularityAlignIs
    <3>. QED
      BY <3>1, <3>3 DEF asize
  <2>3. a \in Nat \ {0} /\ \A r \in DOMAIN m.regions : a + asize <= r \/ r + m.regions[r] <= a
    <3>. HIDE DEF asize
    <3>. QED
      BY PlacesAre
  <2>. HIDE DEF asize
  <2>4. asize > 0
    BY <2>2 DEF TopFoot, SegmentSize, MinChunk
  <2>5. Extending(m, a, asize, nb)
    BY <2>2, <2>3, <2>4 DEF Extending, NewRegion
  <2>. QED
    BY <2>1, <2>5, ExtendIs
<1>4. CASE o = Outcome(m, NULL)
  BY <1>4, OutcomeIs, KeptSame DEF OutcomeFields, Met
<1>. QED
  BY <1>1, <1>2, <1>3, <1>4

\* and so does dlmalloc.
LEMMA MallocIs ==
    ASSUME NEW m, Sound(m), NEW nb \in Nat, nb >= MinChunk, NEW o \in Malloc(m, nb)
    PROVE  Met(o, m, nb)
<1>1. \/ \E b \in Picks(m, nb) : o = Outcome(SplitChunk(m, b, nb), b.at)
      \/ nb <= m.dvsize /\ o = Outcome(FromDv(m, nb), m.dv)
      \/ nb < m.topsize /\ o = Outcome(FromTop(m, nb), m.top)
      \/ o \in SysAlloc(m, nb)
  BY DEF Malloc
<1>2. \A n, p : Took(n, m, p, nb) /\ o = Outcome(n, p) => Met(o, m, nb)
  BY OutcomeIs DEF OutcomeFields, Met, Took
<1>3. CASE \E b \in Picks(m, nb) : o = Outcome(SplitChunk(m, b, nb), b.at)
  BY <1>2, <1>3, SplitChunkIs
<1>. QED
  BY <1>1, <1>2, <1>3, FromDvIs, FromTopIs, SysAllocIs

-----------------------------------------------------------------------------
(* A segment that is given back as a whole. *)

\* The segments but for one.
Without(segs, i) == RemoveAt(segs, i)

\* The others keep their order.
LEMMA WithoutIs ==
    ASSUME NEW segs, segs \in Seq(SegmentType), NEW i \in 1..Len(segs), NEW R, R = Without(segs, i)
    PROVE  /\ R \in Seq(SegmentType) /\ Len(R) = Len(segs) - 1 /\ Len(segs) \in Nat
           /\ \A k \in 1..Len(R) : IF k < i THEN R[k] = segs[k] ELSE k + 1 \in 1..Len(segs) /\ R[k] = segs[k + 1]
<1>. DEFINE n == Len(segs)
            s == SubSeq(segs, 1, i - 1)
            t == SubSeq(segs, i + 1, n)
<1>1. n \in Nat /\ i \in Nat /\ i >= 1 /\ i <= n /\ \A k \in 1..n : segs[k] \in SegmentType
  BY SequenceTypes
<1>. HIDE DEF n
<1>2. /\ s \in Seq(SegmentType) /\ Len(s) = i - 1
      /\ \A k \in 1..(i - 1) : s[k] = segs[k]
  <2>1. 1 \in Int /\ i - 1 \in Int /\ \A k \in 1..(i - 1) : segs[k] \in SegmentType
    BY <1>1
  <2>2. /\ s \in Seq(SegmentType) /\ Len(s) = IF 1 <= i - 1 THEN i - 1 - 1 + 1 ELSE 0
        /\ \A k \in 1..(i - 1 - 1 + 1) : s[k] = segs[1 + k - 1]
    BY <2>1, SubSeqProperties
  <2>3. i - 1 - 1 + 1 = i - 1 /\ \A k \in 1..(i - 1) : 1 + k - 1 = k
    BY <1>1
  <2>4. Len(s) = i - 1
    BY <1>1, <2>2
  <2>. HIDE DEF s
  <2>. QED
    BY <2>2, <2>3, <2>4
<1>3. /\ t \in Seq(SegmentType) /\ Len(t) = n - i
      /\ \A k \in 1..(n - i) : t[k] = segs[i + k]
  <2>1. i + 1 \in Int /\ n \in Int /\ \A k \in (i + 1)..n : segs[k] \in SegmentType
    BY <1>1
  <2>2. /\ t \in Seq(SegmentType) /\ Len(t) = IF i + 1 <= n THEN n - (i + 1) + 1 ELSE 0
        /\ \A k \in 1..(n - (i + 1) + 1) : t[k] = segs[i + 1 + k - 1]
    BY <2>1, SubSeqProperties
  <2>3. n - (i + 1) + 1 = n - i /\ \A k \in 1..(n - i) : i + 1 + k - 1 = i + k
    BY <1>1
  <2>4. Len(t) = n - i
    BY <1>1, <2>2
  <2>. HIDE DEF t
  <2>. QED
    BY <2>2, <2>3, <2>4
<1>4. R = s \o t
  BY DEF Without, RemoveAt, n
<1>. HIDE DEF s, t
<1>5. /\ R \in Seq(SegmentType) /\ Len(R) = (i - 1) + (n - i)
      /\ \A k \in 1..((i - 1) + (n - i)) : R[k] = IF k <= i - 1 THEN s[k] ELSE t[k - (i - 1)]
  <2>1. /\ s \o t \in Seq(SegmentType) /\ Len(s \o t) = Len(s) + Len(t)
        /\ \A k \in 1..(Len(s) + Len(t)) : (s \o t)[k] = IF k <= Len(s) THEN s[k] ELSE t[k - Len(s)]
    BY <1>2, <1>3, ConcatProperties
  <2>. QED
    BY <1>2, <1>3, <1>4, <2>1
<1>6. (i - 1) + (n - i) = n - 1
  BY <1>1
<1>7. ASSUME NEW k \in 1..(n - 1)
      PROVE  IF k < i THEN R[k] = segs[k] ELSE k + 1 \in 1..n /\ R[k] = segs[k + 1]
  <2>1. R[k] = IF k <= i - 1 THEN s[k] ELSE t[k - (i - 1)]
    BY <1>5, <1>6
  <2>2. CASE k < i
    BY <1>1, <1>2, <2>1, <2>2
  <2>3. CASE ~(k < i)
    <3>1. k - (i - 1) \in 1..(n - i) /\ i + (k - (i - 1)) = k + 1 /\ ~(k <= i - 1) /\ k + 1 \in 1..n
      BY <1>1, <2>3
    <3>. QED
      BY <1>3, <2>1, <2>3, <3>1
  <2>. QED
    BY <2>2, <2>3
<1>. QED
  BY <1>1, <1>5, <1>6, <1>7 DEF n
\* A segment but the first, in which the first chunk is free and fills it.
Spare(ch, top, segs, rg, i, b, e, r) ==
    /\ Body(ch, top, segs, rg) /\ FirstHasTop(top, segs)
    /\ i \in 1..Len(segs) /\ i # 1
    /\ b = segs[i].base /\ e = b + segs[i].size /\ r = segs[i].record
    /\ b \in FreeAt(ch) /\ After(ch, b) + TopFoot >= e

\* A segment with nothing but a free chunk and its record.
LEMMA SpareChunks ==
    ASSUME NEW ch, NEW top, NEW segs, NEW rg, NEW i, NEW b, NEW e, NEW r, Spare(ch, top, segs, rg, i, b, e, r)
    PROVE  /\ b \in Nat \ {0} /\ e \in Nat /\ b < e /\ r \in Nat /\ r # NULL /\ r = After(ch, b) /\ r + TopFoot = e
           /\ r \in Ord(ch) /\ r \notin FreeAt(ch) /\ b \in Ord(ch) /\ top \notin Window(b, e) /\ top # NULL /\ b # top
           /\ \A q \in DOMAIN ch : q \in Nat
           /\ \A q \in DOMAIN ch : b <= q /\ q < e => q = b \/ q = r \/ ch[q].size = 0
<1>1. /\ Body(ch, top, segs, rg) /\ FirstHasTop(top, segs)
      /\ i \in 1..Len(segs) /\ i # 1
      /\ b = segs[i].base /\ e = b + segs[i].size /\ r = segs[i].record
      /\ b \in FreeAt(ch) /\ After(ch, b) + TopFoot >= e
  BY DEF Spare
<1>2. /\ \A p \in DOMAIN ch : p \in Nat \ {0} /\ ch[p].size \in Nat
      /\ \A p \in Ord(ch) : p \in DOMAIN ch /\ p \in Nat /\ After(ch, p) \in Nat /\ p < After(ch, p)
      /\ \A p \in Ord(ch), q \in DOMAIN ch : q <= p \/ After(ch, p) <= q
      /\ FreeAt(ch) \subseteq Ord(ch)
      /\ b \in Nat \ {0} /\ segs[i].size \in Nat \ {0} /\ r \in Nat
      /\ top # NULL => top \in FreeAt(ch)
  BY <1>1, BodyTypes
<1>3. r # NULL /\ top # NULL
  BY <1>1 DEF FirstHasTop
<1>4. SegmentOk(ch, top, segs[i])
  BY <1>1 DEF Body
<1>5. /\ r \in Ord(ch) /\ r + TopFoot <= e /\ ch[r].c /\ ch[r].size = SegmentSize /\ b <= r
      /\ ch[r + SegmentSize].size = 0
      /\ \A q \in DOMAIN ch : b <= q /\ q < e => q <= r + SegmentSize /\ (q < r + SegmentSize => q \in Ord(ch))
  BY <1>1, <1>3, <1>4 DEF SegmentOk, Limit, Holds
<1>6. r \notin FreeAt(ch) /\ r # b
  BY <1>1, <1>5 DEF FreeAt
<1>7. b \in Ord(ch) /\ After(ch, b) \in Nat /\ b < After(ch, b) /\ b \in DOMAIN ch /\ r \in DOMAIN ch
  BY <1>1, <1>2, <1>5
<1>8. TopFoot = 5 /\ SegmentSize = 3
  BY DEF TopFoot, SegmentSize, MinChunk
<1>9. After(ch, b) <= r
  BY <1>2, <1>5, <1>6, <1>7
<1>10. e \in Nat /\ b < e
  BY SMTT(30), <1>1, <1>2
<1>11. r = After(ch, b) /\ r + TopFoot = e
  BY SMTT(30), <1>1, <1>2, <1>5, <1>7, <1>8, <1>9, <1>10
<1>12. ASSUME NEW q \in DOMAIN ch, b <= q, q < e PROVE q = b \/ q = r \/ ch[q].size = 0
  <2>1. q \in Nat /\ q <= r + 3 /\ ch[r + 3].size = 0
    BY <1>2, <1>5, <1>8, <1>12
  <2>2. q <= b \/ r <= q
    BY <1>2, <1>7, <1>11
  <2>3. q <= r \/ r + 3 <= q
    BY <1>2, <1>5, <1>8 DEF After
  <2>. QED
    BY <1>2, <1>12, <2>1, <2>2, <2>3
<1>13. top \notin Window(b, e)
  <2>1. ~Holds(segs[i], top)
    BY <1>1, <1>3, OneSegment
  <2>2. top \in Nat
    BY <1>2, <1>3
  <2>. QED
    BY <1>1, <1>2, <1>10, <2>1, <2>2 DEF Holds, Window
<1>14. b # top
  BY <1>10, <1>13, <1>2 DEF Window
<1>. QED
  BY <1>2, <1>3, <1>5, <1>6, <1>7, <1>10, <1>11, <1>12, <1>13, <1>14

\* What is said once it is gone.
SegmentGone(ch, top, segs, ch2, rg2, i, b, e) ==
    /\ Body(ch2, top, Without(segs, i), rg2) /\ FirstHasTop(top, Without(segs, i))
    /\ SameOutside(ch, ch2, Window(b, e)) /\ DOMAIN ch2 = DOMAIN ch \ Window(b, e)
    /\ SegmentRecords(Without(segs, i)) \ Window(b, e) = SegmentRecords(segs) \ Window(b, e)

\* The other segments.
OthersAre(segs, i, s, R) ==
    /\ \A k \in 1..Len(R) : \E j \in 1..Len(segs) : j # i /\ R[k] = segs[j]
    /\ \A j \in 1..Len(segs) : j # i => \E k \in 1..Len(R) : R[k] = segs[j]
    /\ \A k, l \in 1..Len(R) : R[k].base = R[l].base => k = l
    /\ \A j \in 1..Len(segs) : SegmentSpace(segs[j]) = s <=> j = i
    /\ 1 # i /\ Len(R) > 0 => R[1] = segs[1]
    /\ R \in Seq(SegmentType) /\ Len(R) = Len(segs) - 1 /\ Len(segs) \in Nat

\* They are the same ones.
LEMMA OtherSegments ==
    ASSUME NEW ch, NEW top, NEW segs, NEW rg, Body(ch, top, segs, rg), NEW i \in 1..Len(segs),
           NEW s, s = SegmentSpace(segs[i]), NEW R, R = Without(segs, i)
    PROVE  OthersAre(segs, i, s, R)
<1>1. segs \in Seq(SegmentType) /\ \A k, l \in 1..Len(segs) : segs[k].base = segs[l].base => k = l
  BY DEF Body
<1>2. /\ R \in Seq(SegmentType) /\ Len(R) = Len(segs) - 1 /\ Len(segs) \in Nat
      /\ \A k \in 1..Len(R) : IF k < i THEN R[k] = segs[k] ELSE k + 1 \in 1..Len(segs) /\ R[k] = segs[k + 1]
  BY <1>1, WithoutIs
<1>3. ASSUME NEW k \in 1..Len(R)
      PROVE  \E j \in 1..Len(segs) : j # i /\ R[k] = segs[j] /\ j = IF k < i THEN k ELSE k + 1
  BY <1>2
<1>4. ASSUME NEW j \in 1..Len(segs), j # i PROVE \E k \in 1..Len(R) : R[k] = segs[j]
  <2>1. CASE j < i
    <3>1. j \in 1..Len(R)
      BY <1>2, <2>1
    <3>. QED
      BY <1>2, <2>1, <3>1
  <2>2. CASE ~(j < i)
    <3>1. j - 1 \in 1..Len(R) /\ ~(j - 1 < i) /\ (j - 1) + 1 = j
      BY <1>2, <1>4, <2>2
    <3>. QED
      BY <1>2, <3>1
  <2>. QED
    BY <2>1, <2>2
<1>5. ASSUME NEW k \in 1..Len(R), NEW l \in 1..Len(R), R[k].base = R[l].base PROVE k = l
  <2>1. PICK j \in 1..Len(segs) : R[k] = segs[j] /\ j = IF k < i THEN k ELSE k + 1
    BY <1>3
  <2>2. PICK j2 \in 1..Len(segs) : R[l] = segs[j2] /\ j2 = IF l < i THEN l ELSE l + 1
    BY <1>3
  <2>3. j = j2
    BY <1>1, <1>5, <2>1, <2>2
  <2>. QED
    BY <1>2, <2>1, <2>2, <2>3
<1>6. \A j \in 1..Len(segs) : SegmentSpace(segs[j]) = s <=> j = i
  BY SpacesDiffer
<1>7. 1 # i /\ Len(R) > 0 => R[1] = segs[1]
  BY <1>2
<1>. QED
  BY <1>2, <1>3, <1>4, <1>5, <1>6, <1>7 DEF OthersAre

\* Body is kept.
LEMMA DropSegment ==
    ASSUME NEW ch, NEW top, NEW segs, NEW rg, NEW i, NEW b, NEW e, NEW r, Spare(ch, top, segs, rg, i, b, e, r),
           NEW ch2, ch2 = Restrict(ch, DOMAIN ch \ Window(b, e)),
           NEW rg2, rg2 = Restrict(rg, DOMAIN rg \ Window(b, e))
    PROVE  SegmentGone(ch, top, segs, ch2, rg2, i, b, e)
<1>. DEFINE W == Window(b, e)
            s == SegmentSpace(segs[i])
            R == Without(segs, i)
<1>1. /\ Body(ch, top, segs, rg) /\ FirstHasTop(top, segs) /\ i \in 1..Len(segs) /\ i # 1
      /\ b = segs[i].base /\ e = b + segs[i].size /\ r = segs[i].record
  BY DEF Spare
<1>2. /\ b \in Nat \ {0} /\ e \in Nat /\ b < e /\ r \in Nat /\ r # NULL /\ r + TopFoot = e /\ r \in Ord(ch)
      /\ top \notin W /\ top # NULL /\ b \in Ord(ch) /\ r = After(ch, b)
      /\ \A q \in DOMAIN ch : q \in Nat
      /\ \A q \in DOMAIN ch : b <= q /\ q < e => q = b \/ q = r \/ ch[q].size = 0
  BY SpareChunks
<1>3. \A q : q \in W <=> q \in Int /\ b <= q /\ q < e
  BY <1>2 DEF Window
<1>4z. s = SegmentSpace(segs[i]) /\ R = Without(segs, i)
  OBVIOUS
<1>. HIDE DEF s, R
<1>4y. OthersAre(segs, i, s, R)
  BY <1>1, <1>4z, OtherSegments
<1>4a. \A k \in 1..Len(R) : \E j \in 1..Len(segs) : j # i /\ R[k] = segs[j]
  BY <1>1, <1>4y DEF OthersAre
<1>4b. \A j \in 1..Len(segs) : j # i => \E k \in 1..Len(R) : R[k] = segs[j]
  BY <1>1, <1>4y DEF OthersAre
<1>4c. \A k, l \in 1..Len(R) : R[k].base = R[l].base => k = l
  BY <1>1, <1>4y DEF OthersAre
<1>4d. \A j \in 1..Len(segs) : SegmentSpace(segs[j]) = s <=> j = i
  BY <1>1, <1>4y DEF OthersAre
<1>4e. /\ Len(R) > 0 => R[1] = segs[1]
       /\ R \in Seq(SegmentType) /\ Len(R) = Len(segs) - 1 /\ Len(segs) \in Nat
  BY <1>1, <1>4y DEF OthersAre
<1>5. s \in Spaces(ch, segs) /\ s.base = b /\ s.end = e /\ SpacesOk(Spaces(ch, segs), rg)
  BY <1>1 DEF Spaces, SegmentSpace, Body, s
<1>6. DOMAIN ch2 = DOMAIN ch \ W /\ \A q \in DOMAIN ch2 : ch2[q] = ch[q]
  BY DEF Restrict
<1>6a. rg2 = Restrict(rg, DOMAIN rg \ (s.base..(s.end - 1))) /\ W = b..(e - 1)
  BY <1>5 DEF Window
<1>. HIDE DEF W
<1>7. SameOutside(ch, ch2, W)
  BY <1>6 DEF SameOutside
<1>8. ASSUME NEW t \in Spaces(ch, segs), t # s PROVE t.end <= b \/ e <= t.base
  <2>1. Separate(t, s)
    BY <1>5, <1>8, SpaceFacts
  <2>. QED
    BY <1>5, <2>1 DEF Separate
<1>9. Outside(ch, top, ch2, b, e)
  <2>1. ASSUME NEW j \in 1..Len(segs)
        PROVE  \/ segs[j].base + segs[j].size <= b \/ e <= segs[j].base
               \/ b <= segs[j].base /\ segs[j].base + segs[j].size <= e
    <3>. DEFINE t == SegmentSpace(segs[j])
    <3>1. t \in Spaces(ch, segs) /\ t.base = segs[j].base /\ t.end = segs[j].base + segs[j].size
      BY DEF Spaces, SegmentSpace
    <3>. HIDE DEF t
    <3>2. CASE t = s
      BY <1>2, <1>5, <3>1, <3>2
    <3>3. CASE t # s
      BY <1>8, <3>1, <3>3
    <3>. QED
      BY <3>2, <3>3
  <2>2. SameOutside(ch, ch2, b..(e - 1))
    BY <1>6a, <1>7
  <2>. QED
    BY <1>1, <1>2, <2>1, <2>2, ApartOutside
<1>10. DOMAIN ch2 \cap W = {}
  BY <1>6
<1>11. InsideOk(ch2, top, b, e)
  BY <1>6a, <1>10 DEF InsideOk, Ord
<1>12. TopSwap(ch2, top, top, b, e)
  BY <1>2, <1>6a DEF TopSwap
<1>13. SpacesOk((Spaces(ch, segs) \ {s}) \cup {}, rg2)
  <2>1. ASSUME NEW T, T = {}
        PROVE  SpacesOk((Spaces(ch, segs) \ {s}) \cup T, Restrict(rg, DOMAIN rg \ (b..(s.end - 1))))
    <3>1. T = IF b = s.base THEN {} ELSE {Space(s.base, b)}
      BY <1>5, <2>1
    <3>2. b \in Nat /\ s.base <= b /\ b < s.end /\ (s.base < b => b \in DOMAIN rg)
      BY SMTT(30), <1>2, <1>5
    <3>. QED
      BY ONLY <1>5, <3>1, <3>2, ShrinkSpace
  <2>. QED
    BY <1>5, <1>6a, <2>1
<1>14. Swapped(ch, top, segs, rg, ch2, top, R, rg2, b, e, s, {})
  <2>1. ASSUME NEW q \in Direct(ch), DirectSpace(ch, q) = s PROVE FALSE
    BY <1>1, <2>1, SpacesDiffer DEF s
  <2>2. ASSUME NEW j \in 1..Len(segs), NEW q \in DOMAIN ch \ W, SegmentSpace(segs[j]) = s, Holds(segs[j], q) PROVE FALSE
    <3>1. j = i
      BY <1>4d, <2>2
    <3>. QED
      BY <1>1, <1>2, <1>3, <2>2, <3>1 DEF Holds
  <2>3. \A q \in Direct(ch2) \cap W : FALSE
    BY <1>10 DEF Direct
  <2>4. \A q \in Ord(ch2) \cap W : FALSE
    BY <1>10 DEF Ord
  <2>5. \A k \in 1..Len(R) : \E j \in 1..Len(segs) : R[k] = segs[j] /\ SegmentSpace(segs[j]) # s
    BY <1>4a, <1>4d
  <2>6. \A j \in 1..Len(segs) : SegmentSpace(segs[j]) # s => \E k \in 1..Len(R) : R[k] = segs[j]
    BY <1>4b, <1>4d
  <2>7. \A t \in Spaces(ch, segs) \ {s} : t.end <= b \/ e <= t.base
    BY <1>8
  <2>. QED
    BY ZenonT(60), <1>1, <1>4c, <1>4e, <1>6a, <1>9, <1>10, <1>11, <1>12, <1>13, <2>1, <2>2, <2>3, <2>4, <2>5, <2>6, <2>7 DEF Swapped
<1>15. Body(ch2, top, R, rg2)
  BY <1>14, SwapBody
<1>16. FirstHasTop(top, R)
  <2>1. Len(R) > 0
    BY <1>1, <1>4e
  <2>2. ASSUME NEW k \in 1..Len(R), k # 1 PROVE R[k].record # NULL
    <3>1. PICK j \in 1..Len(segs) : j # i /\ R[k] = segs[j]
      BY <1>4a
    <3>2. j # 1
      <4>1. CASE j = 1
        <5>1. R[k].base = R[1].base /\ 1 \in 1..Len(R)
          BY <1>4e, <2>1, <3>1, <4>1
        <5>. QED
          BY <1>4c, <2>2, <5>1
      <4>. QED
        BY <4>1
    <3>. QED
      BY <1>1, <3>1, <3>2 DEF FirstHasTop
  <2>3. R[1].record = NULL
    <3>1. 1 \in 1..Len(segs)
      BY <1>1, <1>4e
    <3>. QED
      BY <1>1, <1>4e, <2>1, <3>1 DEF FirstHasTop
  <2>. QED
    BY <1>2, <2>1, <2>2, <2>3 DEF FirstHasTop
<1>17. SegmentRecords(R) \ W = SegmentRecords(segs) \ W
  <2>1. r \in W
    <3>1. b < r
      BY <1>1, <1>2, BodyTypes
    <3>. QED
      BY <1>2, <1>3, <3>1 DEF TopFoot, SegmentSize, MinChunk
  <2>2. \A x : x \in SegmentRecords(R) => x \in SegmentRecords(segs)
    BY <1>4a DEF SegmentRecords
  <2>3. ASSUME NEW x \in SegmentRecords(segs), x \notin W PROVE x \in SegmentRecords(R)
    <3>1. PICK j \in 1..Len(segs) : x = segs[j].record /\ x # NULL
      BY DEF SegmentRecords
    <3>2. j # i
      BY <1>1, <2>1, <2>3, <3>1
    <3>. QED
      BY <1>4b, <3>1, <3>2 DEF SegmentRecords
  <2>. QED
    BY <2>2, <2>3
<1>. QED
  BY <1>6, <1>7, <1>15, <1>16, <1>17 DEF SegmentGone, W, R

\* A free chunk that was in a bin, or the victim, is nowhere.
TakenOut(u, m, b) ==
    /\ Whole(u) /\ Binned(u, {b}) /\ BinsOnly(u, m) /\ u.dv # b

\* Its chunk is taken out of the bins,
LEMMA TakeOutIs ==
    ASSUME NEW m, Sound(m), NEW b \in FreeAt(m.chunks), b # m.top,
           NEW u, u = IF b = m.dv THEN SetDv(m, NULL, 0) ELSE UnlinkChunk(m, b, m.chunks[b].size)
    PROVE  TakenOut(u, m, b)
<1>1. Whole(m) /\ Binned(m, {})
  BY DEF Sound
<1>2. b # NULL
  BY <1>1, FreeNoRecord DEF Whole
<1>3. {} \cup {b} = {b}
  OBVIOUS
<1>4. CASE b = m.dv
  <2>1. u = SetDv(m, NULL, 0) /\ m.dv # NULL
    BY <1>2, <1>4
  <2>2. Whole(u) /\ Binned(u, {} \cup {m.dv}) /\ BinsOnly(u, m) /\ u.dv = NULL
    BY <1>1, <2>1, DvTaken
  <2>. QED
    BY <1>2, <1>3, <1>4, <2>2 DEF TakenOut
<1>5. CASE b # m.dv
  <2>1. u = UnlinkChunk(m, b, m.chunks[b].size) /\ b \in FreeAt(m.chunks) \ ({m.top, m.dv} \cup {})
    BY <1>5
  <2>2. Whole(u) /\ Binned(u, {} \cup {b}) /\ BinsOnly(u, m) /\ SameDv(u, m)
    BY ONLY <1>1, <2>1, Unlinked
  <2>. QED
    BY <1>3, <1>5, <2>2 DEF TakenOut, SameDv
<1>. QED
  BY <1>4, <1>5

\* put back when the system refuses,
LEMMA PutBackIs ==
    ASSUME NEW m, NEW u, NEW b, TakenOut(u, m, b), b \in FreeAt(m.chunks), b # m.top,
           NEW n, n = InsertChunk(u, b, m.chunks[b].size)
    PROVE  Kept(n, m) /\ n.segs = m.segs
<1>. DEFINE F == FreeAt(m.chunks)
            D == {m.top, u.dv}
            g == [at |-> b, size |-> m.chunks[b].size]
<1>1. Whole(u) /\ Binned(u, {b}) /\ BinsOnly(u, m) /\ u.dv # b
  BY DEF TakenOut
<1>2. IsState(u) /\ u.chunks = m.chunks /\ u.top = m.top /\ u.topsize = m.topsize
  BY <1>1 DEF BinsOnly, SameTop, SameRest
<1>3. BinsOnly(n, u) /\ SameDv(n, u) /\ n.bins = u.bins \cup {g}
  BY <1>2, InsertIs
<1>4. Whole(n)
  BY <1>1, <1>3, WholeStays
<1>5. Binned(n, {})
  <2>1. u.bins = Entries(m.chunks, F \ (D \cup {b}))
    BY <1>1, <1>2 DEF Binned
  <2>2. F \ (D \cup {}) = (F \ (D \cup {b})) \cup {b}
    BY <1>1
  <2>. HIDE DEF D, F
  <2>3. Entries(m.chunks, (F \ (D \cup {b})) \cup {b}) = Entries(m.chunks, F \ (D \cup {b})) \cup {g}
    BY DEF Entries
  <2>4. n.bins = Entries(m.chunks, F \ (D \cup {}))
    BY <1>3, <2>1, <2>2, <2>3
  <2>5. n.chunks = m.chunks /\ n.top = m.top /\ n.topsize = u.topsize /\ n.dv = u.dv /\ n.dvsize = u.dvsize
    BY <1>2, <1>3 DEF BinsOnly, SameTop, SameDv
  <2>. QED
    BY <1>1, <1>2, <2>4, <2>5 DEF Binned, D, F
<1>6. Frame(n, m, {}, {}) /\ n.segs = m.segs
  <2>1. Frame(n, u, {}, {})
    BY <1>1, <1>3, WholeStays
  <2>. QED
    BY <1>1, <1>3, <2>1, FrameBins DEF BinsOnly, SameRest
<1>. QED
  BY <1>4, <1>5, <1>6 DEF Kept, Sound

WithSegments(k, segs) == [k EXCEPT !.segs = segs]
\* A segment that is spare goes back to the system.
GivenBack(n, m, u, k, i, b, e, r) ==
    /\ Sound(m) /\ TakenOut(u, m, b) /\ Spare(m.chunks, m.top, m.segs, m.regions, i, b, e, r)
    /\ Unmapped(k, u, b, e) /\ n = WithSegments(k, Without(m.segs, i))
    /\ CanUnmap(m, b, e - b)

\* and gone with the segment when it does not.
LEMMA SegmentUnmapped ==
    ASSUME NEW m, NEW u, NEW i, NEW b, NEW e, NEW r, NEW k, NEW n, GivenBack(n, m, u, k, i, b, e, r)
    PROVE  Kept(n, m) /\ n.segs = Without(m.segs, i)
<1>. DEFINE ch == m.chunks
            W == Window(b, e)
            ch2 == Restrict(ch, DOMAIN ch \ W)
            rg2 == Restrict(m.regions, DOMAIN m.regions \ W)
            R == Without(m.segs, i)
<1>0. /\ Sound(m) /\ TakenOut(u, m, b) /\ Spare(m.chunks, m.top, m.segs, m.regions, i, b, e, r)
      /\ Unmapped(k, u, b, e) /\ n = WithSegments(k, R) /\ CanUnmap(m, b, e - b)
  BY DEF GivenBack
<1>1. Whole(u) /\ Binned(u, {b}) /\ BinsOnly(u, m) /\ u.dv # b
  BY <1>0 DEF TakenOut
<1>2. /\ IsState(u) /\ u.chunks = ch /\ u.top = m.top /\ u.topsize = m.topsize /\ u.segs = m.segs
      /\ u.regions = m.regions /\ u.least_addr = m.least_addr /\ u.aborted = m.aborted
  BY <1>1 DEF BinsOnly, SameTop, SameRest
<1>3. SegmentGone(ch, m.top, m.segs, ch2, rg2, i, b, e)
  BY <1>0, DropSegment
<1>4. /\ Body(ch2, m.top, R, rg2) /\ FirstHasTop(m.top, R)
      /\ SameOutside(ch, ch2, W) /\ DOMAIN ch2 = DOMAIN ch \ W
      /\ SegmentRecords(R) \ W = SegmentRecords(m.segs) \ W
  BY <1>3 DEF SegmentGone
<1>5. /\ b \in Nat \ {0} /\ e \in Nat /\ b < e /\ r \in Nat /\ r # NULL
      /\ r \in Ord(ch) /\ r \notin FreeAt(ch) /\ b \in Ord(ch) /\ m.top \notin W /\ m.top # NULL /\ b # m.top
      /\ \A q \in DOMAIN ch : q \in Nat
      /\ \A q \in DOMAIN ch : b <= q /\ q < e => q = b \/ q = r \/ ch[q].size = 0
  BY <1>0, SpareChunks
<1>6. b \in FreeAt(ch) /\ i \in 1..Len(m.segs) /\ r = m.segs[i].record
  BY <1>0 DEF Spare
<1>. HIDE DEF R
<1>7. /\ IsState(n) /\ SameLists(n, u) /\ n.top = m.top /\ n.topsize = m.topsize
      /\ n.segs = R /\ n.least_addr = m.least_addr /\ n.aborted = m.aborted
      /\ n.chunks = ch2 /\ n.regions = rg2 /\ n.use_mmap = m.use_mmap
      /\ n.footprint = u.footprint - (e - b)
  <2>1. /\ IsState(k) /\ SameLists(k, u) /\ SameTop(k, u)
        /\ k.least_addr = m.least_addr /\ k.aborted = m.aborted /\ k.chunks = ch2 /\ k.regions = rg2
        /\ k.footprint = u.footprint - (e - b)
    BY <1>0, <1>2 DEF Unmapped
  <2>2. u.use_mmap = m.use_mmap
    BY <1>1 DEF BinsOnly, SameRest
  <2>. HIDE DEF ch2, rg2
  <2>3. n = [k EXCEPT !.segs = R]
    BY <1>0 DEF R, WithSegments
  <2>. QED
    BY <1>2, <2>1, <2>2, <2>3 DEF IsState, Fields, SameLists, SameDv, SameTop
<1>71. Counts(n, u)
  <2>. DEFINE size == e - b
  <2>1. size \in Nat /\ e = b + size
    BY <1>5
  <2>2. CanUnmap(m, b, size)
    BY <1>0
  <2>3. n.regions = Restrict(m.regions, DOMAIN m.regions \ Window(b, e)) /\ n.footprint = m.footprint - (e - b)
    BY <1>1, <1>7 DEF BinsOnly, SameRest
  <2>4. RegionsApart(m.regions)
    BY <1>0, SpacesApart DEF Sound, Whole, Structure
  <2>. HIDE DEF size
  <2>5. Counts(n, m)
    BY <1>5, <2>1, <2>2, <2>3, <2>4, UnmapCounts
  <2>6. u.regions = m.regions /\ u.footprint = m.footprint
    BY <1>1 DEF BinsOnly, SameRest
  <2>. QED
    BY <2>5, <2>6 DEF Counts, Counted
<1>. HIDE DEF ch2, rg2, W
<1>8. Whole(n)
  <2>1. Structure(ch2, m.top, R, rg2)
    BY <1>4, StructureIsBody
  <2>2. Low(n)
    BY <1>1, <1>2, <1>4, <1>7 DEF Low, Whole
  <2>. QED
    BY <1>1, <1>2, <1>7, <2>1, <2>2 DEF Whole
<1>9. \A q \in DOMAIN ch : q \in W => q = b \/ q = r \/ (q \notin Ord(ch) /\ q \notin FreeAt(ch) /\ q \notin Direct(ch))
  <2>1. ASSUME NEW q \in DOMAIN ch, ch[q].size = 0 PROVE q \notin Ord(ch) /\ q \notin FreeAt(ch) /\ q \notin Direct(ch)
    BY <1>1, <1>2, <2>1, ChunkTypes DEF Whole, Ord
  <2>. QED
    BY <1>5, <2>1 DEF W, Window
<1>10. Used(u) \cap W = {} /\ Used(n) \cap W = {}
  <2>1. ASSUME NEW q \in Used(u), q \in W PROVE FALSE
    <3>1. q \in DOMAIN ch /\ q \notin FreeAt(ch) /\ (q \in Ord(ch) \/ q \in Direct(ch)) /\ q \notin SegmentRecords(m.segs)
      BY <1>1, <1>2, UsedIs, UsedNotFree DEF Used
    <3>2. r \in SegmentRecords(m.segs)
      BY <1>5, <1>6 DEF SegmentRecords
    <3>. QED
      BY <1>6, <1>9, <2>1, <3>1, <3>2
  <2>2. ASSUME NEW q \in Used(n), q \in W PROVE FALSE
    BY <1>4, <1>7, <1>8, <2>2, UsedIs
  <2>. QED
    BY <2>1, <2>2
<1>11. FreeAt(ch) \cap W \subseteq {m.top} \cup {b} /\ FreeAt(ch2) \cap W \subseteq {m.top} /\ {b} \subseteq W
  <2>1. b \in W
    BY <1>5 DEF W, Window
  <2>2. FreeAt(ch) \subseteq DOMAIN ch /\ FreeAt(ch2) \subseteq DOMAIN ch2
    BY DEF FreeAt
  <2>. QED
    BY <1>4, <1>5, <1>9, <2>1, <2>2
<1>12. n.topsize = IF n.top = NULL THEN 0 ELSE n.chunks[n.top].size
  <2>1. m.top \in DOMAIN ch \ W
    BY <1>1, <1>2, <1>5, ChunkTypes DEF FreeAt, Whole
  <2>2. m.topsize = ch[m.top].size
    BY <1>0, <1>5 DEF Sound, Binned
  <2>. QED
    BY <1>4, <1>5, <1>7, <2>1, <2>2 DEF SameOutside
<1>13. Exchanged(u, n, {b}, W, {}, {})
  <2>1. u.dv \notin {b}
    BY <1>1
  <2>2. n.top = u.top
    BY <1>2, <1>7
  <2>. QED
    BY <1>1, <1>2, <1>4, <1>7, <1>71, <1>8, <1>10, <1>11, <1>12, <2>1, <2>2 DEF Exchanged
<1>14. Sound(n) /\ Frame(n, u, {}, {})
  BY <1>13, ExchangeSound
<1>15. Frame(n, m, {}, {})
  BY <1>1, <1>14, FrameBins
<1>. QED
  BY <1>7, <1>14, <1>15 DEF Kept, R

Released(n, m, i) ==
    /\ Kept(n, m)
    /\ \A j \in 1..Len(m.segs) : j # i => \E k \in 1..Len(n.segs) : n.segs[k] = m.segs[j]

\* One segment of release_unused_segments.
LEMMA ReleaseSegmentIs ==
    ASSUME NEW m, Sound(m), NEW i \in 1..Len(m.segs), i # 1, NEW seg, seg = m.segs[i],
           NEW n, n = ReleaseSegment(m, seg)
    PROVE  Released(n, m, i)
<1>. DEFINE ch == m.chunks
            b == seg.base
            size == ChunkSize(m, b)
            e == b + seg.size
            u == IF b = m.dv THEN SetDv(m, NULL, 0) ELSE UnlinkChunk(m, b, size)
            k == Unmap(u, b, seg.size)
            at == CHOOSE j \in DOMAIN m.segs : m.segs[j] = seg
            x == [k EXCEPT !.segs = RemoveAt(@, at)]
            y == InsertChunk(u, b, size)
<1>1. n = IF ~Unused(m, seg) THEN m ELSE IF CanUnmap(m, b, seg.size) THEN x ELSE y
  BY DEF ReleaseSegment
<1>2. Whole(m) /\ Body(ch, m.top, m.segs, m.regions) /\ FirstHasTop(m.top, m.segs)
  BY StructureIsBody DEF Sound, Whole
<1>3. seg.base \in Nat \ {0} /\ seg.size \in Nat \ {0} /\ DOMAIN m.segs = 1..Len(m.segs)
  BY <1>2, SequenceTypes DEF Body
<1>4. Released(m, m, i)
  BY KeptSame DEF Released
<1>5. CASE Unused(m, seg)
  <2>1. b \in DOMAIN ch /\ HeaderAt(m, b) = ch[b]
    <3>1. SegmentOk(ch, m.top, seg)
      BY <1>2 DEF Body
    <3>. QED
      BY <3>1 DEF SegmentOk, Ord, HeaderAt
  <2>2. b \in FreeAt(ch) /\ size = ch[b].size /\ ch[b].size \in Nat
    BY <1>2, <1>5, <2>1, BodyTypes DEF Unused, IsInuse, FreeAt, ChunkSize
  <2>3. After(ch, b) + TopFoot >= e
    <3>1. b + ch[b].size >= e - TopFoot
      BY <1>3, <1>5, <2>2 DEF Unused, TopFoot, SegmentSize, MinChunk
    <3>. QED
      BY SMTT(30), <1>3, <2>2, <3>1 DEF After, TopFoot, SegmentSize, MinChunk
  <2>4. Spare(ch, m.top, m.segs, m.regions, i, b, e, seg.record)
    BY <1>2, <2>2, <2>3 DEF Spare
  <2>. HIDE DEF b, e
  <2>5. b # m.top
    BY <2>4, SpareChunks
  <2>6. TakenOut(u, m, b)
    BY <2>2, <2>5, TakeOutIs
  <2>7. Kept(y, m) /\ y.segs = m.segs
    <3>. HIDE DEF u
    <3>. QED
      BY <2>2, <2>5, <2>6, PutBackIs
  <2>8. ASSUME CanUnmap(m, b, seg.size) PROVE Kept(x, m) /\ x.segs = Without(m.segs, i)
    <3>1. at = i
      BY <1>2, <1>3 DEF Body
    <3>2. IsState(u) /\ u.segs = m.segs
      BY <2>6 DEF TakenOut, Whole, BinsOnly, SameRest
    <3>. HIDE DEF u, at
    <3>3. Unmapped(k, u, b, e)
      <4>1. b \in Nat /\ seg.size \in Nat /\ e = b + seg.size
        BY <1>3 DEF b, e
      <4>. QED
        BY <3>2, <4>1, UnmapIs
    <3>. HIDE DEF k
    <3>4. x = WithSegments(k, Without(m.segs, i))
      <4>1. k.segs = m.segs
        BY <3>2, <3>3 DEF Unmapped
      <4>2. RemoveAt(k.segs, at) = Without(m.segs, i)
        BY <3>1, <4>1 DEF Without
      <4>. QED
        BY <4>2 DEF WithSegments
    <3>. HIDE DEF x
    <3>5. Spare(m.chunks, m.top, m.segs, m.regions, i, b, e, seg.record)
      BY <2>4
    <3>. DEFINE size2 == seg.size
    <3>51. e - b = size2
      BY <1>3 DEF b, e
    <3>52. CanUnmap(m, b, size2)
      BY <2>8
    <3>. HIDE DEF size2
    <3>53. CanUnmap(m, b, e - b)
      BY ONLY <3>51, <3>52
    <3>6. GivenBack(x, m, u, k, i, b, e, seg.record)
      BY ONLY Sound(m), <2>6, <3>3, <3>4, <3>5, <3>53 DEF GivenBack
    <3>. QED
      BY ONLY <3>6, SegmentUnmapped
  <2>. HIDE DEF x, y
  <2>9. Released(y, m, i)
    BY <2>7 DEF Released
  <2>10. ASSUME CanUnmap(m, b, seg.size) PROVE Released(x, m, i)
    <3>1. \A j \in 1..Len(m.segs) : j # i => \E q \in 1..Len(Without(m.segs, i)) : Without(m.segs, i)[q] = m.segs[j]
      <4>1. OthersAre(m.segs, i, SegmentSpace(seg), Without(m.segs, i))
        BY <1>2, OtherSegments
      <4>. QED
        BY <4>1 DEF OthersAre
    <3>. QED
      BY <2>8, <2>10, <3>1 DEF Released
  <2>. QED
    BY SMTT(30), <1>1, <1>4, <2>9, <2>10 DEF b
<1>. HIDE DEF x, y
<1>. QED
  BY <1>1, <1>4, <1>5

-----------------------------------------------------------------------------
(* Trying all segments but the first. *)

\* Kept, and kept again.
LEMMA KeptThen ==
    ASSUME NEW m, NEW n, NEW o, Kept(n, m), Kept(o, n)
    PROVE  Kept(o, m)
<1>1. Frame(n, m, {}, {}) /\ Frame(o, n, {}, {}) /\ Sound(o)
  BY DEF Kept
<1>2. {} \subseteq {} /\ {} \cap (Used(m) \ {}) = {} /\ ({} \ {}) \cup {} = {}
  OBVIOUS
<1>3. Frame(o, m, {}, ({} \ {}) \cup {})
  BY ONLY <1>1, <1>2, FrameThen
<1>. QED
  BY <1>1, <1>2, <1>3 DEF Kept

\* What is kept besides the lists of chunks does not matter.
LEMMA KeptChecks ==
    ASSUME NEW m, NEW n, Kept(n, m), NEW r, NEW t
    PROVE  Kept([n EXCEPT !.release_checks = r], m) /\ Kept([n EXCEPT !.trim_check = t], m)
<1>. DEFINE x == [n EXCEPT !.release_checks = r]
            y == [n EXCEPT !.trim_check = t]
<1>1. Sound(n) /\ Frame(n, m, {}, {}) /\ IsState(n)
  BY DEF Kept, Sound, Whole
<1>2. ASSUME NEW z, z = x \/ z = y
      PROVE  /\ IsState(z) /\ z.chunks = n.chunks /\ z.segs = n.segs /\ z.regions = n.regions
             /\ z.top = n.top /\ z.topsize = n.topsize /\ z.dv = n.dv /\ z.dvsize = n.dvsize
             /\ z.bins = n.bins /\ z.least_addr = n.least_addr /\ z.use_mmap = n.use_mmap /\ z.aborted = n.aborted
             /\ z.footprint = n.footprint
  BY <1>1, <1>2 DEF IsState, Fields
<1>. HIDE DEF x, y
<1>3. ASSUME NEW z, z = x \/ z = y PROVE Kept(z, m)
  <2>1. /\ IsState(z) /\ z.chunks = n.chunks /\ z.segs = n.segs /\ z.regions = n.regions
        /\ z.top = n.top /\ z.topsize = n.topsize /\ z.dv = n.dv /\ z.dvsize = n.dvsize
        /\ z.bins = n.bins /\ z.least_addr = n.least_addr /\ z.use_mmap = n.use_mmap /\ z.aborted = n.aborted
        /\ z.footprint = n.footprint
    BY <1>2, <1>3
  <2>2. Sound(z)
    BY <1>1, <2>1 DEF Sound, Whole, Binned, Low
  <2>3. Used(z) = Used(n)
    BY <2>1 DEF Used
  <2>4. Frame(z, m, {}, {})
    <3>1. Counts(z, n) /\ Counts(n, m)
      BY <1>1, <2>1, CountsSame DEF Frame
    <3>. QED
      BY <1>1, <2>1, <2>3, <3>1 DEF Frame, Counts
  <2>. QED
    BY <2>2, <2>4 DEF Kept
<1>. QED
  BY <1>3 DEF x, y

\* The heaps of the rounds of release_unused_segments.
Tries(g, m, segs, n) ==
    g = [i \in 0..n |-> IF i = 0 THEN m ELSE ReleaseSegment(g[i - 1], segs[i + 1])]

\* The states of the loop of release_unused_segments exist.
LEMMA TriesExist ==
    ASSUME NEW b, NEW segs, NEW n \in Nat
    PROVE  \E g : Tries(g, b, segs, n)
<1>. DEFINE P == {k \in Nat : \E g : Tries(g, b, segs, k)}
<1>1. 0 \in P
  <2>. DEFINE g == [i \in 0..0 |-> b]
  <2>1. Tries(g, b, segs, 0)
    BY DEF Tries
  <2>. HIDE DEF g
  <2>. QED
    BY <2>1
<1>2. ASSUME NEW k \in 1..n, k - 1 \in P PROVE k \in P
  <2>1. PICK g : Tries(g, b, segs, k - 1)
    BY <1>2
  <2>. DEFINE Next1(i, x) == ReleaseSegment(x, segs[i + 1])
              R(h) == [i \in 0..k |-> IF i = 0 THEN b ELSE Next1(i, h[i - 1])]
              h == [i \in 0..k |-> IF i = k THEN Next1(k, g[k - 1]) ELSE g[i]]
  <2>2. \A i \in 0..(k - 1) : g[i] = IF i = 0 THEN b ELSE Next1(i, g[i - 1])
    BY <2>1 DEF Tries
  <2>3. h = R(h)
    <3>. HIDE DEF Next1
    <3>1. \A i \in 0..k : h[i] = IF i = k THEN Next1(k, g[k - 1]) ELSE g[i]
      OBVIOUS
    <3>2. \A i \in 0..k : h[i] = IF i = 0 THEN b ELSE Next1(i, h[i - 1])
      <4>. TAKE i \in 0..k
      <4>1. CASE i = k
        <5>1. k - 1 \in 0..k /\ k - 1 # k /\ k # 0
          OBVIOUS
        <5>. HIDE DEF h
        <5>. QED
          BY <3>1, <4>1, <5>1
      <4>2. CASE i # k
        <5>1. i \in 0..(k - 1) /\ (i # 0 => i - 1 \in 0..k /\ i - 1 # k)
          BY <4>2
        <5>. HIDE DEF h
        <5>. QED
          BY <2>2, <3>1, <4>2, <5>1
      <4>. QED
        BY <4>1, <4>2
    <3>3. h = [i \in 0..k |-> h[i]]
      OBVIOUS
    <3>. HIDE DEF h
    <3>. QED
      BY <3>2, <3>3
  <2>. HIDE DEF h
  <2>4. Tries(h, b, segs, k)
    BY <2>3 DEF Tries
  <2>. QED
    BY <2>4
<1>. HIDE DEF P
<1>3. \A k \in 0..n : k \in P
  BY <1>1, <1>2, EachRound
<1>4. n \in P
  BY <1>3
<1>. QED
  BY <1>4 DEF P

\* After k rounds, the segments that were not tried are still there.
Left(n, m, k) ==
    /\ Kept(n, m)
    /\ \A j \in (k + 2)..Len(m.segs) : \E q \in 1..Len(n.segs) : n.segs[q] = m.segs[j]

\* All of its rounds.
LEMMA TriesAre ==
    ASSUME NEW m, Sound(m), Len(m.segs) > 0, NEW n, n = Len(m.segs) - 1, NEW g, Tries(g, m, m.segs, n)
    PROVE  Kept(g[n], m)
<1>. DEFINE segs == m.segs
            P == {k \in 0..n : Left(g[k], m, k)}
<1>1. Body(m.chunks, m.top, segs, m.regions) /\ FirstHasTop(m.top, segs) /\ Len(segs) \in Nat
  <2>1. Body(m.chunks, m.top, segs, m.regions) /\ FirstHasTop(m.top, segs)
    BY StructureIsBody DEF Sound, Whole
  <2>. QED
    BY <2>1, SequenceTypes DEF Body
<1>2. n \in Nat /\ Len(segs) = n + 1
  BY <1>1
<1>3. \A i \in 0..n : g[i] = IF i = 0 THEN m ELSE ReleaseSegment(g[i - 1], segs[i + 1])
  BY DEF Tries
<1>4. 0 \in P
  <2>1. g[0] = m /\ 0 \in 0..n
    BY <1>2, <1>3
  <2>2. \A j \in (0 + 2)..Len(segs) : j \in 1..Len(segs)
    BY <1>2
  <2>3. Left(m, m, 0)
    BY <2>2, KeptSame DEF Left
  <2>. QED
    BY <2>1, <2>3
<1>5. ASSUME NEW k \in 1..n, k - 1 \in P PROVE k \in P
  <2>. DEFINE x == g[k - 1]
              j == k + 1
  <2>1. Left(x, m, k - 1) /\ g[k] = ReleaseSegment(x, segs[j])
    BY <1>2, <1>3, <1>5
  <2>2. j \in 1..Len(segs) /\ j # 1 /\ j \in ((k - 1) + 2)..Len(segs)
    BY <1>2
  <2>. HIDE DEF x, j
  <2>3. PICK q \in 1..Len(x.segs) : x.segs[q] = segs[j]
    BY <2>1, <2>2 DEF Left
  <2>4. Sound(x) /\ Kept(x, m)
    BY <2>1 DEF Left, Kept
  <2>5. q # 1
    <3>1. FirstHasTop(x.top, x.segs)
      BY <2>4, StructureIsBody DEF Sound, Whole
    <3>. QED
      BY <1>1, <2>2, <2>3, <3>1 DEF FirstHasTop
  <2>6. Released(g[k], x, q)
    BY <2>1, <2>3, <2>4, <2>5, ReleaseSegmentIs
  <2>7. Kept(g[k], m)
    BY <2>4, <2>6, KeptThen DEF Released
  <2>8. ASSUME NEW l \in (k + 2)..Len(segs)
        PROVE  \E r \in 1..Len(g[k].segs) : g[k].segs[r] = segs[l]
    <3>1. l \in ((k - 1) + 2)..Len(segs) /\ l \in 1..Len(segs) /\ l # j
      BY <1>2 DEF j
    <3>2. PICK r \in 1..Len(x.segs) : x.segs[r] = segs[l]
      BY <2>1, <3>1 DEF Left
    <3>3. r # q
      BY <1>1, <2>2, <2>3, <3>1, <3>2 DEF Body
    <3>. QED
      BY <2>6, <3>2, <3>3 DEF Released
  <2>9. Left(g[k], m, k)
    BY <2>7, <2>8 DEF Left
  <2>. QED
    BY <2>9
<1>. HIDE DEF P
<1>6. \A k \in 0..n : k \in P
  BY <1>2, <1>4, <1>5, EachRound
<1>7. n \in P
  BY <1>2, <1>6
<1>. QED
  BY <1>7 DEF P, Left

\* release_unused_segments keeps what callers hold.
LEMMA ReleaseUnusedSegmentsIs ==
    ASSUME NEW m, Sound(m), m.top # NULL
    PROVE  Kept(ReleaseUnusedSegments(m), m)
<1>. DEFINE n == Len(m.segs) - 1
            R(f) == [i \in 0..n |-> IF i = 0 THEN m ELSE ReleaseSegment(f[i - 1], m.segs[i + 1])]
            g == CHOOSE f : f = R(f)
            c == IF n > MaxReleaseCheckRate THEN n ELSE MaxReleaseCheckRate
<1>1. ReleaseUnusedSegments(m) = [g[n] EXCEPT !.release_checks = c]
  BY DEF ReleaseUnusedSegments
<1>2. Len(m.segs) > 0 /\ Len(m.segs) \in Nat
  <2>1. Body(m.chunks, m.top, m.segs, m.regions) /\ FirstHasTop(m.top, m.segs)
    BY StructureIsBody DEF Sound, Whole
  <2>. QED
    BY <2>1, SequenceTypes DEF Body, FirstHasTop
<1>3. n \in Nat
  BY <1>2
<1>. HIDE DEF c
<1>4. Tries(g, m, m.segs, n)
  <2>. HIDE DEF n
  <2>1. PICK f : Tries(f, m, m.segs, n)
    BY <1>3, TriesExist
  <2>. HIDE DEF R
  <2>2. f = R(f)
    BY <2>1 DEF Tries, R
  <2>3. g = R(g)
    BY <2>2
  <2>. HIDE DEF g
  <2>. QED
    BY <2>3 DEF Tries, R
<1>. HIDE DEF g
<1>5. Kept(g[n], m)
  BY <1>2, <1>4, TriesAre
<1>. DEFINE x == g[n]
            z == [x EXCEPT !.release_checks = c]
<1>6. Kept(x, m) /\ ReleaseUnusedSegments(m) = z
  BY <1>1, <1>5
<1>. HIDE DEF x
<1>7. Kept(z, m)
  BY Zenon, <1>6, KeptChecks
<1>. HIDE DEF z
<1>. QED
  BY <1>6, <1>7

\* Top stays where it is.
LEMMA TrimTopTop ==
    ASSUME NEW m, IsState(m), NEW pad
    PROVE  TrimTop(m, pad).top = m.top
<1>. DEFINE extra == TrimExtra(m.topsize, pad)
            i == SegmentHolding(m, m.top)
            end == m.segs[i].base + m.segs[i].size
            u == Unmap(m, end - extra, extra)
            x == [u EXCEPT !.segs[i].size = @ - extra]
            n == InitTop(x, m.top, m.topsize - extra)
<1>1. TrimTop(m, pad) = n \/ TrimTop(m, pad) = m
  BY Zenon DEF TrimTop
<1>2. IsState(u)
  <2>. DEFINE gone == (end - extra)..((end - extra) + extra - 1)
              f == Forget(m, gone)
              r == Restrict(f.regions, DOMAIN f.regions \ gone)
              k == f.footprint - extra
  <2>1. u = [f EXCEPT !.regions = r, !.footprint = k]
    BY DEF Unmap
  <2>. HIDE DEF end, extra, gone
  <2>2. IsState(f)
    BY ForgetIs DEF Writes, SameRest
  <2>. HIDE DEF f, r, k, u
  <2>. QED
    BY <2>1, <2>2 DEF IsState, Fields
<1>. HIDE DEF u, extra, i
<1>3. IsState(x)
  BY <1>2 DEF IsState, Fields
<1>. HIDE DEF x
<1>4. n.top = m.top
  <2>. DEFINE s == m.topsize - extra
  <2>. HIDE DEF s
  <2>1. Topped(InitTop(x, m.top, s), x, m.top, s)
    BY <1>3, InitTopIs
  <2>. QED
    BY <2>1 DEF Topped, s
<1>. HIDE DEF n
<1>. QED
  BY <1>1, <1>4

\* sys_trim keeps what callers hold.
LEMMA SysTrimIs ==
    ASSUME NEW m, Sound(m), NEW pad \in Nat
    PROVE  Kept(SysTrim(m, pad), m)
<1>. DEFINE t == TrimTop(m, pad + TopFoot)
            a == ReleaseUnusedSegments(t)
            y == [a EXCEPT !.trim_check = MaxSize]
<1>1. SysTrim(m, pad) = IF m.top = NULL THEN m
                        ELSE IF a.footprint = m.footprint /\ a.topsize > a.trim_check THEN y ELSE a
  BY DEF SysTrim, IsInitialized
<1>2. Kept(m, m)
  BY KeptSame
<1>3. CASE m.top # NULL
  <2>1. pad + TopFoot \in Nat /\ pad + TopFoot >= TopFoot
    BY DEF TopFoot, SegmentSize, MinChunk
  <2>2. Kept(t, m)
    BY <1>3, <2>1, TrimTopIs
  <2>. HIDE DEF t
  <2>3. Sound(t) /\ t.top # NULL
    <3>1. IsState(m)
      BY DEF Sound, Whole
    <3>. QED
      BY <1>3, <2>2, <3>1, TrimTopTop DEF Kept, t
  <2>4. Kept(a, m)
    BY <2>2, <2>3, ReleaseUnusedSegmentsIs, KeptThen
  <2>. HIDE DEF a
  <2>5. Kept(y, m)
    BY <2>4, KeptChecks
  <2>. HIDE DEF y
  <2>. QED
    BY <1>1, <1>3, <2>4, <2>5
<1>. HIDE DEF y, a
<1>. QED
  BY <1>1, <1>2, <1>3

-----------------------------------------------------------------------------
(* dlfree. *)

\* What free does behind the freeing: trims, or releases segments.
LEMMA AfterFreeIs ==
    ASSUME NEW m, Sound(m), NEW before
    PROVE  Kept(AfterFree(m, before), m)
<1>. DEFINE added == {b \in m.bins \ before.bins : ~IsSmall(b.size)}
            t == SysTrim(m, 0)
            u == ReleaseUnusedSegments(m)
            c == m.release_checks - 1
            x == [m EXCEPT !.release_checks = c]
            a == AfterFree(m, before)
<1>1. a = m \/ a = t \/ a = x \/ (a = u /\ added # {})
  BY DEF AfterFree
<1>2. Kept(m, m)
  BY KeptSame
<1>3. Kept(t, m)
  BY SysTrimIs
<1>4. Kept(x, m)
  <2>. HIDE DEF c
  <2>. QED
    BY <1>2, KeptChecks
<1>5. added # {} => Kept(u, m)
  <2>1. ASSUME NEW b \in m.bins PROVE m.top # NULL
    <3>1. PICK q \in FreeAt(m.chunks) : TRUE
      BY DEF Sound, Binned, Entries
    <3>2. Body(m.chunks, m.top, m.segs, m.regions) /\ FirstHasTop(m.top, m.segs)
      BY StructureIsBody DEF Sound, Whole
    <3>3. q \in Ord(m.chunks)
      BY <3>1, <3>2, BodyTypes
    <3>4. \E i \in 1..Len(m.segs) : Holds(m.segs[i], q)
      BY <3>2, <3>3 DEF Body, Homes
    <3>5. Len(m.segs) > 0
      BY <3>2, <3>4, SequenceTypes DEF Body
    <3>. QED
      BY <3>2, <3>5 DEF FirstHasTop
  <2>2. added # {} => m.top # NULL
    BY <2>1
  <2>. QED
    BY <2>2, ReleaseUnusedSegmentsIs
<1>. HIDE DEF a, t, u, x, added
<1>6. Kept(a, m)
  BY <1>1, <1>2, <1>3, <1>4, <1>5
<1>. QED
  BY <1>6 DEF a

\* Freed, then kept.
LEMMA FreedThen ==
    ASSUME NEW m, NEW n, NEW o, NEW S, Freed(n, m, S), Kept(o, n)
    PROVE  Freed(o, m, S)
<1>1. Frame(n, m, S, {})
  BY DEF Freed
<1>2. Frame(o, n, {}, {}) /\ Sound(o)
  BY DEF Kept
<1>3. {} \subseteq {} /\ {} \cap (Used(m) \ S) = {} /\ ({} \ {}) \cup {} = {}
  OBVIOUS
<1>4. Frame(o, m, S, ({} \ {}) \cup {})
  BY ONLY <1>1, <1>2, <1>3, FrameThen
<1>. QED
  BY <1>2, <1>3, <1>4 DEF Freed

\* The chunk p is free, or its memory is gone.
LEMMA FreeIs ==
    ASSUME NEW m, Sound(m), NEW p \in Used(m)
    PROVE  Freed(Free(m, p), m, {p})
<1>. DEFINE next == p + ChunkSize(m, p)
            c == Check(m, /\ OkAddress(m, p) /\ IsInuse(m, p)
                          /\ ~IsMmapped(m, p) => p < next /\ HeaderAt(m, next).p)
            f == FreeMmapped(c, p)
            d == DisposeChunk(c, p)
            a == AfterFree(d, m)
<1>1. Free(m, p) = IF IsMmapped(m, p) THEN f ELSE a
  BY DEF Free
<1>2. Whole(m)
  BY DEF Sound
<1>3. c = m
  BY <1>2, ChecksHold DEF Check
<1>. HIDE DEF c
<1>4. IsMmapped(m, p) <=> ~m.chunks[p].c
  BY <1>2, UsedIs
<1>5. CASE m.chunks[p].c
  <2>1. Sound(d) /\ Frame(d, m, {p}, {})
    BY <1>3, <1>5, DisposeIs
  <2>. HIDE DEF d
  <2>2. Freed(d, m, {p})
    BY <2>1 DEF Freed
  <2>3. Kept(a, d)
    BY <2>1, AfterFreeIs
  <2>4. Freed(a, m, {p})
    BY <2>2, <2>3, FreedThen
  <2>. HIDE DEF a
  <2>. QED
    BY <1>1, <1>4, <1>5, <2>4
<1>6. CASE ~m.chunks[p].c
  <2>1. Freed(f, m, {p})
    BY <1>3, <1>6, FreeMmappedIs
  <2>. HIDE DEF f, a, d
  <2>. QED
    BY <1>1, <1>4, <1>6, <2>1
<1>. QED
  BY <1>5, <1>6

-----------------------------------------------------------------------------
(* Freeing an array of chunks. *)

\* Two held chunks of which one follows the other become one.
JoinsUsed(m, p, next, n) ==
    /\ Sound(m) /\ p \in Used(m) /\ m.chunks[p].c /\ next = p + ChunkSize(m, p) /\ next \in Used(m)
    /\ n = SetInuse(m, p, next - p + ChunkSize(m, next))

\* Two chunks in use are joined.
LEMMA JoinUsed ==
    ASSUME NEW m, NEW p, NEW next, NEW n, JoinsUsed(m, p, next, n)
    PROVE  Sound(n) /\ Frame(n, m, {p} \cup {next}, {p}) /\ n.chunks[p].c
<1>. DEFINE ch == m.chunks
            y == After(ch, next)
            S == {p} \cup {next}
<1>1. Whole(m) /\ IsState(m) /\ Binned(m, {}) /\ Structure(ch, m.top, m.segs, m.regions)
  BY DEF JoinsUsed, Sound, Whole
<1>2. p \in Used(m) /\ ch[p].c /\ next \in Used(m) /\ next = After(ch, p)
  <2>1. p \in Used(m) /\ ch[p].c /\ next \in Used(m) /\ next = p + ChunkSize(m, p)
    BY DEF JoinsUsed
  <2>2. ChunkSize(m, p) = ch[p].size
    BY <1>1, <2>1, UsedIs
  <2>. QED
    BY <2>1, <2>2 DEF After
<1>3. Block(ch, m.segs, p, next, {p}) /\ next \in Ord(ch) /\ p \in Nat /\ next \in Nat /\ p < next
  <2>. DEFINE w == After(ch, p)
  <2>1. Block(ch, m.segs, p, w, {p}) /\ w \in Ord(ch) /\ w \in Nat /\ p < w
    BY <1>1, <1>2, BehindUsed
  <2>2. p \in Nat
    BY <1>1, <1>2, UsedIs
  <2>. HIDE DEF w
  <2>3. w = next
    BY <1>2 DEF w
  <2>. QED
    BY <2>1, <2>2, <2>3
<1>4. ch[next].c /\ ChunkSize(m, next) = ch[next].size /\ ch[next].size \in Nat
  BY <1>1, <1>2, <1>3, UsedIs
<1>5. /\ Block(ch, m.segs, next, y, {next}) /\ y \in DOMAIN ch /\ y \in Nat /\ next < y
      /\ y = next + ch[next].size
  BY <1>1, <1>2, <1>4, BehindUsed
<1>6. Block(ch, m.segs, p, y, S)
  BY <1>1, <1>3, <1>5, BlockJoin
<1>7. n = SetInuse(m, p, y - p)
  <2>1. next - p + ch[next].size = y - p
    BY <1>3, <1>4, <1>5
  <2>. QED
    BY <1>4, <2>1 DEF JoinsUsed
<1>8. S \cap FreeAt(ch) = {} /\ m.top \notin S /\ m.dv \notin S
  <2>1. p \notin FreeAt(ch) /\ next \notin FreeAt(ch) /\ p # m.top /\ next # m.top /\ p # NULL /\ next # NULL
    BY <1>1, <1>2, UsedIs
  <2>. QED
    BY <1>1, <2>1 DEF Binned
<1>. HIDE DEF y
<1>9. Wrote(n, m) /\ One(ch, n.chunks, p, y, TRUE)
  BY <1>1, <1>5, <1>6, <1>7, BlockEnds, SetInuseIs
<1>10. Cleared(m, {}, p, y, S)
  BY <1>1, <1>6, <1>8 DEF Cleared
<1>11. SameRest(n, m) /\ SameTop(n, m) /\ n.bins = m.bins /\ SameDv(n, m)
  BY <1>9 DEF Wrote, SameBins, SameDv
<1>12. Sound(n) /\ Frame(n, m, S, {p}) /\ n.chunks[p].c
  BY <1>5, <1>8, <1>9, <1>10, <1>11, MadeInuse
<1>. QED
  BY <1>12

\* Behind a held chunk is one that is held only if neither is mapped.
LEMMA BehindHeld ==
    ASSUME NEW m, Sound(m), NEW p \in Used(m), p + ChunkSize(m, p) \in Used(m)
    PROVE  m.chunks[p].c
<1>1. Whole(m)
  BY DEF Sound
<1>2. SUFFICES ASSUME ~m.chunks[p].c PROVE FALSE
  OBVIOUS
<1>3. m.chunks[p + m.chunks[p].size].size = 0
  BY <1>1, <1>2, BehindDirect
<1>. QED
  BY <1>1, <1>3, UsedIs

\* What was added is taken away again, and more.
LEMMA FrameAlso ==
    ASSUME NEW m, NEW n, NEW o, NEW S, NEW T, NEW R, NEW U, Frame(n, m, S, T), Frame(o, n, R, U), T \subseteq R
    PROVE  Frame(o, m, S \cup R, U)
<1>1. Used(n) = (Used(m) \ S) \cup T /\ Used(o) = (Used(n) \ R) \cup U
  BY DEF Frame
<1>2. Used(o) = (Used(m) \ (S \cup R)) \cup U
  BY <1>1
<1>3. ASSUME NEW q \in Used(m) \ (S \cup R)
      PROVE  o.chunks[q].size = m.chunks[q].size /\ o.chunks[q].c = m.chunks[q].c
  <2>1. q \in Used(m) \ S /\ q \in Used(n) \ R
    BY <1>1, <1>3
  <2>. QED
    BY <2>1 DEF Frame
<1>4. Counts(o, m)
  <2>1. Counts(n, m) /\ Counts(o, n)
    BY DEF Frame
  <2>. QED
    BY <2>1 DEF Counts
<1>. QED
  BY <1>2, <1>3, <1>4 DEF Frame

\* The state of bulk_free's loop.
Acc(m, joined) == [m |-> m, joined |-> joined]

\* One round of the loop, and what holds after k of them.
BulkStep(acc, array, i) ==
    LET p == IF acc.joined # NULL THEN acc.joined ELSE array[i]
        next == p + ChunkSize(acc.m, p)
        checked == Check(acc.m, OkAddress(acc.m, p) /\ IsInuse(acc.m, p))
    IN IF i < Len(array) /\ array[i + 1] = next
       THEN Acc(SetInuse(checked, p, next - p + ChunkSize(acc.m, next)), p)
       ELSE Acc(DisposeChunk(checked, p), NULL)

\* Distinct chunks that are held.
Bulk(m, array) ==
    /\ Len(array) \in Nat
    /\ \A i \in 1..Len(array) : array[i] \in Used(m)
    /\ \A i, j \in 1..Len(array) : array[i] = array[j] => i = j

\* After k rounds the first k are gone, or joined with the next one.
Bulked(x, joined, m, array, k, R) ==
    /\ Sound(x)
    /\ R = Begun(array, IF joined = NULL THEN k ELSE k + 1)
    /\ Frame(x, m, R, {joined} \ {NULL})
    /\ joined # NULL => k < Len(array) /\ x.chunks[joined].c /\ joined \in R

Round(acc, m, array, k) == \E R : Bulked(acc.m, acc.joined, m, array, k, R)

\* Its fields.
LEMMA AccIs ==
    ASSUME NEW m, NEW j PROVE Acc(m, j).m = m /\ Acc(m, j).joined = j
BY DEF Acc

\* The chunk that is looked at.
LEMMA BulkChunk ==
    ASSUME NEW m, NEW array, Bulk(m, array), NEW k \in 1..Len(array), NEW x, NEW joined, NEW R,
           Bulked(x, joined, m, array, k - 1, R), NEW p, p = IF joined # NULL THEN joined ELSE array[k]
    PROVE  /\ p \in Used(x) /\ Sound(x) /\ (joined # NULL => x.chunks[p].c)
           /\ R \cup {p} = Begun(array, k)
           /\ {joined} \ {NULL} \subseteq {p}
           /\ k < Len(array) => array[k + 1] \in Used(x) \/ array[k + 1] = p
<1>1. Used(x) = (Used(m) \ R) \cup ({joined} \ {NULL}) /\ Sound(x)
  BY DEF Bulked, Frame
<1>2. Begun(array, k) = Begun(array, k - 1) \cup {array[k]}
  BY DEF Begun
<1>3. IF joined = NULL THEN R = Begun(array, k - 1) ELSE R = Begun(array, k)
  <2>1. joined # NULL => R = Begun(array, k)
    <3>1. (k - 1) + 1 = k
      OBVIOUS
    <3>. QED
      BY <3>1 DEF Bulked
  <2>2. joined = NULL => R = Begun(array, k - 1)
    BY DEF Bulked
  <2>. QED
    BY <2>1, <2>2
<1>4. \A i \in 1..Len(array) : i > k => array[i] \notin Begun(array, k)
  BY DEF Begun, Bulk
<1>3a. R \subseteq Begun(array, k)
  BY <1>2, <1>3
<1>5. array[k] \notin Begun(array, k - 1)
  BY DEF Begun, Bulk
<1>6. CASE joined # NULL
  <2>1. p = joined /\ p \in R /\ x.chunks[p].c
    BY <1>6 DEF Bulked
  <2>2. k < Len(array) => array[k + 1] \in Used(m) \ R
    BY <1>3a, <1>4 DEF Bulk
  <2>. QED
    BY <1>1, <1>3, <1>6, <2>1, <2>2
<1>7. CASE joined = NULL
  <2>1. p = array[k] /\ p \in Used(m) \ R
    BY <1>3, <1>5, <1>7 DEF Bulk
  <2>2. k < Len(array) => array[k + 1] \in Used(m) \ R
    BY <1>3a, <1>4 DEF Bulk
  <2>. QED
    BY <1>1, <1>2, <1>3, <1>7, <2>1, <2>2
<1>. QED
  BY <1>6, <1>7

\* One round keeps it.
LEMMA BulkRound ==
    ASSUME NEW m, NEW array, Bulk(m, array), NEW k \in 1..Len(array), NEW acc, Round(acc, m, array, k - 1)
    PROVE  Round(BulkStep(acc, array, k), m, array, k)
<1>. DEFINE x == acc.m
            joined == acc.joined
            p == IF joined # NULL THEN joined ELSE array[k]
            next == p + ChunkSize(x, p)
            checked == Check(x, OkAddress(x, p) /\ IsInuse(x, p))
            y == SetInuse(checked, p, next - p + ChunkSize(x, next))
            z == DisposeChunk(checked, p)
<1>1. BulkStep(acc, array, k) = IF k < Len(array) /\ array[k + 1] = next THEN Acc(y, p) ELSE Acc(z, NULL)
  BY DEF BulkStep
<1>2. PICK R : Bulked(x, joined, m, array, k - 1, R)
  BY DEF Round
<1>. HIDE DEF x, joined
<1>3. /\ p \in Used(x) /\ Sound(x) /\ (joined # NULL => x.chunks[p].c)
      /\ R \cup {p} = Begun(array, k)
      /\ {joined} \ {NULL} \subseteq {p}
      /\ k < Len(array) => array[k + 1] \in Used(x) \/ array[k + 1] = p
  BY <1>2, BulkChunk
<1>4. checked = x /\ p # NULL /\ next # p
  <2>1. OkAddress(x, p) /\ IsInuse(x, p) /\ p # NULL /\ p \in Nat /\ ChunkSize(x, p) \in Nat \ {0}
    BY <1>3, UsedIs DEF Sound
  <2>. QED
    BY <2>1 DEF Check
<1>. HIDE DEF p, checked
<1>5. Frame(x, m, R, {joined} \ {NULL})
  BY <1>2 DEF Bulked
<1>6. CASE k < Len(array) /\ array[k + 1] = next
  <2>1. next \in Used(x)
    BY <1>3, <1>4, <1>6
  <2>2. JoinsUsed(x, p, next, y)
    BY <1>3, <1>4, <2>1, BehindHeld DEF JoinsUsed
  <2>. HIDE DEF next, y
  <2>3. Sound(y) /\ Frame(y, x, {p} \cup {next}, {p}) /\ y.chunks[p].c
    BY <2>2, JoinUsed
  <2>4. Frame(y, m, R \cup ({p} \cup {next}), {p})
    BY <1>3, <1>5, <2>3, FrameAlso
  <2>5. R \cup ({p} \cup {next}) = Begun(array, k + 1)
    <3>1. Begun(array, k + 1) = Begun(array, k) \cup {array[k + 1]}
      <4>. USE <1>6
      <4>. QED
        BY DEF Begun, Bulk
    <3>. QED
      BY <1>3, <1>6, <3>1
  <2>6. Bulked(y, p, m, array, k, R \cup ({p} \cup {next}))
    <3>1. {p} \ {NULL} = {p}
      BY <1>4
    <3>. QED
      BY <1>4, <1>6, <2>3, <2>4, <2>5, <3>1 DEF Bulked
  <2>7. Round(Acc(y, p), m, array, k)
    BY <2>6, AccIs DEF Round
  <2>. QED
    BY <1>1, <1>6, <2>7
<1>7. CASE ~(k < Len(array) /\ array[k + 1] = next)
  <2>1. Frame(z, x, {p}, {}) /\ Sound(z)
    <3>1. CASE x.chunks[p].c
      BY <1>3, <1>4, <3>1, DisposeIs
    <3>2. CASE ~x.chunks[p].c
      <4>1. z = FreeMmapped(x, p)
        <5>1. IsMmapped(x, p)
          BY <1>3, <3>2, UsedIs DEF Sound
        <5>. QED
          BY <1>4, <5>1 DEF DisposeChunk
      <4>2. Freed(FreeMmapped(x, p), x, {p})
        BY <1>3, <3>2, FreeMmappedIs
      <4>. QED
        BY <4>1, <4>2 DEF Freed
    <3>. QED
      BY <3>1, <3>2
  <2>. HIDE DEF next, z
  <2>2. {joined} \ {NULL} \subseteq {p}
    BY <1>3
  <2>3. Frame(z, m, R \cup {p}, {})
    BY <1>5, <2>1, <2>2, FrameAlso
  <2>4. Bulked(z, NULL, m, array, k, R \cup {p})
    <3>1. {NULL} \ {NULL} = {}
      OBVIOUS
    <3>. QED
      BY <1>3, <2>1, <2>3, <3>1 DEF Bulked
  <2>5. Round(Acc(z, NULL), m, array, k)
    BY <2>4, AccIs DEF Round
  <2>. QED
    BY <1>1, <1>7, <2>5
<1>. QED
  BY <1>6, <1>7

\* The rounds of internal_bulk_free.
Rounds(g, m, array, n) ==
    g = [i \in 0..n |-> IF i = 0 THEN Acc(m, NULL) ELSE BulkStep(g[i - 1], array, i)]

\* The states of the loop exist.
LEMMA RoundsExist ==
    ASSUME NEW m, NEW array, NEW n \in Nat
    PROVE  \E g : Rounds(g, m, array, n)
<1>. DEFINE P == {k \in Nat : \E g : Rounds(g, m, array, k)}
            b == Acc(m, NULL)
<1>. HIDE DEF b
<1>1. 0 \in P
  <2>. DEFINE g == [i \in 0..0 |-> b]
  <2>1. Rounds(g, m, array, 0)
    BY DEF Rounds, b
  <2>. HIDE DEF g
  <2>. QED
    BY <2>1
<1>2. ASSUME NEW k \in 1..n, k - 1 \in P PROVE k \in P
  <2>1. PICK g : Rounds(g, m, array, k - 1)
    BY <1>2
  <2>. DEFINE Next1(i, x) == BulkStep(x, array, i)
              R(h) == [i \in 0..k |-> IF i = 0 THEN b ELSE Next1(i, h[i - 1])]
              h == [i \in 0..k |-> IF i = k THEN Next1(k, g[k - 1]) ELSE g[i]]
  <2>2. \A i \in 0..(k - 1) : g[i] = IF i = 0 THEN b ELSE Next1(i, g[i - 1])
    BY <2>1 DEF Rounds, b
  <2>3. h = R(h)
    <3>. HIDE DEF Next1
    <3>1. \A i \in 0..k : h[i] = IF i = k THEN Next1(k, g[k - 1]) ELSE g[i]
      OBVIOUS
    <3>2. \A i \in 0..k : h[i] = IF i = 0 THEN b ELSE Next1(i, h[i - 1])
      <4>. TAKE i \in 0..k
      <4>1. CASE i = k
        <5>1. k - 1 \in 0..k /\ k - 1 # k /\ k # 0
          OBVIOUS
        <5>. HIDE DEF h
        <5>. QED
          BY <3>1, <4>1, <5>1
      <4>2. CASE i # k
        <5>1. i \in 0..(k - 1) /\ (i # 0 => i - 1 \in 0..k /\ i - 1 # k)
          BY <4>2
        <5>. HIDE DEF h
        <5>. QED
          BY <2>2, <3>1, <4>2, <5>1
      <4>. QED
        BY <4>1, <4>2
    <3>3. h = [i \in 0..k |-> h[i]]
      OBVIOUS
    <3>. HIDE DEF h
    <3>. QED
      BY <3>2, <3>3
  <2>. HIDE DEF h
  <2>4. Rounds(h, m, array, k)
    BY <2>3 DEF Rounds, b
  <2>. QED
    BY <2>4
<1>. HIDE DEF P
<1>3. \A k \in 0..n : k \in P
  BY <1>1, <1>2, EachRound
<1>4. n \in P
  BY <1>3
<1>. QED
  BY <1>4 DEF P

\* All of its rounds.
LEMMA RoundsAre ==
    ASSUME NEW m, Sound(m), NEW array, Bulk(m, array), NEW n, n = Len(array), NEW g, Rounds(g, m, array, n)
    PROVE  Freed(g[n].m, m, Begun(array, n))
<1>. DEFINE P == {k \in 0..n : Round(g[k], m, array, k)}
<1>1. n \in Nat
  BY DEF Bulk
<1>2. \A i \in 0..n : g[i] = IF i = 0 THEN Acc(m, NULL) ELSE BulkStep(g[i - 1], array, i)
  BY DEF Rounds
<1>3. 0 \in P
  <2>1. g[0] = Acc(m, NULL) /\ 0 \in 0..n
    BY <1>1, <1>2
  <2>2. Bulked(m, NULL, m, array, 0, {})
    BY CountsSame DEF Bulked, Frame, Begun
  <2>3. Round(Acc(m, NULL), m, array, 0)
    BY <2>2, AccIs DEF Round
  <2>. QED
    BY <2>1, <2>3
<1>4. ASSUME NEW k \in 1..n, k - 1 \in P PROVE k \in P
  <2>1. Round(g[k - 1], m, array, k - 1) /\ g[k] = BulkStep(g[k - 1], array, k) /\ k \in 0..n
    BY <1>1, <1>2, <1>4
  <2>2. Round(g[k], m, array, k)
    BY <2>1, BulkRound
  <2>. QED
    BY <2>1, <2>2
<1>. HIDE DEF P
<1>5. \A k \in 0..n : k \in P
  BY <1>1, <1>3, <1>4, EachRound
<1>6. Round(g[n], m, array, n)
  BY <1>1, <1>5 DEF P
<1>7. PICK R : Bulked(g[n].m, g[n].joined, m, array, n, R)
  BY <1>6 DEF Round
<1>8. g[n].joined = NULL
  BY <1>1, <1>7 DEF Bulked
<1>9. Sound(g[n].m) /\ R = Begun(array, n) /\ Frame(g[n].m, m, R, {})
  <2>1. {NULL} \ {NULL} = {}
    OBVIOUS
  <2>. QED
    BY <1>7, <1>8, <2>1 DEF Bulked
<1>. QED
  BY <1>9 DEF Freed

\* bulk_free keeps the heap sound and frees no chunk that is not in the array.
LEMMA BulkFreeIs ==
    ASSUME NEW m, Sound(m), NEW array, Bulk(m, array)
    PROVE  Freed(BulkFree(m, array), m, Begun(array, Len(array)))
<1>. DEFINE n == Len(array)
            R(f) == [i \in 0..n |-> IF i = 0 THEN Acc(m, NULL) ELSE BulkStep(f[i - 1], array, i)]
            g == CHOOSE f : f = R(f)
            a == g[n].m
            t == SysTrim(a, 0)
<1>1. BulkFree(m, array) = IF ShouldTrim(a, a.topsize) THEN t ELSE a
  BY DEF BulkFree, BulkStep, Acc
<1>2. n \in Nat
  BY DEF Bulk
<1>3. Rounds(g, m, array, n)
  <2>. HIDE DEF n
  <2>1. PICK f : Rounds(f, m, array, n)
    BY <1>2, RoundsExist
  <2>. HIDE DEF R
  <2>2. f = R(f)
    BY <2>1 DEF Rounds, R
  <2>3. g = R(g)
    BY <2>2
  <2>. HIDE DEF g
  <2>. QED
    BY <2>3 DEF Rounds, R
<1>. HIDE DEF g
<1>4. Freed(a, m, Begun(array, n))
  BY <1>3, RoundsAre
<1>. HIDE DEF a
<1>5. Sound(a)
  BY <1>4 DEF Freed
<1>6. Kept(t, a)
  BY <1>5, SysTrimIs
<1>7. Freed(t, m, Begun(array, n))
  BY <1>4, <1>6, FreedThen
<1>. HIDE DEF t
<1>. QED
  BY <1>1, <1>4, <1>7

-----------------------------------------------------------------------------
(* What is said of a sound heap. *)

\* The last header of a segment.
SegmentEnd(m, i, seg, last) ==
    /\ Sound(m) /\ i \in 1..Len(m.segs) /\ seg = m.segs[i] /\ last = Limit(seg, m.top)

\* The last header of a segment.
LEMMA SegmentEndIs ==
    ASSUME NEW m, NEW i, NEW seg, NEW last, SegmentEnd(m, i, seg, last)
    PROVE  /\ last \in DOMAIN m.chunks /\ Holds(seg, last) /\ last \in Nat
           /\ seg.base \in Ord(m.chunks) /\ m.chunks[seg.base].p /\ seg.base \in Nat /\ seg.size \in Nat /\ seg.base <= last
           /\ \A q \in DOMAIN m.chunks : q \in Nat
           /\ \A q \in DOMAIN m.chunks : Holds(seg, q) => q <= last /\ (q < last => q \in Ord(m.chunks))
           /\ IF seg.record = NULL
              THEN /\ Holds(seg, m.top) /\ last = m.top
                   /\ After(m.chunks, m.top) = seg.base + seg.size - TopFoot
              ELSE /\ ~Holds(seg, m.top) /\ Holds(seg, seg.record) /\ m.chunks[seg.record].c
                   /\ m.chunks[last] = Fence
<1>. DEFINE ch == m.chunks
<1>1. Body(ch, m.top, m.segs, m.regions) /\ FirstHasTop(m.top, m.segs)
  BY StructureIsBody DEF SegmentEnd, Sound, Whole
<1>2. i \in 1..Len(m.segs) /\ seg = m.segs[i] /\ last = Limit(seg, m.top)
  BY DEF SegmentEnd
<1>3. SegmentOk(ch, m.top, seg)
  BY <1>1, <1>2 DEF Body
<1>4. seg.base \in Nat /\ seg.size \in Nat /\ (seg.record = NULL <=> i = 1) /\ m.top # NULL
  <2>1. Len(m.segs) \in Nat
    BY <1>1, SequenceTypes DEF Body
  <2>. QED
    BY <1>1, <1>2, <2>1, SequenceTypes DEF Body, FirstHasTop
<1>5. last \in DOMAIN ch /\ Holds(seg, last) /\ last \in Nat
  BY <1>1, <1>2, <1>3, BodyTypes DEF SegmentOk
<1>6. Holds(seg, m.top) <=> seg.record = NULL
  BY <1>1, <1>2, <1>4, OneSegment
<1>7. \A q \in DOMAIN ch : q \in Nat /\ HeaderOk(ch[q])
  BY <1>1, BodyTypes
<1>8. CASE seg.record = NULL
  <2>1. last = m.top /\ After(ch, m.top) + TopFoot = seg.base + seg.size
    BY <1>2, <1>3, <1>8 DEF SegmentOk, Limit
  <2>2. After(ch, m.top) \in Nat
    BY <1>1, <1>4, FirstIs
  <2>3. After(ch, m.top) = seg.base + seg.size - TopFoot
    BY SMTT(30), <1>4, <2>1, <2>2 DEF TopFoot, SegmentSize, MinChunk
  <2>. QED
    BY <1>3, <1>4, <1>5, <1>6, <1>7, <1>8, <1>2, <2>1, <2>3 DEF SegmentOk, Holds
<1>9. CASE seg.record # NULL
  <2>1. Holds(seg, seg.record) /\ ch[seg.record].c /\ ch[last].size = 0
    BY <1>2, <1>3, <1>9 DEF SegmentOk
  <2>2. ch[last] = Fence
    <3>1. HeaderOk(ch[last]) /\ ch[last].c /\ ch[last].p /\ ch[last].foot = 0
      BY <1>5, <1>7, <2>1 DEF HeaderOk
    <3>2. ch[last] = [f \in {"size", "c", "p", "foot"} |-> ch[last][f]]
      BY <3>1 DEF HeaderOk
    <3>3. ch[last].c = TRUE /\ ch[last].p = TRUE
      BY <3>1 DEF HeaderOk
    <3>. QED
      BY <2>1, <3>1, <3>2, <3>3, Zenon DEF Fence, Header
  <2>. QED
    BY <1>3, <1>4, <1>5, <1>6, <1>7, <1>9, <1>2, <2>1, <2>2 DEF SegmentOk, Holds
<1>. QED
  BY <1>8, <1>9

\* The headers of a segment up to the last one are chunks, one behind the
\* other.
LEMMA Walked ==
    ASSUME NEW m, NEW i, NEW seg, NEW last, SegmentEnd(m, i, seg, last), NEW p \in DOMAIN m.chunks,
           Holds(seg, p), p < last
    PROVE  /\ p \in Ord(m.chunks) \ {m.top} /\ After(m.chunks, p) \in DOMAIN m.chunks
           /\ Holds(seg, After(m.chunks, p)) /\ After(m.chunks, p) <= last
           /\ \A q \in DOMAIN m.chunks : q <= p \/ q >= After(m.chunks, p)
           /\ Tagged(m.chunks, p, After(m.chunks, p))
<1>. DEFINE ch == m.chunks
            y == After(ch, p)
<1>1. Whole(m) /\ Structure(ch, m.top, m.segs, m.regions) /\ Layout(ch, m.top)
  BY DEF SegmentEnd, Sound, Whole, Structure
<1>2. p \in Ord(ch)
  BY SegmentEndIs
<1>3. p # m.top
  <2>1. CASE seg.record = NULL
    BY <2>1, SegmentEndIs
  <2>2. CASE seg.record # NULL
    BY <2>2, SegmentEndIs
  <2>. QED
    BY <2>1, <2>2
<1>4. Tagged(ch, p, y) /\ \A q \in DOMAIN ch : q <= p \/ y <= q
  BY <1>1, <1>2, <1>3 DEF Layout
<1>5. y \in Nat /\ p < y /\ p \in Nat
  BY <1>1, <1>2, ChunkTypes
<1>6. /\ last \in DOMAIN ch /\ last \in Nat /\ seg.base \in Nat /\ seg.size \in Nat /\ last < seg.base + seg.size
      /\ \A q \in DOMAIN ch : q \in Nat
  BY SegmentEndIs DEF Holds
<1>. HIDE DEF y
<1>7. y <= last
  BY <1>4, <1>5, <1>6
<1>8. seg.base <= p
  BY DEF Holds
<1>9. Holds(seg, y)
  BY <1>5, <1>6, <1>7, <1>8 DEF Holds
<1>10. \A q \in DOMAIN ch : q <= p \/ q >= y
  BY <1>4, <1>5, <1>6
<1>. QED
  BY <1>2, <1>3, <1>4, <1>7, <1>9, <1>10 DEF y, Tagged

\* A segment is tiled by chunks.
LEMMA TiledIs ==
    ASSUME Sound(gm), NEW i \in 1..Len(gm.segs), NEW seg, seg = gm.segs[i]
    PROVE  /\ Tiled(seg)
           /\ IF seg.record = NULL
              THEN Holds(seg, gm.top) /\ EndOf(gm.top) = seg.base + seg.size - TopFoot
              ELSE Holds(seg, seg.record) /\ gm.chunks[seg.record].c
<1>. DEFINE within == {p \in Chunks : Holds(seg, p)}
            fences == {p \in within : gm.chunks[p] = Fence}
            last == IF Holds(seg, gm.top) THEN gm.top ELSE Min(fences)
            walked == {p \in within : p <= last}
            end == Limit(seg, gm.top)
<1>. HIDE DEF end
<1>1. SegmentEnd(gm, i, seg, end)
  BY DEF SegmentEnd, end
<1>2. /\ end \in DOMAIN gm.chunks /\ Holds(seg, end) /\ end \in Nat
      /\ seg.base \in Ord(gm.chunks) /\ gm.chunks[seg.base].p /\ seg.base \in Nat /\ seg.size \in Nat /\ seg.base <= end
      /\ \A q \in DOMAIN gm.chunks : q \in Nat
      /\ \A q \in DOMAIN gm.chunks : Holds(seg, q) => q <= end /\ (q < end => q \in Ord(gm.chunks))
      /\ seg.record = NULL => /\ Holds(seg, gm.top) /\ end = gm.top
                              /\ After(gm.chunks, gm.top) = seg.base + seg.size - TopFoot
      /\ seg.record # NULL => /\ ~Holds(seg, gm.top) /\ Holds(seg, seg.record) /\ gm.chunks[seg.record].c
                              /\ gm.chunks[end] = Fence
  BY SMTT(30), <1>1, SegmentEndIs
<1>3. last = end
  <2>1. CASE seg.record = NULL
    BY <1>2, <2>1
  <2>2. CASE seg.record # NULL
    <3>1. fences = {end}
      <4>1. end \in fences
        BY <1>2, <2>2 DEF Chunks
      <4>2. ASSUME NEW p \in fences PROVE p = end
        <5>1. p \in DOMAIN gm.chunks /\ Holds(seg, p) /\ gm.chunks[p].size = 0
          BY DEF Chunks, Fence, Header
        <5>2. p \notin Ord(gm.chunks)
          BY <5>1 DEF Ord
        <5>. QED
          BY <1>2, <5>1, <5>2
      <4>. HIDE DEF fences
      <4>. QED
        BY <4>1, <4>2
    <3>2. Min({end}) = end
      <4>1. \E x \in {end} : \A y \in {end} : x =< y
        BY <1>2
      <4>. QED
        BY <4>1 DEF Min
    <3>. HIDE DEF fences
    <3>. QED
      BY <1>2, <2>2, <3>1, <3>2
  <2>. QED
    BY <2>1, <2>2
<1>4. \A p : p \in walked <=> p \in DOMAIN gm.chunks /\ Holds(seg, p)
  BY <1>2, <1>3 DEF Chunks
<1>5. ASSUME NEW p \in walked \ {last}
      PROVE  /\ EndOf(p) \in walked
             /\ \A q \in walked : q <= p \/ q >= EndOf(p)
             /\ gm.chunks[EndOf(p)].p <=> gm.chunks[p].c
             /\ gm.chunks[EndOf(p)].foot = IF gm.chunks[p].c THEN 0 ELSE gm.chunks[p].size
  <2>1. p \in DOMAIN gm.chunks /\ Holds(seg, p) /\ p # end
    BY <1>3, <1>4
  <2>2. p < end
    BY <1>2, <2>1
  <2>3. EndOf(p) = After(gm.chunks, p)
    BY DEF EndOf, After
  <2>. HIDE DEF walked, last
  <2>4. /\ After(gm.chunks, p) \in DOMAIN gm.chunks /\ Holds(seg, After(gm.chunks, p))
        /\ \A q \in DOMAIN gm.chunks : q <= p \/ q >= After(gm.chunks, p)
        /\ Tagged(gm.chunks, p, After(gm.chunks, p))
    BY SMTT(30), <1>1, <2>1, <2>2, Walked
  <2>. QED
    BY <1>4, <2>3, <2>4 DEF Tagged
<1>6. seg.base \in walked /\ gm.chunks[seg.base].p
  <2>1. Holds(seg, seg.base)
    BY <1>2 DEF Holds
  <2>. QED
    BY <1>2, <1>4, <2>1 DEF Ord
<1>7. Tiled(seg)
  BY <1>5, <1>6, Zenon DEF Tiled
<1>. QED
  BY <1>2, <1>7 DEF EndOf, After

\* Sound implies the invariant that the runs check.
LEMMA HeapSoundIs ==
    ASSUME Sound(gm)
    PROVE  HeapSound
<1>. DEFINE ch == gm.chunks
<1>1. Whole(gm) /\ Structure(ch, gm.top, gm.segs, gm.regions)
  BY DEF Sound, Whole
<1>2. FreeChunks = FreeAt(ch)
  BY DEF FreeChunks, FreeAt, Chunks, IsInuse, HeaderAt
<1>3. BoundaryTags
  <2>1. ASSUME NEW seg \in Range(gm.segs)
        PROVE  /\ Tiled(seg)
               /\ IF seg.record = NULL
                  THEN Holds(seg, gm.top) /\ EndOf(gm.top) = seg.base + seg.size - TopFoot
                  ELSE Holds(seg, seg.record) /\ gm.chunks[seg.record].c
    <3>1. DOMAIN gm.segs = 1..Len(gm.segs)
      BY <1>1, SegmentTypes DEF Structure
    <3>2. PICK i \in 1..Len(gm.segs) : seg = gm.segs[i]
      BY <3>1 DEF Range
    <3>. QED
      BY <3>2, TiledIs
  <2>2. FreeChunksApart
    <3>1. SUFFICES ASSUME NEW p \in FreeAt(ch), NEW q \in FreeAt(ch), After(ch, p) = q PROVE FALSE
      BY <1>2 DEF FreeChunksApart, EndOf, After
    <3>2. q \in DOMAIN ch /\ ch[q].p
      BY DEF FreeAt
    <3>3. p # gm.top => ~ch[After(ch, p)].p
      BY <1>1, BehindFree
    <3>4. p = gm.top => After(ch, p) \notin DOMAIN ch
      BY <1>1, BehindFree
    <3>. QED
      BY <3>1, <3>2, <3>3, <3>4
  <2>. QED
    BY <2>1, <2>2, Zenon DEF BoundaryTags
<1>4. BinsExact
  <2>2. \A p \in FreeAt(ch) : ch[p].size > 0
    <3>1. FreeAt(ch) \subseteq Ord(ch)
      BY <1>1, ChunkTypes
    <3>. QED
      BY <3>1 DEF Ord
  <2>3. Binned(gm, {})
    BY DEF Sound
  <2>4. gm.bins = {[at |-> p, size |-> gm.chunks[p].size] : p \in FreeChunks \ {gm.top, gm.dv}}
    <3>1. FreeAt(ch) \ ({gm.top, gm.dv} \cup {}) = FreeChunks \ {gm.top, gm.dv}
      BY <1>2
    <3>. QED
      BY <2>3, <3>1 DEF Binned, Entries
  <2>5. IF gm.dv = NULL THEN gm.dvsize = 0
        ELSE gm.dv \in FreeChunks /\ gm.chunks[gm.dv].size = gm.dvsize /\ gm.dvsize > 0
    BY <1>2, <2>2, <2>3 DEF Binned
  <2>6. gm.top # NULL => gm.top \in FreeAt(ch)
    BY <1>1, ChunkTypes
  <2>7. gm.top # NULL => gm.topsize = ch[gm.top].size
    BY <2>3 DEF Binned
  <2>. QED
    BY <1>2, <2>2, <2>4, <2>5, <2>6, <2>7 DEF BinsExact, IsInitialized
<1>. QED
  BY <1>3, <1>4 DEF HeapSound

-----------------------------------------------------------------------------
(* What callers hold, and the calls between two of their steps. *)

\* What is held is in use, and has the size it was asked to have; the footprint
\* is what the regions have.
OwnedOk(m, o) ==
    /\ Counted(m)
    /\ IsFiniteSet(DOMAIN o)
    /\ DOMAIN o = Used(m)
    /\ \A p \in DOMAIN o : o[p] \in Nat /\ Fits(m, p, o[p])

\* A size asked for.
Request(nb) == nb \in Nat /\ nb >= MinChunk

\* The sizes of elements, and their sum, that do not wrap.
Sizes(sizes) ==
    sizes \in Seq(MinChunk..MaxSize) /\ sizes # <<>> /\ SumUpTo(sizes, Len(sizes)) <= MaxSize

\* What a call under way knows: its chunks are held, ialloc has mapping disabled.
CallOk(c, m, o) ==
    /\ c.op \in {"move", "moved"} =>
         /\ c = [f \in {"op", "p", "new", "nb"} |-> c[f]]
         /\ c.p \in DOMAIN o /\ Request(c.nb)
    /\ c.op \in {"move", "align", "disabled", "taken"} => c.new = NULL
    /\ c.op = "moved" => c.new \in DOMAIN o /\ c.new # c.p
    /\ c.op = "align" =>
         /\ c.p \in DOMAIN o /\ Request(c.nb) /\ c.alignment \in Nat \ {0}
         /\ o[c.p] = c.nb + c.alignment + MinChunk
    /\ InIalloc(c) =>
         /\ c = [f \in {"op", "p", "new", "sizes", "was_enabled"} |-> c[f]]
         /\ Sizes(c.sizes)
    /\ c.op = "disabled" => c.p = NULL /\ ~m.use_mmap
    /\ c.op = "taken" =>
         /\ c.p \in DOMAIN o /\ o[c.p] = RequestOf(c.sizes)
         /\ m.chunks[c.p].c /\ m.chunks[c.p].p
    /\ c.op \in {"move", "moved", "align", "disabled", "taken"}

\* The chunks it is about.
Blocks2(c) == {c.p, c.new} \ {NULL}

\* The calls are about different chunks, and one of them is in ialloc.
CallsOk(m, o, cs) ==
    /\ \A c \in cs : CallOk(c, m, o)
    /\ \A c, d \in cs : c # d => Blocks2(c) \cap Blocks2(d) = {}
    /\ \A c, d \in cs : InIalloc(c) /\ InIalloc(d) => c = d

\* The inductive invariant.
HeapInv(m, o, cs) == Sound(m) /\ OwnedOk(m, o) /\ CallsOk(m, o, cs)

\* A step takes S from what is held, and gives T.
OwnedStep(m, o, n, o2, S, T) ==
    /\ Sound(m) /\ Sound(n) /\ OwnedOk(m, o) /\ Frame(n, m, S, T)
    /\ DOMAIN o2 = (DOMAIN o \ S) \cup T /\ IsFiniteSet(DOMAIN o2)
    /\ \A q \in DOMAIN o2 : q \notin T => o2[q] = o[q]
    /\ \A q \in DOMAIN o2 : q \in T => o2[q] \in Nat /\ Fits(n, q, o2[q])

\* What is held stays in use.
LEMMA OwnedStepOk ==
    ASSUME NEW m, NEW o, NEW n, NEW o2, NEW S, NEW T, OwnedStep(m, o, n, o2, S, T)
    PROVE  OwnedOk(n, o2)
<1>1. DOMAIN o2 = Used(n)
  BY DEF OwnedStep, OwnedOk, Frame
<1>2. ASSUME NEW q \in DOMAIN o2, q \notin T
      PROVE  o2[q] \in Nat /\ Fits(n, q, o2[q])
  <2>1. q \in DOMAIN o \ S /\ o2[q] = o[q]
    BY <1>2 DEF OwnedStep
  <2>2. q \in Used(m) \ S /\ o[q] \in Nat /\ Fits(m, q, o[q])
    BY <2>1 DEF OwnedStep, OwnedOk
  <2>3. n.chunks[q].size = m.chunks[q].size /\ n.chunks[q].c = m.chunks[q].c
    BY <2>2 DEF OwnedStep, Frame
  <2>. QED
    BY <2>1, <2>2, <2>3 DEF Fits
<1>3. \A q \in DOMAIN o2 : o2[q] \in Nat /\ Fits(n, q, o2[q])
  <2>. TAKE q \in DOMAIN o2
  <2>1. q \in T => o2[q] \in Nat /\ Fits(n, q, o2[q])
    BY DEF OwnedStep
  <2>. QED
    BY <1>2, <2>1
<1>4. Counted(n)
  BY DEF OwnedStep, OwnedOk, Frame, Counts
<1>. QED
  BY <1>1, <1>3, <1>4 DEF OwnedOk, OwnedStep

\* And is not null.
LEMMA OwnedNotNull ==
    ASSUME NEW m, Sound(m), NEW o, OwnedOk(m, o)
    PROVE  NULL \notin DOMAIN o /\ \A p \in DOMAIN o : p \in Used(m) /\ p # NULL
BY UsedIs DEF OwnedOk, Sound

\* The calls in cs2 go on as they were, if what they are about is not in D.
CallsStep(m, o, cs, n, o2, cs2, D) ==
    /\ CallsOk(m, o, cs) /\ cs2 \subseteq cs
    /\ \A d \in cs2 : ~InIalloc(d) /\ d.p \notin D /\ d.new \notin D
    /\ \A q \in DOMAIN o \ D : q \in DOMAIN o2 /\ o2[q] = o[q]

\* The calls under way go on with their chunks.
LEMMA CallsStepOk ==
    ASSUME NEW m, NEW o, NEW cs, NEW n, NEW o2, NEW cs2, NEW D, CallsStep(m, o, cs, n, o2, cs2, D)
    PROVE  CallsOk(n, o2, cs2)
<1>1. ASSUME NEW d \in cs2 PROVE CallOk(d, n, o2)
  <2>1. CallOk(d, m, o) /\ ~InIalloc(d) /\ d.p \notin D /\ d.new \notin D
    BY DEF CallsStep, CallsOk
  <2>2. \A q \in DOMAIN o \ D : q \in DOMAIN o2 /\ o2[q] = o[q]
    BY DEF CallsStep
  <2>3. d.op # "disabled" /\ d.op # "taken"
    BY <2>1 DEF InIalloc
  <2>. QED
    BY <2>1, <2>2, <2>3 DEF CallOk
<1>. QED
  BY <1>1 DEF CallsOk, CallsStep

\* A call begins.
LEMMA CallAdded ==
    ASSUME NEW n, NEW o, NEW cs, CallsOk(n, o, cs), NEW c, CallOk(c, n, o),
           \A d \in cs : Blocks2(c) \cap Blocks2(d) = {} /\ ~InIalloc(d)
    PROVE  CallsOk(n, o, cs \cup {c})
BY DEF CallsOk

\* What is about to be called is not what a call is about.
LEMMA CallBlocks ==
    ASSUME NEW m, NEW o, NEW cs, CallsOk(m, o, cs), NEW c \in cs
    PROVE  Blocks2(c) \subseteq DOMAIN o
<1>1. CallOk(c, m, o)
  BY DEF CallsOk
<1>. QED
  BY <1>1 DEF CallOk, Blocks2

\* What was held still is, but for D.
StillHeld(o, o2, D) == \A q \in DOMAIN o \ D : q \in DOMAIN o2 /\ o2[q] = o[q]

\* What is held after an allocation, and after a release.
MallocDone(out, m, o, o2, nb) ==
    /\ Sound(out.m) /\ OwnedOk(out.m, o2) /\ StillHeld(o, o2, {})
    /\ out.p # NULL =>
         /\ out.p \notin DOMAIN o /\ out.p \in DOMAIN o2 /\ o2[out.p] = nb
         /\ ~m.use_mmap => out.m.chunks[out.p].c /\ out.m.chunks[out.p].p

\* An allocation gives a chunk nobody holds.
LEMMA MallocOwned ==
    ASSUME NEW m, Sound(m), NEW o, OwnedOk(m, o), NEW nb, Request(nb), NEW out \in Malloc(m, nb),
           NEW o2, o2 = IF out.p = NULL THEN o ELSE With(o, out.p, nb)
    PROVE  MallocDone(out, m, o, o2, nb)
<1>1. Met(out, m, nb)
  BY MallocIs DEF Request
<1>2. CASE out.p = NULL
  <2>1. OwnedStep(m, o, out.m, o2, {}, {})
    BY <1>1, <1>2 DEF Met, Kept, OwnedStep, OwnedOk
  <2>2. OwnedOk(out.m, o2)
    BY <2>1, OwnedStepOk
  <2>. QED
    BY <1>2, <2>1, <2>2 DEF MallocDone, OwnedStep, StillHeld
<1>3. CASE out.p # NULL
  <2>1. Took(out.m, m, out.p, nb)
    BY <1>1, <1>3 DEF Met
  <2>2. o2 = With(o, out.p, nb)
    BY <1>3
  <2>3. DOMAIN o2 = DOMAIN o \cup {out.p} /\ o2[out.p] = nb /\ \A q \in DOMAIN o \ {out.p} : o2[q] = o[q]
    BY <2>2 DEF With
  <2>4. out.p \notin DOMAIN o
    BY <2>1 DEF Took, OwnedOk
  <2>5. IsFiniteSet(DOMAIN o2)
    BY <2>3, FS_AddElement DEF OwnedOk
  <2>6. Sound(out.m) /\ Frame(out.m, m, {}, {out.p}) /\ Fits(out.m, out.p, nb)
    BY <2>1 DEF Took
  <2>7. OwnedStep(m, o, out.m, o2, {}, {out.p})
    BY <2>3, <2>4, <2>5, <2>6 DEF OwnedStep, Request
  <2>8. OwnedOk(out.m, o2)
    BY <2>7, OwnedStepOk
  <2>9. StillHeld(o, o2, {})
    BY <2>3, <2>4 DEF StillHeld
  <2>10. ~m.use_mmap => out.m.chunks[out.p].c /\ out.m.chunks[out.p].p
    BY <2>1 DEF Took
  <2>. QED
    BY <1>3, <2>3, <2>4, <2>6, <2>8, <2>9, <2>10 DEF MallocDone
<1>. QED
  BY <1>2, <1>3

FreeDone(n, o, o2, D) == Sound(n) /\ OwnedOk(n, o2) /\ StillHeld(o, o2, D)

\* A release takes the chunks away that were released.
LEMMA FreeOwned ==
    ASSUME NEW m, Sound(m), NEW o, OwnedOk(m, o), NEW D, NEW n, Freed(n, m, D),
           NEW o2, o2 = Restrict(o, DOMAIN o \ D)
    PROVE  FreeDone(n, o, o2, D)
<1>1. Frame(n, m, D, {}) /\ Sound(n)
  BY DEF Freed
<1>2. DOMAIN o2 = DOMAIN o \ D /\ \A q \in DOMAIN o \ D : o2[q] = o[q]
  BY DEF Restrict
<1>3. IsFiniteSet(DOMAIN o2)
  BY <1>2, FS_Subset DEF OwnedOk
<1>4. OwnedStep(m, o, n, o2, D, {})
  BY <1>1, <1>2, <1>3 DEF OwnedStep
<1>5. OwnedOk(n, o2)
  BY <1>4, OwnedStepOk
<1>. QED
  BY <1>1, <1>2, <1>5 DEF FreeDone, StillHeld

\* A resize leaves the other chunks to their holders,
LEMMA ResizeOwned ==
    ASSUME NEW m, Sound(m), NEW o, OwnedOk(m, o), NEW p \in DOMAIN o, NEW nb, Request(nb),
           NEW n, Resized(n, m, p, nb), NEW o2, o2 = [o EXCEPT ![p] = nb]
    PROVE  FreeDone(n, o, o2, {p})
<1>1. Sound(n) /\ Frame(n, m, {p}, {p}) /\ Fits(n, p, nb)
  BY DEF Resized
<1>2. DOMAIN o2 = DOMAIN o /\ o2[p] = nb /\ \A q \in DOMAIN o \ {p} : o2[q] = o[q]
  OBVIOUS
<1>3. OwnedStep(m, o, n, o2, {p}, {p})
  BY <1>1, <1>2 DEF OwnedStep, OwnedOk, Request
<1>4. OwnedOk(n, o2)
  BY <1>3, OwnedStepOk
<1>. QED
  BY <1>1, <1>2, <1>4 DEF FreeDone, StillHeld

\* and so does the cut of an aligned chunk.
LEMMA CarveOwned ==
    ASSUME NEW m, Sound(m), NEW o, OwnedOk(m, o), NEW p \in DOMAIN o, NEW q, NEW nb, Request(nb),
           NEW n, Moved(n, m, p, q, nb), NEW o2, o2 = With(Restrict(o, DOMAIN o \ {p}), q, nb)
    PROVE  FreeDone(n, o, o2, {p})
<1>1. Sound(n) /\ Frame(n, m, {p}, {q}) /\ Fits(n, q, nb) /\ q \notin Used(m) \ {p}
  BY DEF Moved
<1>2. /\ DOMAIN o2 = (DOMAIN o \ {p}) \cup {q} /\ o2[q] = nb
      /\ \A x \in (DOMAIN o \ {p}) \ {q} : o2[x] = o[x]
  BY DEF With, Restrict
<1>3. q \notin DOMAIN o \ {p}
  BY <1>1 DEF OwnedOk
<1>4. IsFiniteSet(DOMAIN o2)
  <2>. DEFINE W == DOMAIN o \ {p}
  <2>1. IsFiniteSet(W)
    BY FS_RemoveElement DEF OwnedOk
  <2>. HIDE DEF W
  <2>2. IsFiniteSet(W \cup {q})
    BY <2>1, FS_AddElement
  <2>. QED
    BY <1>2, <2>2 DEF W
<1>5. OwnedStep(m, o, n, o2, {p}, {q})
  BY <1>1, <1>2, <1>3, <1>4 DEF OwnedStep, Request
<1>6. OwnedOk(n, o2)
  BY <1>5, OwnedStepOk
<1>. QED
  BY <1>1, <1>2, <1>3, <1>6 DEF FreeDone, StillHeld

\* A heap whose settings differ.
SameHeap(n, m) ==
    /\ IsState(n) /\ n.chunks = m.chunks /\ n.segs = m.segs /\ n.regions = m.regions
    /\ SameTop(n, m) /\ SameBins(n, m) /\ n.least_addr = m.least_addr /\ n.aborted = m.aborted
    /\ n.footprint = m.footprint

\* A change of the settings is no change of the heap.
LEMMA SameHeapIs ==
    ASSUME NEW m, Sound(m), NEW n, SameHeap(n, m)
    PROVE  Sound(n) /\ \A o : OwnedOk(m, o) => OwnedOk(n, o)
<1>1. Sound(n)
  BY DEF Sound, Whole, Binned, Low, SameHeap, SameTop, SameBins
<1>2. Used(n) = Used(m)
  BY DEF Used, SameHeap
<1>3. \A p, nb : Fits(m, p, nb) => Fits(n, p, nb)
  BY DEF Fits, SameHeap
<1>4. Counted(m) => Counted(n)
  BY CountsSame DEF SameHeap, Counts
<1>. QED
  BY <1>1, <1>2, <1>3, <1>4 DEF OwnedOk

\* The settings that routines change.
LEMMA SettingsIs ==
    ASSUME NEW m, IsState(m), NEW v
    PROVE  /\ SameHeap([m EXCEPT !.use_mmap = v], m) /\ [m EXCEPT !.use_mmap = v].use_mmap = v
           /\ SameHeap([m EXCEPT !.footprint_limit = v], m)
           /\ [m EXCEPT !.footprint_limit = v].use_mmap = m.use_mmap
<1>. DEFINE x == [m EXCEPT !.use_mmap = v]
            y == [m EXCEPT !.footprint_limit = v]
<1>1. ASSUME NEW z, z = x \/ z = y
      PROVE  /\ IsState(z) /\ z.chunks = m.chunks /\ z.segs = m.segs /\ z.regions = m.regions
             /\ z.top = m.top /\ z.topsize = m.topsize /\ z.dv = m.dv /\ z.dvsize = m.dvsize
             /\ z.bins = m.bins /\ z.least_addr = m.least_addr /\ z.aborted = m.aborted
             /\ z.footprint = m.footprint
             /\ IF z = x THEN z.use_mmap = v ELSE z.use_mmap = m.use_mmap
  BY <1>1 DEF IsState, Fields
<1>2. x.use_mmap = v /\ y.use_mmap = m.use_mmap
  BY DEF IsState, Fields
<1>. HIDE DEF x, y
<1>3. SameHeap(x, m) /\ SameHeap(y, m)
  BY <1>1 DEF SameHeap, SameTop, SameBins
<1>. QED
  BY <1>2, <1>3 DEF x, y

-----------------------------------------------------------------------------
(* The steps of calls. *)

\* The invariant before and after a step.
Before == HeapInv(gm, owned, calls) /\ IallocAlone /\ ArraysFit

After1 == HeapInv(gm', owned', calls')

\* No other call is in ialloc when one is made, or goes on.
LEMMA NoneInIalloc ==
    ASSUME Before, MayCall
    PROVE  \A c \in calls : ~InIalloc(c)
BY DEF Before, MayCall

\* While a call runs that ialloc excludes, no other one is in ialloc.
LEMMA OthersNotInIalloc ==
    ASSUME Before, NEW c \in calls, OthersWait(c) \/ InIalloc(c)
    PROVE  \A d \in calls \ {c} : ~InIalloc(d)
BY DEF Before, OthersWait, HeapInv, CallsOk

\* A block a caller holds and gives to no call is not what a call is about.
LEMMA HeldIs ==
    ASSUME Before, NEW p \in Held
    PROVE  p \in DOMAIN owned /\ p \in Used(gm) /\ p # NULL /\ \A c \in calls : c.p # p /\ c.new # p
<1>1. p \in DOMAIN owned /\ \A c \in calls : c.p # p /\ c.new # p
  BY DEF Held
<1>. QED
  BY <1>1, OwnedNotNull DEF Before, HeapInv

\* The chunks of the others are not those of the call c.
LEMMA OthersApart ==
    ASSUME Before, NEW c \in calls
    PROVE  \A d \in calls \ {c} : d.p \notin Blocks2(c) /\ d.new \notin Blocks2(c)
<1>1. \A d \in calls \ {c} : Blocks2(c) \cap Blocks2(d) = {}
  BY DEF Before, HeapInv, CallsOk
<1>. QED
  BY <1>1 DEF Blocks2

\* A step after which the calls that are left have what they had.
LEMMA CallsLeft ==
    ASSUME Before, NEW n, NEW o2, NEW D, StillHeld(owned, o2, D), NEW cs \in SUBSET calls,
           \A d \in cs : ~InIalloc(d) /\ d.p \notin D /\ d.new \notin D
    PROVE  CallsOk(n, o2, cs)
<1>1. CallsStep(gm, owned, calls, n, o2, cs, D)
  BY DEF CallsStep, StillHeld, Before, HeapInv
<1>. QED
  BY <1>1, CallsStepOk

\* dlmalloc keeps the invariant,
LEMMA MallocStep ==
    ASSUME Before, NEW nb, Request(nb), dlmalloc(nb)
    PROVE  After1
<1>1. PICK o \in Malloc(gm, nb) : gm' = o.m /\ Own(o.p, nb) /\ MayCall /\ calls' = calls
  BY DEF dlmalloc
<1>2. owned' = IF o.p = NULL THEN owned ELSE With(owned, o.p, nb)
  BY <1>1 DEF Own
<1>3. MallocDone(o, gm, owned, owned', nb)
  BY <1>2, MallocOwned DEF Before, HeapInv
<1>4. CallsOk(gm', owned', calls)
  BY <1>1, <1>3, CallsLeft, NoneInIalloc DEF MallocDone
<1>. QED
  BY <1>1, <1>3, <1>4 DEF After1, HeapInv, MallocDone

\* dlfree does,
LEMMA FreeStep ==
    ASSUME Before, NEW p \in Held, dlfree(p)
    PROVE  After1
<1>1. MayCall /\ gm' = Free(gm, p) /\ owned' = Restrict(owned, DOMAIN owned \ {p}) /\ calls' = calls
  BY DEF dlfree, Disown
<1>2. p \in Used(gm) /\ \A c \in calls : c.p \notin {p} /\ c.new \notin {p}
  BY HeldIs
<1>3. Freed(gm', gm, {p})
  BY <1>1, <1>2, FreeIs DEF Before, HeapInv
<1>4. FreeDone(gm', owned, owned', {p})
  BY <1>1, <1>3, FreeOwned DEF Before, HeapInv
<1>5. CallsOk(gm', owned', calls)
  BY <1>1, <1>2, <1>4, CallsLeft, NoneInIalloc DEF FreeDone
<1>. QED
  BY <1>1, <1>4, <1>5 DEF After1, HeapInv, FreeDone

\* What try_realloc_chunk leaves.
LEMMA TryStep ==
    ASSUME Before, MayCall, NEW p \in Held, NEW nb, Request(nb), NEW o, o = TryRealloc(gm, p, nb)
    PROVE  /\ o.p = NULL => o.m = gm
           /\ o.p # NULL => o.p = p /\ HeapInv(o.m, [owned EXCEPT ![p] = nb], calls)
<1>1. p \in DOMAIN owned /\ p \in Used(gm) /\ p # NULL /\ \A c \in calls : c.p \notin {p} /\ c.new \notin {p}
  BY HeldIs
<1>2. TriedOk(o, gm, p, nb)
  BY <1>1, TryReallocIs DEF Before, HeapInv, Request
<1>3. ASSUME o.p # NULL PROVE o.p = p /\ HeapInv(o.m, [owned EXCEPT ![p] = nb], calls)
  <2>1. o.p = p /\ Resized(o.m, gm, p, nb)
    BY <1>2, <1>3 DEF TriedOk
  <2>. DEFINE o2 == [owned EXCEPT ![p] = nb]
  <2>2. FreeDone(o.m, owned, o2, {p})
    BY <1>1, <2>1, ResizeOwned DEF Before, HeapInv
  <2>. HIDE DEF o2
  <2>3. CallsOk(o.m, o2, calls)
    BY <1>1, <2>2, CallsLeft, NoneInIalloc DEF FreeDone
  <2>4. HeapInv(o.m, o2, calls)
    BY <2>2, <2>3 DEF HeapInv, FreeDone
  <2>. QED
    BY <2>1, <2>4 DEF o2
<1>4. o.p = NULL => o.m = gm
  BY <1>2 DEF TriedOk
<1>. QED
  BY <1>3, <1>4

\* dlrealloc_in_place does,
LEMMA ReallocInPlaceStep ==
    ASSUME Before, NEW p \in Held, NEW nb, Request(nb), dlrealloc_in_place(p, nb)
    PROVE  After1
<1>. DEFINE o == TryRealloc(gm, p, nb)
            o2 == [owned EXCEPT ![p] = nb]
<1>1. MayCall /\ gm' = o.m /\ owned' = (IF o.p = p THEN o2 ELSE owned) /\ calls' = calls
  BY Zenon DEF dlrealloc_in_place
<1>2. o = TryRealloc(gm, p, nb)
  OBVIOUS
<1>. HIDE DEF o
<1>3. (o.p = NULL => o.m = gm) /\ (o.p # NULL => o.p = p /\ HeapInv(o.m, o2, calls))
  BY <1>1, <1>2, TryStep
<1>4. p # NULL
  BY HeldIs
<1>. HIDE DEF o2
<1>. QED
  BY <1>1, <1>3, <1>4 DEF After1, Before

\* A call that begins, about p, which no other call is about.
LEMMA MoveBegins ==
    ASSUME NEW m, NEW o, NEW cs, HeapInv(m, o, cs), NEW p \in DOMAIN o, NEW nb, Request(nb),
           \A d \in cs : ~InIalloc(d) /\ d.p # p /\ d.new # p, NEW c,
           c = [op |-> "move", p |-> p, new |-> NULL, nb |-> nb]
    PROVE  HeapInv(m, o, cs \cup {c})
<1>1. c.op = "move" /\ c.p = p /\ c.new = NULL /\ c.nb = nb /\ c = [f \in {"op", "p", "new", "nb"} |-> c[f]]
  BY SMT
<1>2. CallOk(c, m, o)
  BY <1>1 DEF CallOk, InIalloc
<1>3. \A d \in cs : Blocks2(c) \cap Blocks2(d) = {} /\ ~InIalloc(d)
  BY <1>1 DEF Blocks2
<1>4. CallsOk(m, o, cs \cup {c})
  BY <1>2, <1>3, CallAdded DEF HeapInv
<1>. QED
  BY <1>4 DEF HeapInv

\* and the first step of dlrealloc,
LEMMA ReallocStep ==
    ASSUME Before, NEW p \in Held, NEW nb, Request(nb), dlrealloc(p, nb)
    PROVE  After1
<1>. DEFINE o == TryRealloc(gm, p, nb)
            o2 == [owned EXCEPT ![p] = nb]
            c == [op |-> "move", p |-> p, new |-> NULL, nb |-> nb]
<1>1. MayCall /\ gm' = o.m
  BY Zenon DEF dlrealloc
<1>2. IF o.p # NULL THEN owned' = o2 /\ calls' = calls ELSE owned' = owned /\ calls' = calls \cup {c}
  BY Zenon DEF dlrealloc, Enter
<1>3. o = TryRealloc(gm, p, nb) /\ c = [op |-> "move", p |-> p, new |-> NULL, nb |-> nb]
  OBVIOUS
<1>. HIDE DEF o, c
<1>4. (o.p = NULL => o.m = gm) /\ (o.p # NULL => o.p = p /\ HeapInv(o.m, o2, calls))
  BY <1>1, <1>3, TryStep
<1>. HIDE DEF o2
<1>5. p \in DOMAIN owned /\ \A d \in calls : ~InIalloc(d) /\ d.p # p /\ d.new # p
  BY <1>1, HeldIs, NoneInIalloc
<1>6. HeapInv(gm, owned, calls \cup {c})
  BY <1>3, <1>5, MoveBegins DEF Before
<1>. QED
  BY <1>1, <1>2, <1>4, <1>6 DEF After1

\* A call that has a new chunk, q, which is nobody else's.
Taking(m, o, c, o2, q, d) ==
    /\ CallOk(c, m, o) /\ c.op = "move" /\ StillHeld(o, o2, {})
    /\ q \notin DOMAIN o /\ q \in DOMAIN o2
    /\ d = [c EXCEPT !.op = "moved", !.new = q]

\* (the chunk a move has taken belongs to the call)
LEMMA MoveTakes ==
    ASSUME NEW m, NEW o, NEW c, NEW o2, NEW q, NEW n, NEW d, Taking(m, o, c, o2, q, d)
    PROVE  CallOk(d, n, o2) /\ Blocks2(d) \subseteq {c.p, q}
<1>. USE DEF Taking
<1>1. /\ c = [f \in {"op", "p", "new", "nb"} |-> c[f]]
      /\ c.p \in DOMAIN o /\ Request(c.nb)
  BY DEF CallOk
<1>2. d.op = "moved" /\ d.p = c.p /\ d.new = q /\ d.nb = c.nb /\ d = [f \in {"op", "p", "new", "nb"} |-> d[f]]
  <2>1. DOMAIN c = {"op", "p", "new", "nb"}
    BY <1>1
  <2>2. d = [[c EXCEPT !.op = "moved"] EXCEPT !.new = q]
    OBVIOUS
  <2>. DEFINE e == [c EXCEPT !.op = "moved"]
  <2>3. DOMAIN e = DOMAIN c /\ e["op"] = "moved" /\ e["p"] = c["p"] /\ e["nb"] = c["nb"]
    BY <2>1
  <2>. HIDE DEF e
  <2>4. d = [e EXCEPT !["new"] = q]
    BY <2>2 DEF e
  <2>5. DOMAIN d = DOMAIN e /\ d["op"] = e["op"] /\ d["p"] = e["p"] /\ d["nb"] = e["nb"] /\ d["new"] = q
    BY ONLY <2>1, <2>3, <2>4
  <2>6. d = [f \in DOMAIN d |-> d[f]]
    BY ONLY <2>4
  <2>. QED
    BY ONLY <2>1, <2>3, <2>5, <2>6
<1>3. c.p \in DOMAIN o2 /\ q # c.p
  BY <1>1 DEF StillHeld
<1>4. CallOk(d, n, o2)
  BY <1>1, <1>2, <1>3 DEF CallOk, InIalloc
<1>. QED
  BY <1>2, <1>4 DEF Blocks2

\* its second,
LEMMA ReallocMoveStep ==
    ASSUME Before, NEW c \in calls, ReallocMove(c)
    PROVE  After1
<1>1. PICK o \in Malloc(gm, c.nb) :
         /\ gm' = o.m /\ Own(o.p, c.nb)
         /\ IF o.p = NULL THEN calls' = calls \ {c}
            ELSE calls' = (calls \ {c}) \cup {[c EXCEPT !.op = "moved", !.new = o.p]}
  BY DEF ReallocMove, Return
<1>2. c.op = "move" /\ OthersWait(c)
  BY DEF ReallocMove
<1>3. CallOk(c, gm, owned) /\ Request(c.nb) /\ c.p \in DOMAIN owned
  BY <1>2 DEF Before, HeapInv, CallsOk, CallOk
<1>4. owned' = IF o.p = NULL THEN owned ELSE With(owned, o.p, c.nb)
  BY <1>1 DEF Own
<1>5. MallocDone(o, gm, owned, owned', c.nb)
  BY <1>3, <1>4, MallocOwned DEF Before, HeapInv
<1>6. \A d \in calls \ {c} : ~InIalloc(d)
  BY <1>2, OthersNotInIalloc
<1>7. CallsOk(gm', owned', calls \ {c})
  BY <1>5, <1>6, CallsLeft DEF MallocDone
<1>8. Sound(gm') /\ OwnedOk(gm', owned')
  BY <1>1, <1>5 DEF MallocDone
<1>9. CASE o.p = NULL
  BY <1>1, <1>7, <1>8, <1>9 DEF After1, HeapInv
<1>10. CASE o.p # NULL
  <2>. DEFINE d == [c EXCEPT !.op = "moved", !.new = o.p]
  <2>1. calls' = (calls \ {c}) \cup {d} /\ d = [c EXCEPT !.op = "moved", !.new = o.p]
    BY <1>1, <1>10
  <2>. HIDE DEF d
  <2>2. CallOk(d, gm', owned') /\ Blocks2(d) \subseteq {c.p, o.p}
    <3>1. Taking(gm, owned, c, owned', o.p, d)
      BY <1>2, <1>3, <1>5, <1>10, <2>1 DEF MallocDone, Taking
    <3>. QED
      BY <3>1, MoveTakes
  <2>3. \A e \in calls \ {c} : Blocks2(e) \subseteq DOMAIN owned
    BY CallBlocks DEF Before, HeapInv
  <2>4. c.p \in DOMAIN owned /\ c.p # NULL /\ o.p \notin DOMAIN owned
    BY <1>3, <1>5, <1>10, OwnedNotNull DEF MallocDone, Before, HeapInv
  <2>5. \A e \in calls \ {c} : Blocks2(d) \cap Blocks2(e) = {}
    <3>1. \A e \in calls \ {c} : c.p \notin Blocks2(e)
      BY <2>4 DEF Before, HeapInv, CallsOk, Blocks2
    <3>. QED
      BY <2>2, <2>3, <2>4, <3>1
  <2>6. CallsOk(gm', owned', (calls \ {c}) \cup {d})
    BY <1>6, <1>7, <2>2, <2>5, CallAdded
  <2>. QED
    BY <1>8, <2>1, <2>6 DEF After1, HeapInv
<1>. QED
  BY <1>9, <1>10

\* and its third.
LEMMA ReallocFreeStep ==
    ASSUME Before, NEW c \in calls, ReallocFree(c)
    PROVE  After1
<1>1. /\ c.op = "moved" /\ OthersWait(c) /\ gm' = Free(gm, c.p)
      /\ owned' = Restrict(owned, DOMAIN owned \ {c.p}) /\ calls' = calls \ {c}
  BY DEF ReallocFree, Disown, Return
<1>2. c.p \in DOMAIN owned /\ c.p \in Used(gm) /\ c.p # NULL
  <2>1. c.p \in DOMAIN owned
    BY <1>1 DEF Before, HeapInv, CallsOk, CallOk
  <2>. QED
    BY <2>1, OwnedNotNull DEF Before, HeapInv
<1>3. \A d \in calls \ {c} : ~InIalloc(d) /\ d.p \notin {c.p} /\ d.new \notin {c.p}
  <2>1. c.p \in Blocks2(c)
    BY <1>2 DEF Blocks2
  <2>. QED
    BY <1>1, <2>1, OthersNotInIalloc, OthersApart
<1>4. Freed(gm', gm, {c.p})
  BY <1>1, <1>2, FreeIs DEF Before, HeapInv
<1>5. FreeDone(gm', owned, owned', {c.p})
  BY <1>1, <1>4, FreeOwned DEF Before, HeapInv
<1>6. CallsOk(gm', owned', calls \ {c})
  BY <1>3, <1>5, CallsLeft DEF FreeDone
<1>. QED
  BY <1>1, <1>5, <1>6 DEF After1, HeapInv, FreeDone

\* A call that begins, with a chunk to cut.
Aligning(m, o, cs, p, alignment, nb, c) ==
    /\ HeapInv(m, o, cs) /\ p \in DOMAIN o /\ o[p] = nb + alignment + MinChunk
    /\ Request(nb) /\ alignment \in Nat \ {0}
    /\ \A d \in cs : ~InIalloc(d) /\ d.p # p /\ d.new # p
    /\ c = [op |-> "align", p |-> p, new |-> NULL, alignment |-> alignment, nb |-> nb]

\* The call of an aligned allocation begins.
LEMMA AlignBegins ==
    ASSUME NEW m, NEW o, NEW cs, NEW p, NEW alignment, NEW nb, NEW c,
           Aligning(m, o, cs, p, alignment, nb, c)
    PROVE  HeapInv(m, o, cs \cup {c})
<1>. USE DEF Aligning
<1>1. c.op = "align" /\ c.p = p /\ c.new = NULL /\ c.alignment = alignment /\ c.nb = nb
  BY SMT
<1>2. CallOk(c, m, o)
  BY <1>1 DEF CallOk, InIalloc
<1>3. \A d \in cs : Blocks2(c) \cap Blocks2(d) = {} /\ ~InIalloc(d)
  BY <1>1 DEF Blocks2
<1>4. CallsOk(m, o, cs \cup {c})
  BY <1>2, <1>3, CallAdded DEF HeapInv
<1>. QED
  BY <1>4 DEF HeapInv

\* A chunk that was nobody's is not what a call is about.
LEMMA NotMine ==
    ASSUME NEW m, NEW o, NEW cs, CallsOk(m, o, cs), NEW q, q \notin DOMAIN o, q # NULL
    PROVE  \A d \in cs : d.p # q /\ d.new # q
<1>1. \A d \in cs : q \notin Blocks2(d)
  BY CallBlocks
<1>. QED
  BY <1>1 DEF Blocks2

\* dlmemalign keeps the invariant,
LEMMA MemalignStep ==
    ASSUME Before, NEW alignment \in Nat \ {0}, NEW nb, Request(nb), dlmemalign(alignment, nb)
    PROVE  After1
<1>. DEFINE size == nb + alignment + MinChunk
            c(p) == [op |-> "align", p |-> p, new |-> NULL, alignment |-> alignment, nb |-> nb]
<1>1. PICK o \in Malloc(gm, size) :
         /\ gm' = o.m /\ Own(o.p, size)
         /\ IF o.p = NULL THEN calls' = calls ELSE calls' = calls \cup {c(o.p)}
  BY DEF dlmemalign, Enter
<1>2. MayCall
  BY DEF dlmemalign
<1>3. Request(size)
  BY DEF Request, MinChunk
<1>4. owned' = IF o.p = NULL THEN owned ELSE With(owned, o.p, size)
  BY <1>1 DEF Own
<1>5. MallocDone(o, gm, owned, owned', size)
  <2>. HIDE DEF size
  <2>. QED
    BY <1>3, <1>4, MallocOwned DEF Before, HeapInv
<1>6. \A d \in calls : ~InIalloc(d)
  BY <1>2, NoneInIalloc
<1>7. CallsOk(gm', owned', calls)
  BY <1>5, <1>6, CallsLeft DEF MallocDone
<1>8. HeapInv(gm', owned', calls)
  BY <1>1, <1>5, <1>7 DEF MallocDone, HeapInv
<1>9. CASE o.p = NULL
  BY <1>1, <1>8, <1>9 DEF After1
<1>10. CASE o.p # NULL
  <2>1. o.p \notin DOMAIN owned /\ o.p \in DOMAIN owned' /\ owned'[o.p] = nb + alignment + MinChunk
    BY <1>5, <1>10 DEF MallocDone
  <2>2. \A d \in calls : d.p # o.p /\ d.new # o.p
    BY <1>10, <2>1, NotMine DEF Before, HeapInv
  <2>3. Aligning(gm', owned', calls, o.p, alignment, nb, c(o.p))
    BY <1>6, <1>8, <2>1, <2>2 DEF Aligning
  <2>4. calls' = calls \cup {c(o.p)}
    BY <1>1, <1>10
  <2>. HIDE DEF c
  <2>. QED
    BY <2>3, <2>4, AlignBegins DEF After1
<1>. QED
  BY <1>9, <1>10

\* and so does its cut of the chunk.
LEMMA MemalignCarveStep ==
    ASSUME Before, NEW c \in calls, MemalignCarve(c)
    PROVE  After1
<1>. DEFINE o == Carve(gm, c.p, c.alignment, c.nb)
<1>1. /\ c.op = "align" /\ OthersWait(c) /\ gm' = o.m
      /\ owned' = With(Restrict(owned, DOMAIN owned \ {c.p}), o.p, c.nb) /\ calls' = calls \ {c}
  BY Zenon DEF MemalignCarve, Return
<1>2. /\ c.p \in DOMAIN owned /\ Request(c.nb) /\ c.alignment \in Nat \ {0}
      /\ owned[c.p] = c.nb + c.alignment + MinChunk
  BY <1>1 DEF Before, HeapInv, CallsOk, CallOk
<1>3. c.p \in Used(gm) /\ c.p # NULL /\ Fits(gm, c.p, c.nb + c.alignment + MinChunk)
  BY <1>2, OwnedNotNull DEF Before, HeapInv, OwnedOk
<1>4. \A d \in calls \ {c} : ~InIalloc(d) /\ d.p \notin {c.p} /\ d.new \notin {c.p}
  <2>1. c.p \in Blocks2(c)
    BY <1>3 DEF Blocks2
  <2>. QED
    BY <1>1, <2>1, OthersNotInIalloc, OthersApart
<1>5. Moved(o.m, gm, c.p, o.p, c.nb)
  BY <1>2, <1>3, CarveIs DEF Before, HeapInv, Request
<1>. HIDE DEF o
<1>6. FreeDone(gm', owned, owned', {c.p})
  BY <1>1, <1>2, <1>5, CarveOwned DEF Before, HeapInv
<1>7. CallsOk(gm', owned', calls \ {c})
  BY <1>4, <1>6, CallsLeft DEF FreeDone
<1>. QED
  BY <1>1, <1>6, <1>7 DEF After1, HeapInv, FreeDone

\* A call of ialloc that begins.
Disabling(m, o, cs, sizes, was, c) ==
    /\ HeapInv(m, o, cs) /\ ~m.use_mmap /\ Sizes(sizes)
    /\ \A d \in cs : ~InIalloc(d)
    /\ c = [op |-> "disabled", p |-> NULL, new |-> NULL, sizes |-> sizes, was_enabled |-> was]

\* The call of ialloc begins.
LEMMA IallocBegins ==
    ASSUME NEW m, NEW o, NEW cs, NEW sizes, NEW was, NEW c, Disabling(m, o, cs, sizes, was, c)
    PROVE  HeapInv(m, o, cs \cup {c})
<1>. USE DEF Disabling
<1>1. /\ c.op = "disabled" /\ c.p = NULL /\ c.new = NULL /\ c.sizes = sizes
      /\ c = [f \in {"op", "p", "new", "sizes", "was_enabled"} |-> c[f]]
  BY SMT
<1>2. CallOk(c, m, o)
  BY <1>1 DEF CallOk, InIalloc
<1>3. \A d \in cs : Blocks2(c) \cap Blocks2(d) = {} /\ ~InIalloc(d)
  BY <1>1 DEF Blocks2
<1>4. CallsOk(m, o, cs \cup {c})
  BY <1>2, <1>3, CallAdded DEF HeapInv
<1>. QED
  BY <1>4 DEF HeapInv

\* ialloc keeps the invariant when it disables mapping,
LEMMA IallocStep ==
    ASSUME Before, NEW sizes, Sizes(sizes), ialloc(sizes)
    PROVE  After1
<1>. DEFINE n == [gm EXCEPT !.use_mmap = FALSE]
            c == [op |-> "disabled", p |-> NULL, new |-> NULL, sizes |-> sizes,
                  was_enabled |-> gm.use_mmap]
<1>1. MayCall /\ gm' = n /\ calls' = calls \cup {c} /\ owned' = owned
  BY Zenon DEF ialloc, Enter
<1>2. IsState(gm)
  BY DEF Before, HeapInv, Sound, Whole
<1>3. \A v : SameHeap([gm EXCEPT !.use_mmap = v], gm) /\ [gm EXCEPT !.use_mmap = v].use_mmap = v
  BY <1>2, SettingsIs
<1>4. SameHeap(n, gm) /\ n.use_mmap = FALSE
  BY <1>3, Zenon
<1>5. c = [op |-> "disabled", p |-> NULL, new |-> NULL, sizes |-> sizes, was_enabled |-> gm.use_mmap]
  OBVIOUS
<1>. HIDE DEF n, c
<1>6. Sound(n) /\ OwnedOk(n, owned)
  BY <1>4, SameHeapIs DEF Before, HeapInv
<1>7. \A d \in calls : ~InIalloc(d)
  BY <1>1, NoneInIalloc
<1>8. StillHeld(owned, owned, {})
  BY DEF StillHeld
<1>9. CallsOk(n, owned, calls)
  BY <1>7, <1>8, CallsLeft
<1>10. Disabling(n, owned, calls, sizes, gm.use_mmap, c)
  BY <1>4, <1>5, <1>6, <1>7, <1>9 DEF Disabling, HeapInv
<1>. QED
  BY <1>1, <1>10, IallocBegins DEF After1

\* A size that is the sum of sizes of chunks is the size of one.
LEMMA SumIsRequest ==
    ASSUME NEW sizes, Sizes(sizes)
    PROVE  /\ RequestOf(sizes) = SumUpTo(sizes, Len(sizes)) /\ Request(RequestOf(sizes))
           /\ Len(sizes) \in Nat /\ DOMAIN sizes = 1..Len(sizes)
           /\ \A i \in 1..Len(sizes) : sizes[i] \in Nat
<1>1. Len(sizes) \in Nat /\ Len(sizes) # 0 /\ DOMAIN sizes = 1..Len(sizes)
      /\ \A i \in 1..Len(sizes) : sizes[i] \in MinChunk..MaxSize
  <2>. DEFINE T == MinChunk..MaxSize
  <2>. HIDE DEF T
  <2>1. sizes \in Seq(T) /\ sizes # <<>>
    BY DEF Sizes, T
  <2>2. Len(sizes) \in Nat /\ DOMAIN sizes = 1..Len(sizes) /\ \A i \in 1..Len(sizes) : sizes[i] \in T
    BY <2>1, LenProperties, ElementOfSeq
  <2>3. Len(sizes) # 0
    BY <2>1, EmptySeq
  <2>. QED
    BY <2>2, <2>3 DEF T
<1>2. \A i \in 1..Len(sizes) : sizes[i] \in Nat \ {0} /\ sizes[i] >= MinChunk
  BY <1>1, SizeAssumption DEF MinChunk
<1>3. /\ \A i \in 1..Len(sizes) : SumUpTo(sizes, i) = SumUpTo(sizes, i - 1) + sizes[i]
      /\ \A i \in 0..Len(sizes) : SumUpTo(sizes, i) \in Nat
  <2>1. \A i \in 1..Len(sizes) : sizes[i] \in Nat \ {0}
    BY <1>2
  <2>. QED
    BY <1>1, <2>1, SumUpToIs
<1>. DEFINE n == Len(sizes)
            s == SumUpTo(sizes, n)
            t == SumUpTo(sizes, n - 1)
<1>4. n \in 1..n /\ n - 1 \in 0..n /\ n \in 0..n
  BY <1>1
<1>5. s = t + sizes[n] /\ s \in Nat /\ t \in Nat /\ sizes[n] \in Nat /\ sizes[n] >= MinChunk
  BY <1>2, <1>3, <1>4
<1>6. s <= MaxSize /\ MaxSize \in Nat
  BY GranularityAssumption, SizeAssumption DEF Sizes
<1>7. ContentsSize(sizes) = Wrap(s)
  BY DEF ContentsSize
<1>8. RequestOf(sizes) = IF Wrap(s) = 0 THEN MaxSize ELSE Max({Wrap(s), MinChunk})
  BY <1>7 DEF RequestOf
<1>. HIDE DEF n, s, t
<1>10. Request(s) /\ s # 0
  BY <1>5 DEF Request, MinChunk
<1>11. Wrap(s) = s
  BY <1>5, <1>6 DEF Wrap
<1>12. Max({s, MinChunk}) = s
  BY <1>5, <1>10 DEF Max, Request, MinChunk
<1>13. RequestOf(sizes) = s
  BY <1>8, <1>10, <1>11, <1>12
<1>14. s = SumUpTo(sizes, Len(sizes))
  BY DEF s, n
<1>. QED
  BY <1>1, <1>2, <1>10, <1>13, <1>14

\* A call of ialloc that has its chunk, q, which is nobody else's.
TakingAll(m, o, c, n, o2, q, d) ==
    /\ CallOk(c, m, o) /\ c.op = "disabled"
    /\ q \in DOMAIN o2 /\ o2[q] = RequestOf(c.sizes) /\ n.chunks[q].c /\ n.chunks[q].p
    /\ d = [c EXCEPT !.op = "taken", !.p = q]

\* (the chunk it has taken belongs to the call)
LEMMA IallocTakes ==
    ASSUME NEW m, NEW o, NEW c, NEW n, NEW o2, NEW q, NEW d, TakingAll(m, o, c, n, o2, q, d)
    PROVE  CallOk(d, n, o2) /\ Blocks2(d) \subseteq {q}
<1>. USE DEF TakingAll
<1>1. /\ c = [f \in {"op", "p", "new", "sizes", "was_enabled"} |-> c[f]]
      /\ c.new = NULL /\ Sizes(c.sizes)
  BY DEF CallOk, InIalloc
<1>2. /\ d.op = "taken" /\ d.p = q /\ d.new = NULL /\ d.sizes = c.sizes
      /\ d = [f \in {"op", "p", "new", "sizes", "was_enabled"} |-> d[f]]
  <2>1. DOMAIN c = {"op", "p", "new", "sizes", "was_enabled"}
    BY <1>1
  <2>2. d = [[c EXCEPT !.op = "taken"] EXCEPT !.p = q]
    OBVIOUS
  <2>. DEFINE e == [c EXCEPT !.op = "taken"]
  <2>3. DOMAIN e = DOMAIN c /\ e["op"] = "taken" /\ e["new"] = c["new"] /\ e["sizes"] = c["sizes"]
    BY <2>1
  <2>. HIDE DEF e
  <2>4. d = [e EXCEPT !["p"] = q]
    BY <2>2 DEF e
  <2>5. /\ DOMAIN d = DOMAIN e /\ d["op"] = e["op"] /\ d["p"] = q
        /\ d["new"] = e["new"] /\ d["sizes"] = e["sizes"]
    BY ONLY <2>1, <2>3, <2>4
  <2>6. d = [f \in DOMAIN d |-> d[f]]
    BY ONLY <2>4
  <2>. QED
    BY ONLY <1>1, <2>1, <2>3, <2>5, <2>6
<1>3. CallOk(d, n, o2)
  BY <1>1, <1>2 DEF CallOk, InIalloc
<1>. QED
  BY <1>2, <1>3 DEF Blocks2

\* when it allocates,
LEMMA IallocMallocStep ==
    ASSUME Before, NEW c \in calls, IallocMalloc(c)
    PROVE  After1
<1>. DEFINE size == RequestOf(c.sizes)
<1>1. PICK o \in Malloc(gm, size) :
         /\ gm' = [o.m EXCEPT !.use_mmap = c.was_enabled \/ @] /\ Own(o.p, size)
         /\ IF o.p = NULL THEN calls' = calls \ {c}
            ELSE calls' = (calls \ {c}) \cup {[c EXCEPT !.op = "taken", !.p = o.p]}
  BY Zenon DEF IallocMalloc, Return
<1>2. c.op = "disabled"
  BY DEF IallocMalloc
<1>3. CallOk(c, gm, owned) /\ Sizes(c.sizes) /\ ~gm.use_mmap
  BY <1>2 DEF Before, HeapInv, CallsOk, CallOk, InIalloc
<1>4. Request(size)
  BY <1>3, SumIsRequest
<1>5. owned' = IF o.p = NULL THEN owned ELSE With(owned, o.p, size)
  BY <1>1 DEF Own
<1>. HIDE DEF size
<1>6. MallocDone(o, gm, owned, owned', size)
  BY <1>4, <1>5, MallocOwned DEF Before, HeapInv
<1>7. SameHeap(gm', o.m)
  <2>1. IsState(o.m)
    BY <1>6 DEF MallocDone, Sound, Whole
  <2>2. \A v : SameHeap([o.m EXCEPT !.use_mmap = v], o.m)
    BY <2>1, SettingsIs
  <2>3. gm' = [o.m EXCEPT !.use_mmap = (c.was_enabled \/ o.m.use_mmap)]
    BY <1>1, Zenon
  <2>. QED
    BY <2>2, <2>3, Zenon
<1>8. Sound(gm') /\ OwnedOk(gm', owned')
  BY <1>6, <1>7, SameHeapIs DEF MallocDone
<1>9. \A d \in calls \ {c} : ~InIalloc(d)
  BY <1>2, OthersNotInIalloc DEF InIalloc
<1>10. CallsOk(gm', owned', calls \ {c})
  BY <1>6, <1>9, CallsLeft DEF MallocDone
<1>11. CASE o.p = NULL
  BY <1>1, <1>8, <1>10, <1>11 DEF After1, HeapInv
<1>12. CASE o.p # NULL
  <2>. DEFINE d == [c EXCEPT !.op = "taken", !.p = o.p]
  <2>1. calls' = (calls \ {c}) \cup {d} /\ d = [c EXCEPT !.op = "taken", !.p = o.p]
    BY <1>1, <1>12
  <2>. HIDE DEF d
  <2>2. /\ o.p \notin DOMAIN owned /\ o.p \in DOMAIN owned' /\ owned'[o.p] = size
        /\ gm'.chunks[o.p].c /\ gm'.chunks[o.p].p
    BY <1>3, <1>6, <1>7, <1>12 DEF MallocDone, SameHeap
  <2>3. TakingAll(gm, owned, c, gm', owned', o.p, d)
    BY <1>2, <1>3, <2>1, <2>2 DEF TakingAll, size
  <2>4. CallOk(d, gm', owned') /\ Blocks2(d) \subseteq {o.p}
    BY <2>3, IallocTakes
  <2>5. \A e \in calls \ {c} : Blocks2(e) \subseteq DOMAIN owned
    BY CallBlocks DEF Before, HeapInv
  <2>6. \A e \in calls \ {c} : Blocks2(d) \cap Blocks2(e) = {}
    BY <2>2, <2>4, <2>5
  <2>7. CallsOk(gm', owned', (calls \ {c}) \cup {d})
    BY <1>9, <1>10, <2>4, <2>6, CallAdded
  <2>. QED
    BY <1>8, <2>1, <2>7 DEF After1, HeapInv
<1>. QED
  BY <1>11, <1>12

\* What ialloc leaves of what is held.
DividedOwned(m, o, p, sizes) ==
    LET starts == Starts(p, sizes) IN
      [q \in (DOMAIN o \ {p}) \cup Range(starts) |->
         IF q \in Range(starts) THEN sizes[CHOOSE i \in DOMAIN starts : starts[i] = q] ELSE o[q]]

\* (where the elements start)
LEMMA StartsRange ==
    ASSUME NEW p, NEW sizes, Len(sizes) \in Nat, DOMAIN sizes = 1..Len(sizes)
    PROVE  /\ DOMAIN Starts(p, sizes) = 1..Len(sizes)
           /\ Range(Starts(p, sizes)) = Begun(Starts(p, sizes), Len(sizes))
           /\ IsFiniteSet(Begun(Starts(p, sizes), Len(sizes)))
<1>1. DOMAIN Starts(p, sizes) = 1..Len(sizes)
  BY DEF Starts
<1>. DEFINE s == Starts(p, sizes)
            n == Len(sizes)
            T == Begun(s, n)
<1>2. s = [i \in 1..n |-> s[i]]
  BY <1>1 DEF Starts
<1>3. n \in Nat /\ DOMAIN s = 1..n
  BY <1>1
<1>. HIDE DEF s, n
<1>4. Range(s) = T
  BY <1>3 DEF Range, Begun
<1>5. s \in Surjection(1..n, T)
  BY <1>2 DEF Surjection, Begun
<1>6. IsFiniteSet(1..n)
  BY <1>3, FS_Interval
<1>. HIDE DEF T
<1>7. IsFiniteSet(T)
  BY <1>5, <1>6, FS_Surjection
<1>. QED
  BY <1>3, <1>4, <1>7 DEF s, n, T

\* The chunk p of a holder becomes the elements.
Dividing(m, o, p, sizes, n) ==
    /\ Sound(m) /\ OwnedOk(m, o) /\ p \in DOMAIN o /\ Sizes(sizes) /\ Divided(n, m, p, sizes)

\* Each element is in use, and apart from what others hold.
LEMMA DivideOwned ==
    ASSUME NEW m, NEW o, NEW p, NEW sizes, NEW n, Dividing(m, o, p, sizes, n)
    PROVE  FreeDone(n, o, DividedOwned(m, o, p, sizes), {p})
<1>. USE DEF Dividing
<1>. DEFINE starts == Starts(p, sizes)
            k == Len(sizes)
            T == Begun(starts, k)
            o2 == DividedOwned(m, o, p, sizes)
            at(q) == CHOOSE i \in DOMAIN starts : starts[i] = q
<1>1. k \in Nat /\ DOMAIN sizes = 1..k /\ \A i \in 1..k : sizes[i] \in Nat
  BY SumIsRequest
<1>2. DOMAIN starts = 1..k /\ Range(starts) = T /\ IsFiniteSet(T)
  BY <1>1, StartsRange
<1>3. o2 = [q \in (DOMAIN o \ {p}) \cup T |-> IF q \in T THEN sizes[at(q)] ELSE o[q]]
  <2>. DEFINE Is(X) == o2 = [q \in (DOMAIN o \ {p}) \cup X |-> IF q \in X THEN sizes[at(q)] ELSE o[q]]
  <2>1. Is(Range(starts))
    BY DEF DividedOwned
  <2>2. Range(starts) = T
    BY <1>2
  <2>. HIDE DEF o2, at, starts, T
  <2>. QED
    BY <2>1, <2>2
<1>4. /\ Sound(n) /\ Frame(n, m, {p}, T)
      /\ \A i \in 1..k : /\ n.chunks[starts[i]].c /\ sizes[i] <= n.chunks[starts[i]].size
                         /\ starts[i] \notin DOMAIN m.chunks \ {p}
  BY DEF Divided
<1>5. \A q \in T : at(q) \in 1..k /\ starts[at(q)] = q
  BY <1>2 DEF Begun
<1>. HIDE DEF o2, at, T, k, starts
<1>6. DOMAIN o2 = (DOMAIN o \ {p}) \cup T
  BY <1>3
<1>7. \A q \in T : o2[q] = sizes[at(q)]
  BY <1>3
<1>8. \A q \in DOMAIN o \ {p} : q \notin T => o2[q] = o[q]
  BY <1>3
<1>9. \A q \in T : o2[q] \in Nat /\ Fits(n, q, o2[q])
  BY <1>1, <1>4, <1>5, <1>7 DEF Fits
<1>10. \A q \in DOMAIN o \ {p} : q \notin T
  <2>1. \A q \in DOMAIN o : q \in DOMAIN m.chunks
    BY UsedIs DEF OwnedOk, Sound
  <2>. QED
    BY <1>4, <1>5, <2>1
<1>11. IsFiniteSet(DOMAIN o2)
  <2>. DEFINE W == DOMAIN o \ {p}
  <2>1. IsFiniteSet(W)
    BY FS_RemoveElement DEF OwnedOk
  <2>. HIDE DEF W
  <2>2. IsFiniteSet(W \cup T)
    BY <1>2, <2>1, FS_Union
  <2>. QED
    BY <1>6, <2>2 DEF W
<1>12. OwnedStep(m, o, n, o2, {p}, T)
  BY <1>4, <1>6, <1>8, <1>9, <1>11 DEF OwnedStep
<1>13. OwnedOk(n, o2)
  BY <1>12, OwnedStepOk
<1>14. FreeDone(n, o, o2, {p})
  BY <1>4, <1>6, <1>8, <1>10, <1>13 DEF FreeDone, StillHeld
<1>. QED
  BY <1>14 DEF o2

\* and when it divides.
LEMMA IallocDivideStep ==
    ASSUME Before, NEW c \in calls, IallocDivide(c)
    PROVE  After1
<1>1. /\ c.op = "taken" /\ gm' = Divide(gm, c.p, c.sizes) /\ calls' = calls \ {c}
      /\ owned' = DividedOwned(gm, owned, c.p, c.sizes)
  BY Zenon DEF IallocDivide, Return, DividedOwned
<1>2. /\ c.p \in DOMAIN owned /\ owned[c.p] = RequestOf(c.sizes) /\ Sizes(c.sizes)
      /\ gm.chunks[c.p].c /\ gm.chunks[c.p].p
  BY <1>1 DEF Before, HeapInv, CallsOk, CallOk, InIalloc
<1>3. c.p \in Used(gm) /\ c.p # NULL /\ SumUpTo(c.sizes, Len(c.sizes)) <= gm.chunks[c.p].size
  BY <1>2, SumIsRequest, OwnedNotNull DEF Before, HeapInv, OwnedOk, Fits
<1>4. Divided(gm', gm, c.p, c.sizes)
  BY <1>1, <1>2, <1>3, DivideIs DEF Before, HeapInv, Sizes
<1>5. Dividing(gm, owned, c.p, c.sizes, gm')
  BY <1>2, <1>4 DEF Dividing, Before, HeapInv
<1>6. FreeDone(gm', owned, owned', {c.p})
  BY <1>1, <1>5, DivideOwned
<1>7. \A d \in calls \ {c} : ~InIalloc(d) /\ d.p \notin {c.p} /\ d.new \notin {c.p}
  <2>1. c.p \in Blocks2(c) /\ InIalloc(c)
    BY <1>1, <1>3 DEF Blocks2, InIalloc
  <2>. QED
    BY <2>1, OthersNotInIalloc, OthersApart
<1>8. CallsOk(gm', owned', calls \ {c})
  BY <1>6, <1>7, CallsLeft DEF FreeDone
<1>. QED
  BY <1>1, <1>6, <1>8 DEF After1, HeapInv, FreeDone

\* An array of chunks held, none of them twice.
LEMMA ArrayOfHeld ==
    ASSUME Before, NEW array \in SetToAllKPermutations(Held)
    PROVE  Bulk(gm, array) /\ Range(array) = Begun(array, Len(array)) /\ Range(array) \subseteq Held
<1>1. PICK s \in SUBSET Held : array \in SetToSeqs(s)
  BY DEF SetToAllKPermutations
<1>2. Held \subseteq DOMAIN owned
  BY DEF Held
<1>3. IsFiniteSet(s)
  BY <1>2, FS_Subset DEF Before, HeapInv, OwnedOk
<1>. DEFINE n == Cardinality(s)
<1>4. n \in Nat
  BY <1>3, FS_CardinalityType
<1>5. array \in [1..n -> s] /\ \A i, j \in 1..n : i # j => array[i] # array[j]
  BY <1>1 DEF SetToSeqs
<1>. HIDE DEF n
<1>6. array \in Seq(s)
  BY <1>4, <1>5, SeqDef
<1>7. Len(array) = n
  BY <1>4, <1>5, <1>6, LenProperties
<1>8. \A p \in Held : p \in Used(gm)
  BY HeldIs
<1>9. Bulk(gm, array)
  BY <1>4, <1>5, <1>7, <1>8 DEF Bulk
<1>10. Range(array) = Begun(array, Len(array)) /\ Range(array) \subseteq Held
  BY <1>5, <1>7 DEF Range, Begun
<1>. QED
  BY <1>9, <1>10

\* dlbulk_free keeps the invariant,
LEMMA BulkFreeStep ==
    ASSUME Before, NEW array \in SetToAllKPermutations(Held), dlbulk_free(array)
    PROVE  After1
<1>. DEFINE D == Range(array)
<1>1. MayCall /\ gm' = BulkFree(gm, array) /\ owned' = Restrict(owned, DOMAIN owned \ D) /\ calls' = calls
  BY DEF dlbulk_free, Disown
<1>2. Bulk(gm, array) /\ D = Begun(array, Len(array)) /\ D \subseteq Held
  BY ArrayOfHeld
<1>. HIDE DEF D
<1>3. Freed(gm', gm, D)
  BY <1>1, <1>2, BulkFreeIs DEF Before, HeapInv
<1>4. FreeDone(gm', owned, owned', D)
  BY <1>1, <1>3, FreeOwned DEF Before, HeapInv
<1>5. \A d \in calls : ~InIalloc(d) /\ d.p \notin D /\ d.new \notin D
  BY <1>1, <1>2, HeldIs, NoneInIalloc
<1>6. CallsOk(gm', owned', calls)
  BY <1>4, <1>5, CallsLeft DEF FreeDone
<1>. QED
  BY <1>1, <1>4, <1>6 DEF After1, HeapInv, FreeDone

\* and dlmalloc_trim,
LEMMA TrimStep ==
    ASSUME Before, NEW pad \in Nat, dlmalloc_trim(pad)
    PROVE  After1
<1>1. MayCall /\ gm' = SysTrim(gm, pad) /\ owned' = owned /\ calls' = calls
  BY DEF dlmalloc_trim
<1>2. Sound(gm') /\ Frame(gm', gm, {}, {})
  BY <1>1, SysTrimIs DEF Kept, Before, HeapInv
<1>3. OwnedStep(gm, owned, gm', owned', {}, {})
  BY <1>1, <1>2 DEF OwnedStep, Before, HeapInv, OwnedOk
<1>4. OwnedOk(gm', owned')
  BY <1>3, OwnedStepOk
<1>5. StillHeld(owned, owned', {})
  BY <1>1 DEF StillHeld
<1>6. CallsOk(gm', owned', calls)
  BY <1>1, <1>5, CallsLeft, NoneInIalloc
<1>. QED
  BY <1>1, <1>2, <1>4, <1>6 DEF After1, HeapInv

\* and dlmalloc_set_footprint_limit.
LEMMA LimitStep ==
    ASSUME Before, NEW bytes, dlmalloc_set_footprint_limit(bytes)
    PROVE  After1
<1>. DEFINE v == IF bytes = MaxSize THEN 0 ELSE GranularityAlign(bytes)
<1>1. MayCall /\ gm' = [gm EXCEPT !.footprint_limit = v] /\ owned' = owned /\ calls' = calls
  BY DEF dlmalloc_set_footprint_limit
<1>. HIDE DEF v
<1>2. IsState(gm)
  BY DEF Before, HeapInv, Sound, Whole
<1>3. SameHeap(gm', gm)
  BY <1>1, <1>2, SettingsIs
<1>4. Sound(gm') /\ OwnedOk(gm', owned')
  BY <1>1, <1>3, SameHeapIs DEF Before, HeapInv
<1>5. StillHeld(owned, owned', {})
  BY <1>1 DEF StillHeld
<1>6. CallsOk(gm', owned', calls)
  BY <1>1, <1>5, CallsLeft, NoneInIalloc
<1>. QED
  BY <1>1, <1>4, <1>6 DEF After1, HeapInv

-----------------------------------------------------------------------------
(* The theorems. *)

\* The heap before the first request.
LEMMA EmptyIs ==
    HeapInv(EmptyState, <<>>, {})
<1>. DEFINE m == EmptyState
<1>1. /\ m.chunks = <<>> /\ m.bins = {} /\ m.dv = NULL /\ m.dvsize = 0 /\ m.top = NULL /\ m.topsize = 0
      /\ m.segs = <<>> /\ m.regions = <<>> /\ m.aborted = FALSE /\ m.least_addr = 0
      /\ m.footprint = 0
  BY DEF EmptyState
<1>2. IsState(m)
  BY DEF EmptyState, IsState, Fields
<1>. HIDE DEF m
<1>3. DOMAIN m.chunks = {} /\ DOMAIN m.regions = {} /\ Len(m.segs) = 0
  BY <1>1
<1>4. Ord(m.chunks) = {} /\ FreeAt(m.chunks) = {} /\ Direct(m.chunks) = {}
  BY <1>3 DEF Ord, FreeAt, Direct
<1>5. Layout(m.chunks, m.top)
  BY <1>1, <1>3, <1>4 DEF Layout
<1>6. SegmentsOk(m.chunks, m.top, m.segs)
  <2>. DEFINE T == [base : Nat \ {0}, size : Nat \ {0}, record : Nat]
  <2>1. m.segs \in Seq(T)
    <3>. HIDE DEF T
    <3>. QED
      BY <1>1, EmptySeq
  <2>. QED
    BY <1>1, <1>3, <2>1 DEF SegmentsOk
<1>7. Homes(m.chunks, m.segs)
  BY <1>3, <1>4 DEF Homes
<1>8. Spaces(m.chunks, m.segs) = {}
  BY <1>3, <1>4 DEF Spaces
<1>9. SpacesOk(Spaces(m.chunks, m.segs), m.regions)
  BY <1>3, <1>8 DEF SpacesOk
<1>10. Structure(m.chunks, m.top, m.segs, m.regions)
  BY <1>4, <1>5, <1>6, <1>7, <1>9 DEF Structure
<1>11. Low(m)
  BY <1>1, <1>3 DEF Low
<1>12. Binned(m, {})
  BY <1>1, <1>4 DEF Binned, Entries
<1>13. Sound(m)
  BY <1>1, <1>2, <1>10, <1>11, <1>12 DEF Sound, Whole
<1>14. OwnedOk(m, <<>>)
  <2>1. DOMAIN <<>> = {}
    OBVIOUS
  <2>2. Used(m) = {}
    BY <1>4 DEF Used
  <2>3. Counted(m)
    <3>1. Covered(Extent(m.regions), DOMAIN m.regions) = {}
      BY <1>3 DEF Covered
    <3>. QED
      BY <1>1, <3>1, FS_EmptySet DEF Counted
  <2>. QED
    BY <2>1, <2>2, <2>3, FS_EmptySet DEF OwnedOk
<1>15. CallsOk(m, <<>>, {})
  BY DEF CallsOk
<1>. QED
  BY <1>13, <1>14, <1>15 DEF HeapInv, m

\* The requests that callers make.
LEMMA RequestsAre ==
    /\ \A nb \in Requests \cup {MaxSize} : Request(nb)
    /\ \A r \in Aligned : r[1] \in Nat \ {0} /\ Request(r[2])
    /\ ArraysFit => \A sizes \in Elements : Sizes(sizes)
<1>1. MaxSize \in Nat /\ MaxSize >= 2
  BY SizeAssumption, GranularityAssumption
<1>2. \A nb \in MinChunk..MaxSize : Request(nb)
  BY <1>1 DEF Request, MinChunk
<1>3. Request(MaxSize)
  BY <1>1 DEF Request, MinChunk
<1>4. ArraysFit => \A sizes \in Elements : Sizes(sizes)
  BY RequestsAssumption DEF Sizes, ArraysFit
<1>. QED
  BY <1>2, <1>3, <1>4, RequestsAssumption

\* Every step of every call keeps the heap sound, what callers hold in use and
\* large enough, and the calls apart.
LEMMA HeapStep ==
    ASSUME Before, Next
    PROVE  After1
<1>1. ASSUME NEW nb \in Requests \cup {MaxSize}, dlmalloc(nb) PROVE After1
  BY <1>1, RequestsAre, MallocStep
<1>2. ASSUME NEW p \in Held, dlfree(p) PROVE After1
  BY <1>2, FreeStep
<1>3. ASSUME NEW p \in Held, NEW nb \in Requests, dlrealloc(p, nb) PROVE After1
  BY <1>3, RequestsAre, ReallocStep
<1>4. ASSUME NEW p \in Held, NEW nb \in Requests, dlrealloc_in_place(p, nb) PROVE After1
  BY <1>4, RequestsAre, ReallocInPlaceStep
<1>5. ASSUME NEW c \in calls, ReallocMove(c) PROVE After1
  BY <1>5, ReallocMoveStep
<1>6. ASSUME NEW c \in calls, ReallocFree(c) PROVE After1
  BY <1>6, ReallocFreeStep
<1>7. ASSUME NEW request \in Aligned, dlmemalign(request[1], request[2]) PROVE After1
  BY <1>7, RequestsAre, MemalignStep
<1>8. ASSUME NEW c \in calls, MemalignCarve(c) PROVE After1
  BY <1>8, MemalignCarveStep
<1>9. ASSUME NEW sizes \in Elements, ialloc(sizes) PROVE After1
  BY <1>9, RequestsAre, IallocStep DEF Before
<1>10. ASSUME NEW c \in calls, IallocMalloc(c) PROVE After1
  BY <1>10, IallocMallocStep
<1>11. ASSUME NEW c \in calls, IallocDivide(c) PROVE After1
  BY <1>11, IallocDivideStep
<1>12. ASSUME NEW array \in SetToAllKPermutations(Held), dlbulk_free(array) PROVE After1
  BY <1>12, BulkFreeStep
<1>13. ASSUME NEW pad \in Pads, dlmalloc_trim(pad) PROVE After1
  BY <1>13, ArgumentsAssumption, TrimStep
<1>14. ASSUME NEW bytes \in Limits, dlmalloc_set_footprint_limit(bytes) PROVE After1
  BY <1>14, LimitStep
<1>. QED
  BY <1>1, <1>2, <1>3, <1>4, <1>5, <1>6, <1>7, <1>8, <1>9, <1>10, <1>11, <1>12, <1>13, <1>14 DEF Next

\* The heap stays sound in every execution, callers hold exactly the chunks in use, each of the size they
\* asked for, the footprint is what the regions have, and the calls under way are about chunks of their own;
\* as in all theorems below, if ialloc has no company and no array that wraps around (dlmalloc.c:5003-5030).
THEOREM HeapInvariant == ASSUME IallocAlone, ArraysFit PROVE Spec => []HeapInv(gm, owned, calls)
<1>1. Init => HeapInv(gm, owned, calls)
  BY EmptyIs DEF Init
<1>2. HeapInv(gm, owned, calls) /\ [Next]_vars => HeapInv(gm, owned, calls)'
  <2>1. ASSUME HeapInv(gm, owned, calls), Next PROVE HeapInv(gm', owned', calls')
    BY <2>1, HeapStep DEF Before, After1
  <2>2. ASSUME HeapInv(gm, owned, calls), UNCHANGED vars PROVE HeapInv(gm', owned', calls')
    BY <2>2 DEF vars
  <2>. QED
    BY <2>1, <2>2
<1>. QED
  BY <1>1, <1>2, PTL DEF Spec

\* HeapSound of every state: segments are tiled, free chunks are in the bins and mapped chunks in their
\* regions, whatever the granularity, the requests and the order of the calls, with arrays that fit.
THEOREM HeapSoundCorrect == ASSUME IallocAlone, ArraysFit PROVE Spec => []HeapSound
<1>1. HeapInv(gm, owned, calls) => HeapSound
  BY HeapSoundIs DEF HeapInv
<1>. QED
  BY <1>1, HeapInvariant, PTL

\* No execution reaches CORRUPTION_ERROR_ACTION or USAGE_ERROR_ACTION: the checks that dlmalloc.c
\* makes of its own structures (ok_address, ok_inuse, RTCHECK) never fail.
THEOREM NeverAbortsCorrect == ASSUME IallocAlone, ArraysFit PROVE Spec => []NeverAborts
<1>1. HeapInv(gm, owned, calls) => NeverAborts
  BY DEF HeapInv, Sound, Whole, NeverAborts
<1>. QED
  BY <1>1, HeapInvariant, PTL

-----------------------------------------------------------------------------
(* What the allocator promises its callers. *)

\* The block at q, and all blocks, of the abstract heap.
BlockAt(m, o, q) ==
    [at |-> q, size |-> ChunkSize(m, q), need |-> o[q] + (IF IsMmapped(m, q) THEN 1 ELSE 0)]

BlocksOf(m, o) == {BlockAt(m, o, q) : q \in DOMAIN o}

\* What Heap says of one set of blocks,
Promised(B) ==
    /\ \A b, c \in B : b # c => b.at + b.size <= c.at \/ c.at + c.size <= b.at
    /\ \A b \in B : b.size >= b.need

\* and of two.
Step(B, C) ==
    \/ B \ C = {} /\ \E c \in C \ B : C \ B = {c}
    \/ C \ B = {}
    \/ \E b \in B \ C, c \in C \ B : b.at = c.at /\ B \ C = {b} /\ C \ B = {c}
    \/ \E b \in B \ C : /\ B \ C = {b} /\ C \ B # {}
                        /\ \A c \in C \ B : b.at <= c.at /\ c.at + c.size <= b.at + b.size

\* A block is a chunk that is held.
LEMMA BlockIs ==
    ASSUME NEW m, Sound(m), NEW o, OwnedOk(m, o), NEW q \in DOMAIN o
    PROVE  /\ BlockAt(m, o, q).at = q /\ BlockAt(m, o, q).size = m.chunks[q].size
           /\ BlockAt(m, o, q).need = o[q] + (IF m.chunks[q].c THEN 0 ELSE 1)
           /\ q \in Nat /\ m.chunks[q].size \in Nat \ {0} /\ o[q] \in Nat /\ q \in Used(m)
           /\ m.chunks[q].c \in BOOLEAN
<1>1. q \in Used(m) /\ o[q] \in Nat
  BY DEF OwnedOk
<1>2. /\ q \in Nat /\ m.chunks[q].size \in Nat \ {0} /\ ChunkSize(m, q) = m.chunks[q].size
      /\ (IsMmapped(m, q) <=> ~m.chunks[q].c) /\ HeaderOk(m.chunks[q])
  BY <1>1, UsedIs DEF Sound
<1>3. m.chunks[q].c \in BOOLEAN
  BY <1>2 DEF HeaderOk
<1>4. /\ BlockAt(m, o, q).at = q /\ BlockAt(m, o, q).size = ChunkSize(m, q)
      /\ BlockAt(m, o, q).need = o[q] + (IF IsMmapped(m, q) THEN 1 ELSE 0)
  BY DEF BlockAt
<1>5. (IF IsMmapped(m, q) THEN 1 ELSE 0) = IF m.chunks[q].c THEN 0 ELSE 1
  BY <1>2
<1>. QED
  BY <1>1, <1>2, <1>3, <1>4, <1>5

\* Two chunks that callers hold do not overlap.
LEMMA UsedApart ==
    ASSUME NEW m, Sound(m), NEW p \in Used(m), NEW q \in Used(m), p # q
    PROVE  p + m.chunks[p].size <= q \/ q + m.chunks[q].size <= p
<1>. DEFINE ch == m.chunks
<1>1. /\ Layout(ch, m.top) /\ \A x \in Direct(ch) : DirectOk(ch, x)
  BY DEF Sound, Whole, Structure
<1>2. ASSUME NEW x \in Used(m)
      PROVE  /\ x \in DOMAIN ch /\ x \in Nat /\ ch[x].size \in Nat \ {0} /\ ch[x].foot \in Nat
             /\ (x \in Ord(ch) \/ x \in Direct(ch))
  <2>1. /\ x \in DOMAIN ch /\ x \in Nat /\ ch[x].size \in Nat \ {0} /\ HeaderOk(ch[x])
    BY <1>2, UsedIs DEF Sound
  <2>2. x \in Ord(ch) \/ x \in Direct(ch)
    BY <1>2 DEF Used
  <2>. QED
    BY <2>1, <2>2 DEF HeaderOk
<1>3. ASSUME NEW x \in Used(m), NEW z \in Used(m), x # z, x \in Ord(ch)
      PROVE  z <= x \/ x + ch[x].size <= z
  <2>1. z \in DOMAIN ch
    BY <1>2, <1>3
  <2>. QED
    BY <1>1, <1>3, <2>1 DEF Layout, After
<1>4. ASSUME NEW x \in Used(m), NEW z \in Used(m), x # z, x \in Direct(ch)
      PROVE  z <= x \/ x + ch[x].size <= z
  <2>1. DirectOk(ch, x) /\ z \in DOMAIN ch
    BY <1>1, <1>2, <1>4
  <2>2. ch[After(ch, x)].size = 0 /\ z # After(ch, x)
    BY <1>2, <2>1 DEF DirectOk
  <2>3. ~(x - ch[x].foot <= z /\ z < After(ch, x) + MmapFootPad)
    BY <1>4, <2>1, <2>2 DEF DirectOk
  <2>4. x \in Nat /\ z \in Nat /\ ch[x].size \in Nat /\ ch[x].foot \in Nat
    BY <1>2
  <2>. QED
    BY <2>3, <2>4 DEF After, MmapFootPad
<1>5. ASSUME NEW x \in Used(m), NEW z \in Used(m), x # z
      PROVE  z <= x \/ x + ch[x].size <= z
  BY <1>2, <1>3, <1>4, <1>5
<1>6. (q <= p \/ p + ch[p].size <= q) /\ (p <= q \/ q + ch[q].size <= p)
  BY <1>5
<1>7. p \in Nat /\ q \in Nat
  BY <1>2
<1>. QED
  BY <1>6, <1>7

\* The blocks are apart, and as large as was asked for.
LEMMA BlocksPromised ==
    ASSUME NEW m, Sound(m), NEW o, OwnedOk(m, o)
    PROVE  Promised(BlocksOf(m, o))
<1>1. ASSUME NEW b \in BlocksOf(m, o), NEW c \in BlocksOf(m, o), b # c
      PROVE  b.at + b.size <= c.at \/ c.at + c.size <= b.at
  <2>1. PICK p \in DOMAIN o : b = BlockAt(m, o, p)
    BY DEF BlocksOf
  <2>2. PICK q \in DOMAIN o : c = BlockAt(m, o, q)
    BY DEF BlocksOf
  <2>3. p # q
    BY <1>1, <2>1, <2>2
  <2>4. b.at = p /\ b.size = m.chunks[p].size /\ p \in Used(m)
    BY <2>1, BlockIs
  <2>5. c.at = q /\ c.size = m.chunks[q].size /\ q \in Used(m)
    BY <2>2, BlockIs
  <2>. QED
    BY <2>3, <2>4, <2>5, UsedApart
<1>2. ASSUME NEW b \in BlocksOf(m, o) PROVE b.size >= b.need
  <2>1. PICK p \in DOMAIN o : b = BlockAt(m, o, p)
    BY <1>2 DEF BlocksOf
  <2>2. /\ b.size = m.chunks[p].size /\ b.need = o[p] + (IF m.chunks[p].c THEN 0 ELSE 1)
        /\ m.chunks[p].size \in Nat /\ o[p] \in Nat
    BY <2>1, BlockIs
  <2>3. Fits(m, p, o[p])
    BY DEF OwnedOk
  <2>. QED
    BY <2>2, <2>3 DEF Fits
<1>. QED
  BY <1>1, <1>2 DEF Promised

\* A step takes D from what is held and gives T; the rest is as it was.
Changed(m, o, n, o2, D, T) ==
    /\ Sound(m) /\ Sound(n) /\ OwnedOk(m, o) /\ OwnedOk(n, o2)
    /\ D \subseteq DOMAIN o /\ DOMAIN o2 = (DOMAIN o \ D) \cup T /\ T \cap (DOMAIN o \ D) = {}
    /\ \A q \in DOMAIN o \ D : /\ o2[q] = o[q] /\ n.chunks[q].size = m.chunks[q].size
                               /\ n.chunks[q].c = m.chunks[q].c

\* The blocks that are left are the same, and others are where T is.
LEMMA ChangedIs ==
    ASSUME NEW m, NEW o, NEW n, NEW o2, NEW D, NEW T, Changed(m, o, n, o2, D, T)
    PROVE  LET B == BlocksOf(m, o)  C == BlocksOf(n, o2)
           IN /\ \A b \in B : b.at \notin D => b \in C
              /\ \A b \in B : b.at \in DOMAIN o /\ b = BlockAt(m, o, b.at)
              /\ \A c \in C : c.at \notin T => c \in B
              /\ \A c \in C : c.at \in DOMAIN o2 /\ c = BlockAt(n, o2, c.at)
              /\ \A c \in C \ B : c.at \in T
              /\ \A b \in B \ C : b.at \in D
<1>. DEFINE B == BlocksOf(m, o)
            C == BlocksOf(n, o2)
<1>1. \A b \in B : b.at \in DOMAIN o /\ b = BlockAt(m, o, b.at)
  BY BlockIs DEF BlocksOf, Changed
<1>2. \A c \in C : c.at \in DOMAIN o2 /\ c = BlockAt(n, o2, c.at)
  BY BlockIs DEF BlocksOf, Changed
<1>3. \A q \in DOMAIN o \ D : q \in DOMAIN o2 /\ BlockAt(n, o2, q) = BlockAt(m, o, q)
  <2>. TAKE q \in DOMAIN o \ D
  <2>1. /\ q \in DOMAIN o2 /\ o2[q] = o[q] /\ n.chunks[q].size = m.chunks[q].size
        /\ n.chunks[q].c = m.chunks[q].c
    BY DEF Changed
  <2>2. /\ q \in Used(m) /\ q \in Used(n) /\ Whole(m) /\ Whole(n)
    BY <2>1 DEF Changed, OwnedOk, Sound
  <2>3. ChunkSize(m, q) = m.chunks[q].size /\ (IsMmapped(m, q) <=> ~m.chunks[q].c)
    BY <2>2, UsedIs
  <2>4. ChunkSize(n, q) = n.chunks[q].size /\ (IsMmapped(n, q) <=> ~n.chunks[q].c)
    BY <2>2, UsedIs
  <2>5. (IF IsMmapped(n, q) THEN 1 ELSE 0) = IF IsMmapped(m, q) THEN 1 ELSE 0
    BY <2>1, <2>3, <2>4
  <2>. QED
    BY <2>1, <2>3, <2>4, <2>5 DEF BlockAt
<1>4. \A b \in B : b.at \notin D => b \in C
  BY <1>1, <1>3 DEF BlocksOf
<1>5. \A c \in C : c.at \notin T => c \in B
  <2>. TAKE c \in C
  <2>. HAVE c.at \notin T
  <2>1. c.at \in DOMAIN o \ D
    BY <1>2 DEF Changed
  <2>. QED
    BY <1>2, <1>3, <2>1 DEF BlocksOf
<1>. HIDE DEF B, C
<1>6. (\A c \in C \ B : c.at \in T) /\ (\A b \in B \ C : b.at \in D)
  BY <1>4, <1>5
<1>. QED
  BY <1>1, <1>2, <1>4, <1>5, <1>6 DEF B, C

\* The blocks stay, or the step is one Heap allows.
Keeps(m, o, n, o2) ==
    \/ BlocksOf(n, o2) = BlocksOf(m, o)
    \/ Step(BlocksOf(m, o), BlocksOf(n, o2)) /\ Promised(BlocksOf(n, o2))

\* Nothing is taken or given:
LEMMA KeepsAll ==
    ASSUME NEW m, NEW o, NEW n, NEW o2, Changed(m, o, n, o2, {}, {})
    PROVE  Keeps(m, o, n, o2)
<1>. DEFINE B == BlocksOf(m, o)
            C == BlocksOf(n, o2)
<1>1. (\A c \in C \ B : c.at \in {}) /\ (\A b \in B \ C : b.at \in {})
  BY ChangedIs
<1>. HIDE DEF B, C
<1>2. C = B
  BY <1>1
<1>. QED
  BY <1>2 DEF Keeps, B, C

\* a block is given,
LEMMA KeepsGiven ==
    ASSUME NEW m, NEW o, NEW n, NEW o2, NEW p, p \notin DOMAIN o, Changed(m, o, n, o2, {}, {p})
    PROVE  Keeps(m, o, n, o2)
<1>. DEFINE B == BlocksOf(m, o)
            C == BlocksOf(n, o2)
            x == BlockAt(n, o2, p)
<1>1. /\ \A b \in B : b.at \in DOMAIN o
      /\ \A c \in C : c = BlockAt(n, o2, c.at)
      /\ \A c \in C \ B : c.at \in {p}
      /\ \A b \in B \ C : b.at \in {}
  BY ChangedIs
<1>2. x \in C /\ x.at = p
  BY DEF BlocksOf, Changed, BlockAt
<1>3. Promised(C)
  BY BlocksPromised DEF Changed
<1>4. \A c \in C \ B : c = x
  BY <1>1
<1>. HIDE DEF B, C, x
<1>5. C \ B = {x} /\ B \ C = {}
  BY <1>1, <1>2, <1>4
<1>6. Step(B, C)
  BY <1>5 DEF Step
<1>. QED
  BY <1>3, <1>6 DEF Keeps, B, C

\* blocks are taken,
LEMMA KeepsTaken ==
    ASSUME NEW m, NEW o, NEW n, NEW o2, NEW D, Changed(m, o, n, o2, D, {})
    PROVE  Keeps(m, o, n, o2)
<1>. DEFINE B == BlocksOf(m, o)
            C == BlocksOf(n, o2)
<1>1. \A c \in C \ B : c.at \in {}
  BY ChangedIs
<1>2. Promised(C)
  BY BlocksPromised DEF Changed
<1>. HIDE DEF B, C
<1>3. C \ B = {}
  BY <1>1
<1>4. Step(B, C)
  BY <1>3 DEF Step
<1>. QED
  BY <1>2, <1>4 DEF Keeps, B, C

\* a block is resized,
LEMMA KeepsResized ==
    ASSUME NEW m, NEW o, NEW n, NEW o2, NEW p, Changed(m, o, n, o2, {p}, {p})
    PROVE  Keeps(m, o, n, o2)
<1>. DEFINE B == BlocksOf(m, o)
            C == BlocksOf(n, o2)
            x == BlockAt(m, o, p)
            y == BlockAt(n, o2, p)
<1>1. /\ \A b \in B : b = BlockAt(m, o, b.at)
      /\ \A c \in C : c = BlockAt(n, o2, c.at)
      /\ \A c \in C \ B : c.at \in {p}
      /\ \A b \in B \ C : b.at \in {p}
  BY ChangedIs
<1>2. x \in B /\ y \in C /\ x.at = p /\ y.at = p
  BY DEF BlocksOf, Changed, BlockAt
<1>3. Promised(C)
  BY BlocksPromised DEF Changed
<1>4. (\A c \in C \ B : c = y) /\ (\A b \in B \ C : b = x)
  BY <1>1
<1>5. (y \in B => y = x) /\ (x \in C => x = y)
  BY <1>1, <1>2
<1>. HIDE DEF B, C, x, y
<1>6. CASE x = y
  <2>1. C = B
    BY <1>2, <1>4, <1>6
  <2>. QED
    BY <2>1 DEF Keeps, B, C
<1>7. CASE x # y
  <2>1. B \ C = {x} /\ C \ B = {y}
    BY <1>2, <1>4, <1>5, <1>7
  <2>2. Step(B, C)
    BY <1>2, <2>1 DEF Step
  <2>. QED
    BY <1>3, <2>2 DEF Keeps, B, C
<1>. QED
  BY <1>6, <1>7

\* and a block becomes one or more blocks inside of it.
LEMMA KeepsDivided ==
    ASSUME NEW m, NEW o, NEW n, NEW o2, NEW p, NEW T, Changed(m, o, n, o2, {p}, T),
           T # {}, \A q \in T : Within(n, q, m, p)
    PROVE  Keeps(m, o, n, o2)
<1>. DEFINE B == BlocksOf(m, o)
            C == BlocksOf(n, o2)
            x == BlockAt(m, o, p)
<1>1. /\ \A b \in B : b = BlockAt(m, o, b.at)
      /\ \A c \in C : c.at \notin T => c \in B
      /\ \A c \in C : c.at \in DOMAIN o2 /\ c = BlockAt(n, o2, c.at)
      /\ \A c \in C \ B : c.at \in T
      /\ \A b \in B \ C : b.at \in {p}
  BY ChangedIs
<1>2. x \in B /\ x.at = p /\ p \in DOMAIN o /\ p \in Nat
  BY BlockIs DEF BlocksOf, Changed, BlockAt
<1>3. Promised(C)
  BY BlocksPromised DEF Changed
<1>4. \A b \in B \ C : b = x
  BY <1>1
<1>5. \A q \in T : /\ BlockAt(n, o2, q) \in C /\ BlockAt(n, o2, q).at = q
                   /\ q \in DOMAIN o2 /\ q \notin DOMAIN o \ {p}
  BY DEF BlocksOf, Changed, BlockAt
<1>6. \A c \in C : /\ c.at \in Nat /\ c.size \in Nat \ {0} /\ c.size = n.chunks[c.at].size
  BY <1>1, BlockIs DEF Changed
<1>7. x.size = m.chunks[p].size /\ x.size \in Nat
  BY <1>2, BlockIs DEF Changed
<1>8. \A c \in C : c.at \in T => x.at <= c.at /\ c.at + c.size <= x.at + x.size
  <2>. TAKE c \in C
  <2>. HAVE c.at \in T
  <2>1. Within(n, c.at, m, p)
    OBVIOUS
  <2>. HIDE DEF x, C
  <2>. QED
    BY <1>2, <1>6, <1>7, <2>1 DEF Within
<1>9. CASE x \in C
  <2>1. \A c \in C : c.at \in T => c = x
    <3>. HIDE DEF C, x
    <3>. TAKE c \in C
    <3>. HAVE c.at \in T
    <3>1. x.at <= c.at /\ c.at + c.size <= x.at + x.size
      BY <1>8
    <3>2. /\ c.at \in Nat /\ c.size \in Nat \ {0} /\ x.at \in Nat /\ x.size \in Nat \ {0}
      BY <1>6, <1>9
    <3>3. ~(x.at + x.size <= c.at \/ c.at + c.size <= x.at)
      BY <3>1, <3>2
    <3>. QED
      BY <1>3, <1>9, <3>3 DEF Promised
  <2>. HIDE DEF B, C, x
  <2>2. C \subseteq B
    BY <1>1, <1>2, <2>1
  <2>3. B \subseteq C
    BY <1>4, <1>9
  <2>4. C = B
    BY <2>2, <2>3
  <2>. QED
    BY <2>4 DEF Keeps, B, C
<1>10. CASE x \notin C
  <2>. HIDE DEF B, C, x
  <2>1. B \ C = {x}
    BY <1>2, <1>4, <1>10
  <2>2. C \ B # {}
    <3>1. PICK q \in T : TRUE
      OBVIOUS
    <3>. DEFINE y == BlockAt(n, o2, q)
    <3>2. y \in C /\ y.at = q /\ q \notin DOMAIN o \ {p}
      BY <1>5
    <3>. HIDE DEF y
    <3>3. ASSUME y \in B PROVE FALSE
      <4>1. y = BlockAt(m, o, q)
        BY <1>1, <3>2, <3>3
      <4>2. \A b \in B : b.at \in DOMAIN o
        BY ChangedIs DEF B
      <4>3. q = p
        BY <3>2, <3>3, <4>2
      <4>4. y = x
        BY <4>1, <4>3 DEF x
      <4>. QED
        BY <1>10, <3>2, <4>4
    <3>. QED
      BY <3>2, <3>3
  <2>3. \A c \in C \ B : x.at <= c.at /\ c.at + c.size <= x.at + x.size
    BY <1>1, <1>8
  <2>4. Step(B, C)
    BY <2>1, <2>2, <2>3 DEF Step
  <2>. QED
    BY <1>3, <2>4 DEF Keeps, B, C
<1>. QED
  BY <1>9, <1>10

\* A routine took D from what is held and gave T, and so did the caller.
Framed(m, o, n, o2, D, T) ==
    /\ Sound(m) /\ Sound(n) /\ OwnedOk(m, o) /\ OwnedOk(n, o2)
    /\ D \subseteq DOMAIN o /\ DOMAIN o2 = (DOMAIN o \ D) \cup T /\ T \cap (DOMAIN o \ D) = {}
    /\ \A q \in DOMAIN o \ D : o2[q] = o[q]
    /\ Frame(n, m, D, T)

\* The rest of what is held is as it was.
LEMMA FramedIs ==
    ASSUME NEW m, NEW o, NEW n, NEW o2, NEW D, NEW T, Framed(m, o, n, o2, D, T)
    PROVE  Changed(m, o, n, o2, D, T)
<1>1. \A q \in DOMAIN o \ D : q \in Used(m) \ D
  BY DEF Framed, OwnedOk
<1>2. \A q \in DOMAIN o \ D : n.chunks[q].size = m.chunks[q].size /\ n.chunks[q].c = m.chunks[q].c
  BY <1>1 DEF Framed, Frame
<1>. QED
  BY <1>2 DEF Changed, Framed

\* An allocation,
LEMMA MallocKeeps ==
    ASSUME NEW m, Sound(m), NEW o, OwnedOk(m, o), NEW nb, Request(nb), NEW out \in Malloc(m, nb),
           NEW o2, o2 = IF out.p = NULL THEN o ELSE With(o, out.p, nb)
    PROVE  Keeps(m, o, out.m, o2)
<1>1. Met(out, m, nb)
  BY MallocIs DEF Request
<1>2. Sound(out.m) /\ OwnedOk(out.m, o2) /\ (out.p # NULL => out.p \notin DOMAIN o)
  BY MallocOwned DEF MallocDone
<1>3. CASE out.p = NULL
  <2>1. Framed(m, o, out.m, o2, {}, {})
    BY <1>1, <1>2, <1>3 DEF Met, Kept, Framed
  <2>. QED
    BY <2>1, FramedIs, KeepsAll
<1>4. CASE out.p # NULL
  <2>1. o2 = With(o, out.p, nb)
    BY <1>4
  <2>2. DOMAIN o2 = DOMAIN o \cup {out.p} /\ \A q \in DOMAIN o \ {out.p} : o2[q] = o[q]
    BY <2>1 DEF With
  <2>3. Frame(out.m, m, {}, {out.p})
    BY <1>1, <1>4 DEF Met, Took
  <2>4. Framed(m, o, out.m, o2, {}, {out.p})
    BY <1>2, <1>4, <2>2, <2>3 DEF Framed
  <2>. QED
    BY <1>2, <1>4, <2>4, FramedIs, KeepsGiven
<1>. QED
  BY <1>3, <1>4

\* a release,
LEMMA FreeKeeps ==
    ASSUME NEW m, Sound(m), NEW o, OwnedOk(m, o), NEW D \in SUBSET DOMAIN o, NEW n, Freed(n, m, D),
           NEW o2, o2 = Restrict(o, DOMAIN o \ D)
    PROVE  Keeps(m, o, n, o2)
<1>1. Frame(n, m, D, {}) /\ Sound(n)
  BY DEF Freed
<1>2. DOMAIN o2 = DOMAIN o \ D /\ \A q \in DOMAIN o \ D : o2[q] = o[q]
  BY DEF Restrict
<1>3. OwnedOk(n, o2)
  BY FreeOwned DEF FreeDone
<1>4. Framed(m, o, n, o2, D, {})
  BY <1>1, <1>2, <1>3 DEF Framed
<1>. QED
  BY <1>4, FramedIs, KeepsTaken

\* a resize,
LEMMA ResizeKeeps ==
    ASSUME NEW m, Sound(m), NEW o, OwnedOk(m, o), NEW p \in DOMAIN o, NEW nb, Request(nb),
           NEW n, Resized(n, m, p, nb), NEW o2, o2 = [o EXCEPT ![p] = nb]
    PROVE  Keeps(m, o, n, o2)
<1>1. Sound(n) /\ Frame(n, m, {p}, {p})
  BY DEF Resized
<1>2. DOMAIN o2 = DOMAIN o /\ \A q \in DOMAIN o \ {p} : o2[q] = o[q]
  OBVIOUS
<1>3. OwnedOk(n, o2)
  BY ResizeOwned DEF FreeDone
<1>4. Framed(m, o, n, o2, {p}, {p})
  BY <1>1, <1>2, <1>3 DEF Framed
<1>. QED
  BY <1>4, FramedIs, KeepsResized

\* the cut of an aligned chunk,
LEMMA CarveKeeps ==
    ASSUME NEW m, Sound(m), NEW o, OwnedOk(m, o), NEW p \in DOMAIN o, NEW q, NEW nb, Request(nb),
           NEW n, Moved(n, m, p, q, nb), NEW o2, o2 = With(Restrict(o, DOMAIN o \ {p}), q, nb)
    PROVE  Keeps(m, o, n, o2)
<1>1. Sound(n) /\ Frame(n, m, {p}, {q}) /\ q \notin Used(m) \ {p} /\ Within(n, q, m, p)
  BY DEF Moved
<1>2. /\ DOMAIN o2 = (DOMAIN o \ {p}) \cup {q}
      /\ \A x \in (DOMAIN o \ {p}) \ {q} : o2[x] = o[x]
  BY DEF With, Restrict
<1>3. q \notin DOMAIN o \ {p}
  BY <1>1 DEF OwnedOk
<1>4. OwnedOk(n, o2)
  BY CarveOwned DEF FreeDone
<1>5. Framed(m, o, n, o2, {p}, {q})
  BY <1>1, <1>2, <1>3, <1>4 DEF Framed
<1>6. Changed(m, o, n, o2, {p}, {q})
  BY <1>5, FramedIs
<1>. DEFINE T == {q}
<1>7. Changed(m, o, n, o2, {p}, T) /\ T # {} /\ \A x \in T : Within(n, x, m, p)
  BY <1>1, <1>6
<1>. HIDE DEF T
<1>. QED
  BY ONLY <1>7, KeepsDivided

\* the division of a chunk,
LEMMA DivideKeeps ==
    ASSUME NEW m, NEW o, NEW p, NEW sizes, NEW n, Dividing(m, o, p, sizes, n)
    PROVE  Keeps(m, o, n, DividedOwned(m, o, p, sizes))
<1>. DEFINE starts == Starts(p, sizes)
            k == Len(sizes)
            T == Begun(starts, k)
            o2 == DividedOwned(m, o, p, sizes)
<1>1. /\ Sound(m) /\ OwnedOk(m, o) /\ p \in DOMAIN o /\ Sizes(sizes) /\ Divided(n, m, p, sizes)
  BY DEF Dividing
<1>2. /\ FreeDone(n, o, o2, {p})
  BY DivideOwned
<1>3. k \in Nat /\ DOMAIN sizes = 1..k /\ Range(starts) = T
  <2>1. k \in Nat /\ DOMAIN sizes = 1..k
    BY <1>1, SumIsRequest
  <2>. QED
    BY <2>1, StartsRange
<1>4. DOMAIN o2 = (DOMAIN o \ {p}) \cup T
  <2>1. DOMAIN o2 = (DOMAIN o \ {p}) \cup Range(starts)
    BY DEF DividedOwned
  <2>. QED
    BY <1>3, <2>1
<1>5. \A i \in 1..k : Within(n, starts[i], m, p) /\ starts[i] \notin DOMAIN m.chunks \ {p}
  BY <1>1 DEF Divided
<1>6. Frame(n, m, {p}, T)
  BY <1>1 DEF Divided
<1>. HIDE DEF o2, starts, k
<1>7. \A q \in T : Within(n, q, m, p) /\ q \notin DOMAIN m.chunks \ {p}
  BY <1>5 DEF Begun
<1>8. T # {}
  <2>1. k # 0
    BY <1>1, EmptySeq DEF Sizes, k
  <2>2. 1 \in 1..k
    BY <1>3, <2>1
  <2>. QED
    BY <2>2 DEF Begun
<1>. HIDE DEF T
<1>9. T \cap (DOMAIN o \ {p}) = {}
  <2>1. \A q \in DOMAIN o : q \in DOMAIN m.chunks
    BY <1>1, UsedIs DEF OwnedOk, Sound
  <2>. QED
    BY <1>7, <2>1
<1>10. Sound(n) /\ OwnedOk(n, o2) /\ \A q \in DOMAIN o \ {p} : o2[q] = o[q]
  BY <1>2 DEF FreeDone, StillHeld
<1>11. Framed(m, o, n, o2, {p}, T)
  BY <1>1, <1>4, <1>6, <1>9, <1>10 DEF Framed
<1>12. Changed(m, o, n, o2, {p}, T)
  BY <1>11, FramedIs
<1>13. Keeps(m, o, n, o2)
  BY <1>7, <1>8, <1>12, KeepsDivided
<1>. QED
  BY <1>13 DEF o2

\* and what changes no chunk.
LEMMA SameBlocks ==
    ASSUME NEW m, NEW n, n.chunks = m.chunks, NEW o
    PROVE  BlocksOf(n, o) = BlocksOf(m, o)
<1>1. \A q : BlockAt(n, o, q) = BlockAt(m, o, q)
  BY DEF BlockAt, ChunkSize, IsMmapped, HeaderAt
<1>. QED
  BY <1>1 DEF BlocksOf

\* What each step of each call does to the blocks.
StepKept == Keeps(gm, owned, gm', owned')

\* A step that changes no chunk and no holder changes no block.
LEMMA NoChange ==
    ASSUME gm'.chunks = gm.chunks, owned' = owned
    PROVE  StepKept
<1>1. BlocksOf(gm', owned) = BlocksOf(gm, owned)
  BY SameBlocks
<1>. QED
  BY <1>1 DEF StepKept, Keeps

\* dlmalloc gives a block or none,
LEMMA MallocStepKeeps ==
    ASSUME Before, NEW nb, Request(nb), dlmalloc(nb)
    PROVE  StepKept
<1>1. PICK o \in Malloc(gm, nb) : gm' = o.m /\ Own(o.p, nb)
  BY DEF dlmalloc
<1>2. owned' = IF o.p = NULL THEN owned ELSE With(owned, o.p, nb)
  BY <1>1 DEF Own
<1>3. Keeps(gm, owned, o.m, owned')
  BY <1>2, MallocKeeps DEF Before, HeapInv
<1>. QED
  BY <1>1, <1>3 DEF StepKept

\* dlfree takes one,
LEMMA FreeStepKeeps ==
    ASSUME Before, NEW p \in Held, dlfree(p)
    PROVE  StepKept
<1>1. gm' = Free(gm, p) /\ owned' = Restrict(owned, DOMAIN owned \ {p})
  BY DEF dlfree, Disown
<1>2. p \in Used(gm) /\ {p} \in SUBSET DOMAIN owned
  BY HeldIs
<1>3. Freed(gm', gm, {p})
  BY <1>1, <1>2, FreeIs DEF Before, HeapInv
<1>. QED
  BY <1>1, <1>2, <1>3, FreeKeeps DEF StepKept, Before, HeapInv

\* a chunk that try_realloc_chunk keeps is resized,
LEMMA TryKeeps ==
    ASSUME Before, NEW p \in Held, NEW nb, Request(nb), NEW o, o = TryRealloc(gm, p, nb)
    PROVE  /\ o.p = NULL => o.m = gm
           /\ o.p # NULL => o.p = p /\ Keeps(gm, owned, o.m, [owned EXCEPT ![p] = nb])
<1>1. p \in DOMAIN owned /\ p \in Used(gm)
  BY HeldIs
<1>2. TriedOk(o, gm, p, nb)
  BY <1>1, TryReallocIs DEF Before, HeapInv, Request
<1>3. ASSUME o.p # NULL PROVE o.p = p /\ Keeps(gm, owned, o.m, [owned EXCEPT ![p] = nb])
  <2>1. o.p = p /\ Resized(o.m, gm, p, nb)
    BY <1>2, <1>3 DEF TriedOk
  <2>. DEFINE o2 == [owned EXCEPT ![p] = nb]
  <2>2. Keeps(gm, owned, o.m, o2)
    BY <1>1, <2>1, ResizeKeeps DEF Before, HeapInv
  <2>. QED
    BY <2>1, <2>2
<1>. QED
  BY <1>2, <1>3 DEF TriedOk

\* so dlrealloc_in_place resizes a block or changes none,
LEMMA InPlaceStepKeeps ==
    ASSUME Before, NEW p \in Held, NEW nb, Request(nb), dlrealloc_in_place(p, nb)
    PROVE  StepKept
<1>. DEFINE o == TryRealloc(gm, p, nb)
            o2 == [owned EXCEPT ![p] = nb]
<1>1. gm' = o.m /\ owned' = IF o.p = p THEN o2 ELSE owned
  BY Zenon DEF dlrealloc_in_place
<1>2. o = TryRealloc(gm, p, nb)
  OBVIOUS
<1>. HIDE DEF o
<1>3. (o.p = NULL => o.m = gm) /\ (o.p # NULL => o.p = p /\ Keeps(gm, owned, o.m, o2))
  BY <1>2, TryKeeps
<1>4. p # NULL
  BY HeldIs
<1>. HIDE DEF o2
<1>5. CASE o.p = NULL
  BY <1>1, <1>3, <1>4, <1>5, NoChange
<1>6. CASE o.p # NULL
  BY <1>1, <1>3, <1>6 DEF StepKept
<1>. QED
  BY <1>5, <1>6

\* and so does the part of dlrealloc before it moves a block,
LEMMA ReallocStepKeeps ==
    ASSUME Before, NEW p \in Held, NEW nb, Request(nb), dlrealloc(p, nb)
    PROVE  StepKept
<1>. DEFINE o == TryRealloc(gm, p, nb)
            o2 == [owned EXCEPT ![p] = nb]
<1>1. gm' = o.m /\ owned' = IF o.p # NULL THEN o2 ELSE owned
  BY Zenon DEF dlrealloc
<1>2. o = TryRealloc(gm, p, nb)
  OBVIOUS
<1>. HIDE DEF o
<1>3. (o.p = NULL => o.m = gm) /\ (o.p # NULL => o.p = p /\ Keeps(gm, owned, o.m, o2))
  BY <1>2, TryKeeps
<1>. HIDE DEF o2
<1>4. CASE o.p = NULL
  BY <1>1, <1>3, <1>4, NoChange
<1>5. CASE o.p # NULL
  BY <1>1, <1>3, <1>5 DEF StepKept
<1>. QED
  BY <1>4, <1>5

\* a move gives one block, then takes the old one,
LEMMA MoveStepKeeps ==
    ASSUME Before, NEW c \in calls, ReallocMove(c)
    PROVE  StepKept
<1>1. PICK o \in Malloc(gm, c.nb) : gm' = o.m /\ Own(o.p, c.nb)
  BY DEF ReallocMove
<1>2. owned' = IF o.p = NULL THEN owned ELSE With(owned, o.p, c.nb)
  BY <1>1 DEF Own
<1>3. Request(c.nb)
  BY DEF ReallocMove, Before, HeapInv, CallsOk, CallOk
<1>4. Keeps(gm, owned, o.m, owned')
  BY <1>2, <1>3, MallocKeeps DEF Before, HeapInv
<1>. QED
  BY <1>1, <1>4 DEF StepKept

\* (the old block is the caller's to free)
LEMMA MovedStepKeeps ==
    ASSUME Before, NEW c \in calls, ReallocFree(c)
    PROVE  StepKept
<1>1. /\ c.op = "moved" /\ gm' = Free(gm, c.p)
      /\ owned' = Restrict(owned, DOMAIN owned \ {c.p})
  BY DEF ReallocFree, Disown
<1>2. c.p \in DOMAIN owned
  BY <1>1 DEF Before, HeapInv, CallsOk, CallOk
<1>3. c.p \in Used(gm) /\ {c.p} \in SUBSET DOMAIN owned
  BY <1>2, OwnedNotNull DEF Before, HeapInv
<1>4. Freed(gm', gm, {c.p})
  BY <1>1, <1>3, FreeIs DEF Before, HeapInv
<1>. QED
  BY <1>1, <1>3, <1>4, FreeKeeps DEF StepKept, Before, HeapInv

\* an aligned block is given, and then becomes one inside of it,
LEMMA MemalignStepKeeps ==
    ASSUME Before, NEW alignment \in Nat \ {0}, NEW nb, Request(nb), dlmemalign(alignment, nb)
    PROVE  StepKept
<1>. DEFINE size == nb + alignment + MinChunk
<1>1. PICK o \in Malloc(gm, size) : gm' = o.m /\ Own(o.p, size)
  BY DEF dlmemalign
<1>2. Request(size)
  BY DEF Request, MinChunk
<1>3. owned' = IF o.p = NULL THEN owned ELSE With(owned, o.p, size)
  BY <1>1 DEF Own
<1>. HIDE DEF size
<1>4. Keeps(gm, owned, o.m, owned')
  BY <1>2, <1>3, MallocKeeps DEF Before, HeapInv
<1>. QED
  BY <1>1, <1>4 DEF StepKept

\* where MemalignCarve cuts it,
LEMMA CarveStepKeeps ==
    ASSUME Before, NEW c \in calls, MemalignCarve(c)
    PROVE  StepKept
<1>. DEFINE o == Carve(gm, c.p, c.alignment, c.nb)
<1>1. /\ c.op = "align" /\ gm' = o.m
      /\ owned' = With(Restrict(owned, DOMAIN owned \ {c.p}), o.p, c.nb)
  BY Zenon DEF MemalignCarve
<1>2. /\ c.p \in DOMAIN owned /\ Request(c.nb) /\ c.alignment \in Nat \ {0}
      /\ owned[c.p] = c.nb + c.alignment + MinChunk
  BY <1>1 DEF Before, HeapInv, CallsOk, CallOk
<1>3. c.p \in Used(gm) /\ Fits(gm, c.p, c.nb + c.alignment + MinChunk)
  BY <1>2 DEF Before, HeapInv, OwnedOk
<1>4. Moved(o.m, gm, c.p, o.p, c.nb)
  BY <1>2, <1>3, CarveIs DEF Before, HeapInv, Request
<1>. HIDE DEF o
<1>. QED
  BY <1>1, <1>2, <1>4, CarveKeeps DEF StepKept, Before, HeapInv

\* when ialloc disables mapping, no block changes;
LEMMA DisableStepKeeps ==
    ASSUME Before, NEW sizes, ialloc(sizes)
    PROVE  StepKept
<1>1. gm' = [gm EXCEPT !.use_mmap = FALSE] /\ owned' = owned
  BY Zenon DEF ialloc
<1>2. SameHeap(gm', gm)
  <2>1. IsState(gm)
    BY DEF Before, HeapInv, Sound, Whole
  <2>2. \A v : SameHeap([gm EXCEPT !.use_mmap = v], gm)
    BY <2>1, SettingsIs
  <2>. QED
    BY <1>1, <2>2, Zenon
<1>. QED
  BY <1>1, <1>2, NoChange DEF SameHeap

\* the chunk that ialloc allocates is a block of the call,
LEMMA TakeStepKeeps ==
    ASSUME Before, NEW c \in calls, IallocMalloc(c)
    PROVE  StepKept
<1>. DEFINE size == RequestOf(c.sizes)
<1>1. PICK o \in Malloc(gm, size) : gm' = [o.m EXCEPT !.use_mmap = c.was_enabled \/ @] /\ Own(o.p, size)
  BY Zenon DEF IallocMalloc
<1>2. Sizes(c.sizes)
  BY DEF IallocMalloc, Before, HeapInv, CallsOk, CallOk, InIalloc
<1>3. Request(size)
  BY <1>2, SumIsRequest
<1>4. owned' = IF o.p = NULL THEN owned ELSE With(owned, o.p, size)
  BY <1>1 DEF Own
<1>. HIDE DEF size
<1>5. Keeps(gm, owned, o.m, owned') /\ Sound(o.m)
  BY <1>3, <1>4, MallocKeeps, MallocOwned DEF Before, HeapInv, MallocDone
<1>6. gm'.chunks = o.m.chunks
  <2>1. \A v : SameHeap([o.m EXCEPT !.use_mmap = v], o.m)
    BY <1>5, SettingsIs DEF Sound, Whole
  <2>2. gm' = [o.m EXCEPT !.use_mmap = (c.was_enabled \/ o.m.use_mmap)]
    BY <1>1, Zenon
  <2>3. SameHeap(gm', o.m)
    BY <2>1, <2>2, Zenon
  <2>. QED
    BY <2>3 DEF SameHeap
<1>7. BlocksOf(gm', owned') = BlocksOf(o.m, owned')
  BY <1>6, SameBlocks
<1>. QED
  BY <1>5, <1>7 DEF StepKept, Keeps

\* which it divides in its last step;
LEMMA DivideStepKeeps ==
    ASSUME Before, NEW c \in calls, IallocDivide(c)
    PROVE  StepKept
<1>1. /\ c.op = "taken" /\ gm' = Divide(gm, c.p, c.sizes)
      /\ owned' = DividedOwned(gm, owned, c.p, c.sizes)
  BY Zenon DEF IallocDivide, DividedOwned
<1>2. /\ c.p \in DOMAIN owned /\ owned[c.p] = RequestOf(c.sizes) /\ Sizes(c.sizes)
      /\ gm.chunks[c.p].c /\ gm.chunks[c.p].p
  BY <1>1 DEF Before, HeapInv, CallsOk, CallOk, InIalloc
<1>3. c.p \in Used(gm) /\ SumUpTo(c.sizes, Len(c.sizes)) <= gm.chunks[c.p].size
  BY <1>2, SumIsRequest DEF Before, HeapInv, OwnedOk, Fits
<1>4. Divided(gm', gm, c.p, c.sizes)
  BY <1>1, <1>2, <1>3, DivideIs DEF Before, HeapInv, Sizes
<1>5. Dividing(gm, owned, c.p, c.sizes, gm')
  BY <1>2, <1>4 DEF Dividing, Before, HeapInv
<1>. QED
  BY <1>1, <1>5, DivideKeeps DEF StepKept

\* a bulk free takes all blocks of the array,
LEMMA BulkStepKeeps ==
    ASSUME Before, NEW array \in SetToAllKPermutations(Held), dlbulk_free(array)
    PROVE  StepKept
<1>. DEFINE D == Range(array)
<1>1. gm' = BulkFree(gm, array) /\ owned' = Restrict(owned, DOMAIN owned \ D)
  BY DEF dlbulk_free, Disown
<1>2. Bulk(gm, array) /\ D = Begun(array, Len(array)) /\ D \subseteq Held
  BY ArrayOfHeld
<1>. HIDE DEF D
<1>3. Freed(gm', gm, D)
  BY <1>1, <1>2, BulkFreeIs DEF Before, HeapInv
<1>4. D \in SUBSET DOMAIN owned
  BY <1>2 DEF Held
<1>. QED
  BY <1>1, <1>3, <1>4, FreeKeeps DEF StepKept, Before, HeapInv

\* and a trim leaves the blocks alone.
LEMMA TrimStepKeeps ==
    ASSUME Before, NEW pad \in Nat, dlmalloc_trim(pad)
    PROVE  StepKept
<1>1. gm' = SysTrim(gm, pad) /\ owned' = owned
  BY DEF dlmalloc_trim
<1>2. Sound(gm') /\ Frame(gm', gm, {}, {})
  BY <1>1, SysTrimIs DEF Kept, Before, HeapInv
<1>3. OwnedStep(gm, owned, gm', owned', {}, {})
  BY <1>1, <1>2 DEF OwnedStep, Before, HeapInv, OwnedOk
<1>4. OwnedOk(gm', owned')
  BY <1>3, OwnedStepOk
<1>5. Framed(gm, owned, gm', owned', {}, {})
  BY <1>1, <1>2, <1>4 DEF Framed, Before, HeapInv
<1>. QED
  BY <1>5, FramedIs, KeepsAll DEF StepKept

\* So does the footprint limit.
LEMMA LimitStepKeeps ==
    ASSUME Before, NEW bytes, dlmalloc_set_footprint_limit(bytes)
    PROVE  StepKept
<1>. DEFINE v == IF bytes = MaxSize THEN 0 ELSE GranularityAlign(bytes)
<1>1. gm' = [gm EXCEPT !.footprint_limit = v] /\ owned' = owned
  BY DEF dlmalloc_set_footprint_limit
<1>. HIDE DEF v
<1>2. IsState(gm)
  BY DEF Before, HeapInv, Sound, Whole
<1>3. SameHeap(gm', gm)
  BY <1>1, <1>2, SettingsIs
<1>. QED
  BY <1>1, <1>3, NoChange DEF SameHeap

\* Every step of every call is one that Heap allows, or changes no block.
LEMMA StepKeeps ==
    ASSUME Before, Next
    PROVE  StepKept
<1>1. ASSUME NEW nb \in Requests \cup {MaxSize}, dlmalloc(nb) PROVE StepKept
  BY <1>1, RequestsAre, MallocStepKeeps
<1>2. ASSUME NEW p \in Held, dlfree(p) PROVE StepKept
  BY <1>2, FreeStepKeeps
<1>3. ASSUME NEW p \in Held, NEW nb \in Requests, dlrealloc(p, nb) PROVE StepKept
  BY <1>3, RequestsAre, ReallocStepKeeps
<1>4. ASSUME NEW p \in Held, NEW nb \in Requests, dlrealloc_in_place(p, nb) PROVE StepKept
  BY <1>4, RequestsAre, InPlaceStepKeeps
<1>5. ASSUME NEW c \in calls, ReallocMove(c) PROVE StepKept
  BY <1>5, MoveStepKeeps
<1>6. ASSUME NEW c \in calls, ReallocFree(c) PROVE StepKept
  BY <1>6, MovedStepKeeps
<1>7. ASSUME NEW request \in Aligned, dlmemalign(request[1], request[2]) PROVE StepKept
  BY <1>7, RequestsAre, MemalignStepKeeps
<1>8. ASSUME NEW c \in calls, MemalignCarve(c) PROVE StepKept
  BY <1>8, CarveStepKeeps
<1>9. ASSUME NEW sizes \in Elements, ialloc(sizes) PROVE StepKept
  BY <1>9, DisableStepKeeps
<1>10. ASSUME NEW c \in calls, IallocMalloc(c) PROVE StepKept
  BY <1>10, TakeStepKeeps
<1>11. ASSUME NEW c \in calls, IallocDivide(c) PROVE StepKept
  BY <1>11, DivideStepKeeps
<1>12. ASSUME NEW array \in SetToAllKPermutations(Held), dlbulk_free(array) PROVE StepKept
  BY <1>12, BulkStepKeeps
<1>13. ASSUME NEW pad \in Pads, dlmalloc_trim(pad) PROVE StepKept
  BY <1>13, ArgumentsAssumption, TrimStepKeeps
<1>14. ASSUME NEW bytes \in Limits, dlmalloc_set_footprint_limit(bytes) PROVE StepKept
  BY <1>14, LimitStepKeeps
<1>. QED
  BY <1>1, <1>2, <1>3, <1>4, <1>5, <1>6, <1>7, <1>8, <1>9, <1>10, <1>11, <1>12, <1>13, <1>14 DEF Next

\* The blocks of the abstract heap are those of the chunks held.
LEMMA BlocksAre ==
    Blocks = BlocksOf(gm, owned) /\ Blocks' = BlocksOf(gm', owned')
<1>1. Blocks = BlocksOf(gm, owned)
  BY DEF Blocks, BlocksOf, BlockAt
<1>2. Blocks' = BlocksOf(gm', owned')
  BY DEF Blocks, BlocksOf, BlockAt
<1>. QED
  BY <1>1, <1>2

\* The allocator implements the abstract heap: every step of every call gives, takes back, resizes or
\* divides blocks of that call, apart from all others and as large as was asked for.
THEOREM KeepsPromiseCorrect == ASSUME IallocAlone, ArraysFit PROVE Spec => KeepsPromise
<1>1. Init => HeapSpec!Init
  BY DEF Init, HeapSpec!Init, Blocks
<1>2. HeapInv(gm, owned, calls) /\ [Next]_vars => [HeapSpec!Next]_Blocks
  <2>1. ASSUME HeapInv(gm, owned, calls), Next PROVE [HeapSpec!Next]_Blocks
    <3>. DEFINE B == BlocksOf(gm, owned)
                C == BlocksOf(gm', owned')
    <3>1. C = B \/ (Step(B, C) /\ Promised(C))
      BY <2>1, StepKeeps DEF Before, StepKept, Keeps
    <3>2. Blocks = B /\ Blocks' = C
      BY BlocksAre
    <3>. HIDE DEF B, C
    <3>3. CASE Step(B, C) /\ Promised(C)
      <4>1. HeapSpec!Apart' /\ HeapSpec!Enough'
        BY <3>2, <3>3 DEF Promised, HeapSpec!Apart, HeapSpec!Enough
      <4>2. HeapSpec!Gone = B \ C /\ HeapSpec!Given = C \ B
        BY <3>2 DEF HeapSpec!Gone, HeapSpec!Given
      <4>3. \/ HeapSpec!Gone = {} /\ \E c \in HeapSpec!Given : HeapSpec!Given = {c}
            \/ HeapSpec!Given = {}
            \/ \E b \in HeapSpec!Gone, c \in HeapSpec!Given :
                 b.at = c.at /\ HeapSpec!Gone = {b} /\ HeapSpec!Given = {c}
            \/ \E b \in HeapSpec!Gone :
                 /\ HeapSpec!Gone = {b} /\ HeapSpec!Given # {}
                 /\ \A c \in HeapSpec!Given : b.at <= c.at /\ c.at + c.size <= b.at + b.size
        BY <3>3, <4>2, Zenon DEF Step
      <4>4. HeapSpec!Allocate \/ HeapSpec!Release \/ HeapSpec!Resize \/ HeapSpec!Divide
        BY <4>3, Zenon DEF HeapSpec!Allocate, HeapSpec!Release, HeapSpec!Resize, HeapSpec!Divide
      <4>. QED
        BY <4>1, <4>4 DEF HeapSpec!Next
    <3>4. CASE C = B
      BY <3>2, <3>4
    <3>. QED
      BY <3>1, <3>3, <3>4
  <2>2. ASSUME UNCHANGED vars PROVE Blocks' = Blocks
    BY <2>2, BlocksAre DEF vars
  <2>. QED
    BY <2>1, <2>2
<1>. QED
  BY <1>1, <1>2, HeapInvariant, PTL DEF Spec, KeepsPromise, HeapSpec!Spec

-----------------------------------------------------------------------------
(* Nothing leaks. *)

\* What is in use is a caller's, or the record of a segment, or a fencepost.
LEMMA InUseIs ==
    ASSUME Sound(gm), OwnedOk(gm, owned)
    PROVE  Chunks \ FreeChunks = DOMAIN owned \cup Records \cup {p \in Chunks : gm.chunks[p] = Fence}
<1>. DEFINE ch == gm.chunks
            fences == {p \in Chunks : ch[p] = Fence}
<1>1. Whole(gm) /\ Body(ch, gm.top, gm.segs, gm.regions)
  BY StructureIsBody DEF Sound, Whole
<1>2. FreeChunks = FreeAt(ch) /\ Chunks = DOMAIN ch
  BY DEF FreeChunks, FreeAt, Chunks, IsInuse, HeaderAt
<1>3. \A q \in DOMAIN ch : q \in Nat /\ HeaderOk(ch[q])
  BY <1>1, BodyTypes
<1>4. Fence.c /\ Fence.p /\ Fence.size = 0
  BY DEF Fence, Header
<1>5. ASSUME NEW q \in DOMAIN ch, ch[q].size = 0 PROVE ch[q] = Fence
  <2>1. HeaderOk(ch[q]) /\ ch[q].c /\ ch[q].p /\ ch[q].foot = 0
    BY <1>3, <1>5 DEF HeaderOk
  <2>2. ch[q] = [f \in {"size", "c", "p", "foot"} |-> ch[q][f]]
    BY <2>1 DEF HeaderOk
  <2>3. ch[q].c = TRUE /\ ch[q].p = TRUE
    BY <2>1 DEF HeaderOk
  <2>. QED
    BY <1>5, <2>1, <2>2, <2>3, Zenon DEF Fence, Header
<1>6. Records = SegmentRecords(gm.segs)
  <2>1. DOMAIN gm.segs = 1..Len(gm.segs)
    BY <1>1, SequenceTypes DEF Body
  <2>. QED
    BY <2>1 DEF Records, SegmentRecords, Range
<1>7. ASSUME NEW r \in SegmentRecords(gm.segs) PROVE r \in Ord(ch) \ FreeAt(ch)
  <2>1. PICK j \in 1..Len(gm.segs) : gm.segs[j].record = r /\ r # NULL
    BY <1>7 DEF SegmentRecords
  <2>2. SegmentOk(ch, gm.top, gm.segs[j])
    BY <1>1 DEF Body
  <2>. QED
    BY <2>1, <2>2 DEF SegmentOk, FreeAt
<1>8. DOMAIN owned = ((Ord(ch) \ FreeAt(ch)) \cup Direct(ch)) \ SegmentRecords(gm.segs)
  BY DEF OwnedOk, Used
<1>9. ASSUME NEW q \in DOMAIN ch
      PROVE  q \notin FreeAt(ch) <=> q \in Ord(ch) \ FreeAt(ch) \/ q \in Direct(ch) \/ ch[q] = Fence
  <2>1. ch[q].size \in Nat /\ (ch[q].size = 0 => ch[q] = Fence)
    BY <1>3, <1>5 DEF HeaderOk
  <2>. QED
    BY <1>4, <2>1 DEF Ord, FreeAt, Direct
<1>10. Ord(ch) \subseteq DOMAIN ch /\ Direct(ch) \subseteq DOMAIN ch
  BY DEF Ord, Direct
<1>. QED
  BY <1>2, <1>6, <1>7, <1>8, <1>9, <1>10

\* What a space covers.
SpaceExtent(spaces) == [x \in spaces |-> x.base..(x.end - 1)]

\* The regions cover what the spaces do.
LEMMA SpacesCover ==
    ASSUME NEW spaces, NEW rg, SpacesOk(spaces, rg)
    PROVE  Covered(SpaceExtent(spaces), spaces) = Covered(Extent(rg), DOMAIN rg)
<1>1. \A x \in spaces : SpaceExtent(spaces)[x] = x.base..(x.end - 1)
  BY DEF SpaceExtent
<1>2. \A r \in DOMAIN rg : Extent(rg)[r] = r..(r + rg[r] - 1)
  BY DEF Extent
<1>3. \A x \in spaces : x.base \in Nat /\ x.end \in Nat
  BY DEF SpacesOk
<1>4. \A r \in DOMAIN rg : r \in Nat /\ rg[r] \in Nat /\ \E x \in spaces : x.base <= r /\ r + rg[r] <= x.end
  BY DEF SpacesOk
<1>5. \A x \in spaces : \A a \in x.base..(x.end - 1) : \E r \in DOMAIN rg : r <= a /\ a < r + rg[r]
  BY DEF SpacesOk
<1>6. ASSUME NEW x \in spaces, NEW a \in x.base..(x.end - 1)
      PROVE  \E r \in DOMAIN rg : a \in r..(r + rg[r] - 1)
  <2>1. PICK r \in DOMAIN rg : r <= a /\ a < r + rg[r]
    BY <1>5
  <2>2. a \in r..(r + rg[r] - 1)
    BY <1>3, <1>4, <2>1
  <2>. QED
    BY <2>2
<1>7. ASSUME NEW r \in DOMAIN rg, NEW a \in r..(r + rg[r] - 1)
      PROVE  \E x \in spaces : a \in x.base..(x.end - 1)
  <2>1. PICK x \in spaces : x.base <= r /\ r + rg[r] <= x.end
    BY <1>4
  <2>2. a \in x.base..(x.end - 1)
    BY <1>3, <1>4, <2>1
  <2>. QED
    BY <2>2
<1>. DEFINE iv == SpaceExtent(spaces)
            ex == Extent(rg)
<1>8. \A x \in spaces : \A a \in iv[x] : \E r \in DOMAIN rg : a \in ex[r]
  BY <1>1, <1>2, <1>6
<1>9. \A r \in DOMAIN rg : \A a \in ex[r] : \E x \in spaces : a \in iv[x]
  BY <1>1, <1>2, <1>7
<1>. HIDE DEF iv, ex
<1>10. Covered(iv, spaces) = Covered(ex, DOMAIN rg)
  BY <1>8, <1>9 DEF Covered
<1>. QED
  BY <1>10 DEF iv, ex

\* They are as long as what they cover.
LEMMA SpaceLengths ==
    ASSUME NEW spaces, NEW rg, SpacesOk(spaces, rg), IsFiniteSet(Covered(SpaceExtent(spaces), spaces))
    PROVE  Lengths([x \in spaces |-> x.end - x.base], SpaceExtent(spaces), spaces)
<1>. DEFINE iv == SpaceExtent(spaces)
            A == Covered(iv, spaces)
            w == [x \in spaces |-> x.end - x.base]
<1>1. \A x \in spaces : x.base \in Nat /\ x.end \in Nat /\ x.base < x.end
  BY DEF SpacesOk
<1>2. \A x, y \in spaces : x # y => x.end <= y.base \/ y.end <= x.base
  BY DEF SpacesOk, Separate
<1>3. \A x \in spaces : iv[x] = x.base..(x.end - 1)
  BY DEF SpaceExtent
<1>. HIDE DEF iv
<1>4. IsFiniteSet(spaces)
  <2>. DEFINE f == [x \in spaces |-> x.base]
  <2>1. \A x \in spaces : x.base \in A
    <3>1. \A x \in spaces : x.base \in iv[x]
      BY <1>1, <1>3
    <3>. QED
      BY <3>1 DEF Covered
  <2>2. \A x, y \in spaces : x.base = y.base => x = y
    BY <1>1, <1>2
  <2>. HIDE DEF A
  <2>3. f \in Injection(spaces, A)
    BY <2>1, <2>2 DEF Injection, IsInjective
  <2>4. IsFiniteSet(A)
    BY DEF A, iv
  <2>. HIDE DEF f
  <2>. QED
    BY <2>3, <2>4, FS_Injection
<1>5. ASSUME NEW x \in spaces PROVE IsFiniteSet(iv[x]) /\ Cardinality(iv[x]) = w[x]
  <2>. DEFINE b == x.base
              e == x.end - 1
  <2>1. b \in Int /\ e \in Int /\ ~(b > e) /\ e - b + 1 = x.end - x.base
    BY <1>1
  <2>2. iv[x] = b..e
    BY <1>3
  <2>3. w[x] = x.end - x.base
    OBVIOUS
  <2>. HIDE DEF b, e, w
  <2>4. IsFiniteSet(b..e) /\ Cardinality(b..e) = e - b + 1
    BY <2>1, FS_Interval
  <2>. QED
    BY <2>1, <2>2, <2>3, <2>4
<1>6. ASSUME NEW x \in spaces, NEW y \in spaces, x # y PROVE iv[x] \cap iv[y] = {}
  <2>1. iv[x] = x.base..(x.end - 1) /\ iv[y] = y.base..(y.end - 1) /\ (x.end <= y.base \/ y.end <= x.base)
    BY <1>2, <1>3, <1>6
  <2>2. x.base \in Nat /\ x.end \in Nat /\ y.base \in Nat /\ y.end \in Nat
    BY <1>1
  <2>. QED
    BY <2>1, <2>2
<1>. HIDE DEF w
<1>7. Lengths(w, iv, spaces)
  BY <1>4, <1>5, <1>6 DEF Lengths
<1>. QED
  BY <1>7 DEF w, iv

\* So the sum of their lengths is how much they cover.
LEMMA SpaceSumIs ==
    ASSUME NEW spaces, NEW rg, SpacesOk(spaces, rg), IsFiniteSet(Covered(SpaceExtent(spaces), spaces))
    PROVE  MapThenSumSet(LAMBDA x : x.end - x.base, spaces) = Cardinality(Covered(SpaceExtent(spaces), spaces))
<1>. DEFINE w == [x \in spaces |-> x.end - x.base]
            C(s) == CHOOSE x \in s : TRUE
            R(f) == [s \in SUBSET spaces |-> IF s = {} THEN 0
                       ELSE ((CHOOSE x \in s : TRUE).end - (CHOOSE x \in s : TRUE).base)
                            + f[s \ {CHOOSE x \in s : TRUE}]]
            g == CHOOSE f : f = R(f)
<1>1. MapThenSumSet(LAMBDA x : x.end - x.base, spaces) = g[spaces]
  BY DEF MapThenSumSet, MapThenFoldSet
<1>2. Lengths(w, SpaceExtent(spaces), spaces)
  BY SpaceLengths
<1>3. \A f : f = R(f) <=> SumsOfSets(f, w, spaces)
  <2>. TAKE f
  <2>. DEFINE Q == [s \in SUBSET spaces |-> IF s = {} THEN 0
                      ELSE w[CHOOSE x \in s : TRUE] + f[s \ {CHOOSE x \in s : TRUE}]]
  <2>1. ASSUME NEW s \in SUBSET spaces, s # {} PROVE w[C(s)] = C(s).end - C(s).base
    BY <2>1
  <2>. HIDE DEF w
  <2>2. R(f) = Q
    BY <2>1
  <2>. HIDE DEF R
  <2>3. SumsOfSets(f, w, spaces) <=> f = Q
    BY DEF SumsOfSets
  <2>. QED
    BY <2>2, <2>3
<1>. HIDE DEF w, R
<1>4. g = R(g)
  <2>1. PICK f : SumsOfSets(f, w, spaces)
    BY <1>2, SumsOfSetsExist
  <2>2. f = R(f)
    BY <1>3, <2>1
  <2>. QED
    BY <2>2
<1>. HIDE DEF g
<1>5. SumsOfSets(g, w, spaces)
  BY <1>3, <1>4
<1>. QED
  BY <1>1, <1>2, <1>5, SumsOfSetsAre

\* The regions sum up to what they cover, if that is finite.
LEMMA RegionSumIs ==
    ASSUME NEW rg, RegionsApart(rg), IsFiniteSet(Covered(Extent(rg), DOMAIN rg))
    PROVE  MapThenSumSet(LAMBDA r : rg[r], DOMAIN rg) = Cardinality(Covered(Extent(rg), DOMAIN rg))
<1>. DEFINE S == DOMAIN rg
<1>1. S \subseteq Covered(Extent(rg), S)
  <2>1. \A r \in S : r \in r..(r + rg[r] - 1) /\ Extent(rg)[r] = r..(r + rg[r] - 1)
    BY DEF RegionsApart, Extent
  <2>. QED
    BY <2>1 DEF Covered
<1>2. IsFiniteSet(S)
  BY <1>1, FS_Subset
<1>3. Lengths(rg, Extent(rg), S)
  <2>1. /\ \A r \in S : r \in Nat /\ rg[r] \in Nat \ {0}
        /\ \A r, q \in S : r # q => r + rg[r] <= q \/ q + rg[q] <= r
    BY DEF RegionsApart
  <2>2. S \in SUBSET DOMAIN rg
    OBVIOUS
  <2>. HIDE DEF S
  <2>. QED
    BY <1>2, <2>1, <2>2, ApartLengths
<1>. QED
  BY <1>3, SumSetIs

\* The spaces of the property are those of Structure.
SpacesOf ==
    {[base |-> p - gm.chunks[p].foot, end |-> EndOf(p) + MmapFootPad] : p \in Mapped}
      \cup {[base |-> s.base, end |-> s.base + s.size] : s \in Range(gm.segs)}

\* Structure speaks of the same spaces as the property.
LEMMA SpacesOfIs ==
    ASSUME Sound(gm)
    PROVE  SpacesOf = Spaces(gm.chunks, gm.segs) /\ SpacesOk(SpacesOf, gm.regions)
<1>1. Body(gm.chunks, gm.top, gm.segs, gm.regions) /\ Structure(gm.chunks, gm.top, gm.segs, gm.regions)
  BY StructureIsBody DEF Sound, Whole
<1>2. Mapped = Direct(gm.chunks)
  BY DEF Mapped, Direct, Chunks, IsMmapped, HeaderAt
<1>3. \A p \in Mapped : EndOf(p) = After(gm.chunks, p)
  BY DEF EndOf, After
<1>4. DOMAIN gm.segs = 1..Len(gm.segs)
  BY <1>1, SequenceTypes DEF Body
<1>5. Range(gm.segs) = {gm.segs[i] : i \in 1..Len(gm.segs)}
  BY <1>4 DEF Range
<1>6. SpacesOf = Spaces(gm.chunks, gm.segs)
  BY <1>2, <1>3, <1>5 DEF SpacesOf, Spaces, DirectSpace, SegmentSpace
<1>. QED
  BY <1>1, <1>6 DEF Structure

\* The invariant says that nothing leaks.
LEMMA NothingLeaksIs ==
    ASSUME Sound(gm), OwnedOk(gm, owned)
    PROVE  NothingLeaks
<1>. DEFINE rg == gm.regions
            A == Covered(Extent(rg), DOMAIN rg)
            given == MapThenSumSet(LAMBDA r : rg[r], DOMAIN rg)
<1>1. Chunks \ FreeChunks = DOMAIN owned \cup Records \cup {p \in Chunks : gm.chunks[p] = Fence}
  BY InUseIs
<1>2. SpacesOk(SpacesOf, rg)
  BY SpacesOfIs
<1>3. \A r \in DOMAIN rg : \E x \in SpacesOf : x.base <= r /\ r + rg[r] <= x.end
  BY <1>2 DEF SpacesOk
<1>4. IsFiniteSet(A) /\ gm.footprint = Cardinality(A)
  BY DEF OwnedOk, Counted
<1>5. given = Cardinality(A)
  BY <1>2, <1>4, SpacesApart, RegionSumIs
<1>6. MapThenSumSet(LAMBDA x : x.end - x.base, SpacesOf) = Cardinality(A)
  BY <1>2, <1>4, SpacesCover, SpaceSumIs
<1>. HIDE DEF A
<1>7. MapThenSumSet(LAMBDA x : x.end - x.base, SpacesOf) = given /\ gm.footprint = given
  BY <1>4, <1>5, <1>6
<1>. QED
  BY <1>1, <1>3, <1>7, Zenon DEF NothingLeaks, SpacesOf

\* NothingLeaks of every state: what is in use is a caller's, the record of a segment or a fencepost, what
\* the system gave is in segments and mapped chunks, and footprint is its sum (sys_alloc, sys_trim, munmap).
THEOREM NothingLeaksCorrect == ASSUME IallocAlone, ArraysFit PROVE Spec => []NothingLeaks
<1>1. HeapInv(gm, owned, calls) => NothingLeaks
  BY NothingLeaksIs DEF HeapInv
<1>. QED
  BY <1>1, HeapInvariant, PTL

=============================================================================
