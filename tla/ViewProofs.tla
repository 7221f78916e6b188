----------------------------- MODULE ViewProofs -----------------------------
(***************************************************************************)
(* What is seen of the events: which of them pass the filters, and what is *)
(* shown of one.                                                           *)
(*                                                                         *)
(* EventFilter: the reference counts of filters are right, no list names a *)
(* deleted filter, and DoFilter decides by the lists by key what the list  *)
(* of all filters says, whatever filters are made, loaded, dropped and     *)
(* given up in any order.                                                  *)
(*                                                                         *)
(* EventDetails: what an event takes from a registry reply, and what is    *)
(* shown of it, for all sizes, data and access masks.                      *)
(***************************************************************************)
EXTENDS EventFilter, EventDetails, FiniteSetTheorems, NaturalsInduction,
        WellFoundedInduction, SequenceTheorems, TLAPS

-----------------------------------------------------------------------------
(* Loops. *)

\* A set of natural numbers that has an element has a least one.
LEMMA LeastExists ==
    ASSUME NEW S \in SUBSET Nat, NEW x \in S
    PROVE  \E m \in S : \A y \in S : m <= y
<1>1. IsWellFoundedOn(OpToRel(<, Nat), Nat)
  BY NatLessThanWellFounded
<1>2. PICK m \in S : \A y \in S : ~ (<<y, m>> \in OpToRel(<, Nat))
  <2>1. IsWellFoundedOn(OpToRel(<, Nat), S)
    BY <1>1, IsWellFoundedOnSubset
  <2>. QED
    BY <1>1, <2>1, WFMin
<1>3. \A y \in S : ~ (y < m)
  BY <1>2 DEF OpToRel
<1>. QED
  BY <1>3

\* What holds before a loop of n rounds and is kept by each of them holds
\* after every round.
LEMMA EachRound ==
    ASSUME NEW n \in Nat, NEW P, 0 \in P, \A k \in 1..n : k - 1 \in P => k \in P
    PROVE  \A k \in 0..n : k \in P
<1>. SUFFICES ASSUME NEW b \in 0..n, b \notin P PROVE FALSE
  OBVIOUS
<1>. DEFINE Bad == {k \in 0..n : k \notin P}
<1>1. Bad \in SUBSET Nat /\ b \in Bad
  OBVIOUS
<1>2. PICK k \in Bad : \A j \in Bad : k <= j
  <2>. HIDE DEF Bad
  <2>. QED
    BY <1>1, LeastExists
<1>3. k \in 0..n /\ k \notin P /\ k # 0
  OBVIOUS
<1>4. k - 1 \in 0..n /\ ~(k <= k - 1) /\ k \in 1..n
  BY <1>3
<1>. QED
  BY <1>2, <1>3, <1>4

\* g has the states, of T, of a loop of n rounds from base.
Rounds(g, T, n, base, step) ==
    /\ g \in [0..n -> T]
    /\ g[0] = base
    /\ \A i \in 1..n : g[i] = step[i][g[i - 1]]

\* Every loop has such a function.
LEMMA Iterated ==
    ASSUME NEW T, NEW n \in Nat, NEW base \in T, NEW step \in [1..n -> [T -> T]]
    PROVE  \E g : Rounds(g, T, n, base, step)
<1>. DEFINE P(k) == \E g \in [0..k -> T] :
                      g[0] = base /\ \A i \in 1..k : g[i] = step[i][g[i - 1]]
            Bad == {k \in 0..n : ~P(k)}
<1>1. Bad = {}
  <2>1. SUFFICES ASSUME NEW b \in Bad PROVE FALSE
    OBVIOUS
  <2>2. PICK k \in Bad : \A j \in Bad : k <= j
    <3>1. Bad \in SUBSET Nat
      OBVIOUS
    <3>. HIDE DEF Bad
    <3>. QED
      BY <2>1, <3>1, LeastExists
  <2>3. k \in 0..n /\ ~P(k)
    OBVIOUS
  <2>4. k # 0
    <3>1. P(0)
      <4>. DEFINE g == [i \in 0..0 |-> base]
      <4>1. g \in [0..0 -> T] /\ g[0] = base /\ \A i \in 1..0 : g[i] = step[i][g[i - 1]]
        OBVIOUS
      <4>. HIDE DEF g
      <4>. QED
        BY <4>1
    <3>. QED
      BY <2>3, <3>1
  <2>5. k - 1 \in 0..n /\ k - 1 \notin Bad
    <3>1. k - 1 \in 0..n /\ ~(k <= k - 1)
      BY <2>3, <2>4
    <3>. HIDE DEF Bad
    <3>. QED
      BY <2>2, <3>1
  <2>6. P(k - 1)
    BY <2>5
  <2>7. PICK g \in [0..(k - 1) -> T] :
          g[0] = base /\ \A i \in 1..(k - 1) : g[i] = step[i][g[i - 1]]
    BY <2>6
  <2>. DEFINE h == [i \in 0..k |-> IF i = k THEN step[k][g[k - 1]] ELSE g[i]]
  <2>. HIDE DEF P, Bad
  <2>8. step[k][g[k - 1]] \in T
    BY <2>3, <2>4
  <2>9. h \in [0..k -> T]
    BY <2>3, <2>8
  <2>10. h[0] = base /\ \A i \in 1..k : h[i] = step[i][h[i - 1]]
    <3>1. \A i \in 0..k : h[i] = IF i = k THEN step[k][g[k - 1]] ELSE g[i]
      OBVIOUS
    <3>2. 0 \in 0..k /\ \A i \in 1..k : i \in 0..k /\ i - 1 \in 0..k /\ i - 1 # k
      BY <2>3, <2>4
    <3>3. \A i \in 1..k : i # k => i \in 1..(k - 1)
      BY <2>3
    <3>. HIDE DEF h
    <3>. QED
      BY <2>4, <2>7, <3>1, <3>2, <3>3
  <2>11. P(k)
    <3>. HIDE DEF h
    <3>. QED
      BY <2>9, <2>10 DEF P
  <2>. QED
    BY <2>3, <2>11
<1>2. n \in 0..n
  OBVIOUS
<1>3. P(n)
  <2>. HIDE DEF P
  <2>. QED
    BY <1>1, <1>2
<1>. QED
  BY <1>3 DEF Rounds

-----------------------------------------------------------------------------
(* Occurrences. *)

LEMMA OccurrencesType ==
    ASSUME NEW S, NEW l \in Seq(S), NEW n
    PROVE  /\ Occurrences(l, n) \in Nat
           /\ Occurrences(l, n) = 0 <=> \A i \in 1..Len(l) : l[i] # n
<1>. DEFINE places == {i \in 1..Len(l) : l[i] = n}
<1>1. IsFiniteSet(places)
  <2>1. IsFiniteSet(1..Len(l))
    BY FS_Interval, LenProperties
  <2>. QED
    BY <2>1, FS_Subset
<1>2. Cardinality(places) \in Nat /\ (Cardinality(places) = 0 <=> places = {})
  BY <1>1, FS_CardinalityType, FS_EmptySet
<1>. QED
  BY <1>2 DEF Occurrences

LEMMA NoneInEmpty == \A n : Occurrences(<<>>, n) = 0
<1>. TAKE n
<1>1. {i \in 1..Len(<<>>) : <<>>[i] = n} = {}
  OBVIOUS
<1>. QED
  BY <1>1, FS_EmptySet DEF Occurrences

\* A list of one filter.
LEMMA OccurrencesOne ==
    ASSUME NEW n, NEW m
    PROVE  Occurrences(<<n>>, m) = IF m = n THEN 1 ELSE 0
<1>. DEFINE places == {i \in 1..Len(<<n>>) : <<n>>[i] = m}
<1>1. places = IF m = n THEN {1} ELSE {}
  OBVIOUS
<1>2. Cardinality(places) = IF m = n THEN 1 ELSE 0
  <2>. HIDE DEF places
  <2>. QED
    BY <1>1, FS_Singleton, FS_EmptySet
<1>. QED
  BY <1>2 DEF Occurrences

\* Appending another filter.
LEMMA OccurrencesAppend ==
    ASSUME NEW S, NEW l \in Seq(S), NEW n \in S, NEW m, Occurrences(l, m) = 0, m # n
    PROVE  Occurrences(Append(l, n), m) = 0
<1>. DEFINE longer == Append(l, n)
<1>1. /\ longer \in Seq(S)
      /\ Len(longer) = Len(l) + 1
      /\ \A i \in 1..Len(l) : longer[i] = l[i]
      /\ longer[Len(l) + 1] = n
  BY AppendProperties
<1>2. \A i \in 1..Len(l) : l[i] # m
  BY OccurrencesType
<1>. HIDE DEF longer
<1>3. \A i \in 1..Len(longer) : longer[i] # m
  BY <1>1, <1>2, LenProperties
<1>4. Occurrences(longer, m) = 0
  BY <1>1, <1>3, OccurrencesType
<1>. QED
  BY <1>4 DEF longer

\* A list of numbers up to n is one of numbers up to n + 1.
LEMMA Wider ==
    ASSUME NEW n \in Nat, NEW l \in Seq(1..n)
    PROVE  l \in Seq(1..(n + 1))
<1>1. Len(l) \in Nat /\ l \in [1..Len(l) -> 1..n]
  BY LenProperties
<1>2. l \in [1..Len(l) -> 1..(n + 1)]
  BY <1>1
<1>. QED
  BY <1>1, <1>2

\* What is left when an element is removed was there before.
LEMMA RemoveAtProperties ==
    ASSUME NEW S, NEW l \in Seq(S), NEW i \in 1..Len(l)
    PROVE  /\ RemoveAt(l, i) \in Seq(S)
           /\ Len(RemoveAt(l, i)) = Len(l) - 1
           /\ \A j \in 1..(Len(l) - 1) :
                RemoveAt(l, i)[j] = IF j < i THEN l[j] ELSE l[j + 1]
<1>1. Len(l) \in Nat
  BY LenProperties
<1>. DEFINE before == SubSeq(l, 1, i - 1)
            after == SubSeq(l, i + 1, Len(l))
<1>2. before \in Seq(S) /\ Len(before) = i - 1 /\ \A j \in 1..(i - 1) : before[j] = l[j]
  BY <1>1
<1>3. /\ after \in Seq(S) /\ Len(after) = Len(l) - i
      /\ \A j \in 1..(Len(l) - i) : after[j] = l[i + j]
  BY <1>1
<1>. HIDE DEF before, after
<1>4. /\ before \o after \in Seq(S)
      /\ Len(before \o after) = Len(before) + Len(after)
      /\ \A j \in 1..(Len(before) + Len(after)) :
           (before \o after)[j] = IF j <= Len(before) THEN before[j] ELSE after[j - Len(before)]
  BY <1>2, <1>3, ConcatProperties
<1>5. ASSUME NEW j \in 1..(Len(l) - 1)
      PROVE  (before \o after)[j] = IF j < i THEN l[j] ELSE l[j + 1]
  <2>1. CASE j < i
    BY <1>1, <1>2, <1>3, <1>4, <2>1
  <2>2. CASE ~(j < i)
    <3>1. after[j - (i - 1)] = l[i + (j - (i - 1))]
      BY <1>1, <1>3, <2>2
    <3>. QED
      BY <1>1, <1>2, <1>3, <1>4, <2>2, <3>1
  <2>. QED
    BY <2>1, <2>2
<1>6. Len(before \o after) = Len(l) - 1
  BY <1>1, <1>2, <1>3, <1>4
<1>. QED
  BY <1>4, <1>5, <1>6 DEF RemoveAt, before, after

-----------------------------------------------------------------------------
(* The inductive invariant. *)

Object == [filter : Filters \cup {PidFilter(Self), PidFilter(SystemPid)},
           refs : Nat, deleted : BOOLEAN]

\* A filter is deleted exactly if its count is 0: no step counts it again.
Settled == \A n \in 1..Len(heap) : heap[n].deleted <=> heap[n].refs = 0

\* What keeps a filter of the program's copy alive: the program made it, or it
\* is one of Initialize's, or the list has it.
Kept ==
    \A i \in 1..Len(draft) :
        draft[i] \in held \cup Basic \/ Occurrences(filterList, draft[i]) # 0

FiltersIInv ==
    /\ TypeOK
    /\ Basic \subseteq 1..Len(heap)
    /\ CountsRight
    /\ Settled
    /\ Kept

-----------------------------------------------------------------------------
\* What TypeOK says of the parts.
LEMMA Parts ==
    ASSUME FiltersIInv
    PROVE  /\ heap \in Seq(Object) /\ Len(heap) \in Nat
           /\ filterList \in Seq(1..Len(heap)) /\ Len(filterList) \in Nat
           /\ draft \in Seq(1..Len(heap)) /\ Len(draft) \in Nat
           /\ held \subseteq 1..Len(heap)
           /\ \A n \in 1..Len(heap) : heap[n] \in Object /\ heap[n].refs \in Nat
           /\ \A n : Occurrences(filterList, n) \in Nat /\ Occurrences(draft, n) \in Nat
<1>1. /\ heap \in Seq(Object) /\ filterList \in Seq(1..Len(heap))
      /\ draft \in Seq(1..Len(heap)) /\ held \subseteq 1..Len(heap)
  BY DEF FiltersIInv, TypeOK, Object
<1>2. \A n \in 1..Len(heap) : heap[n] \in Object
  BY <1>1
<1>3. \A n \in 1..Len(heap) : heap[n].refs \in Nat
  BY <1>2 DEF Object
<1>4. \A n : Occurrences(filterList, n) \in Nat /\ Occurrences(draft, n) \in Nat
  BY <1>1, OccurrencesType
<1>5. Len(heap) \in Nat /\ Len(filterList) \in Nat /\ Len(draft) \in Nat
  BY <1>1, LenProperties
<1>. QED
  BY <1>1, <1>2, <1>3, <1>4, <1>5

\* A filter of count 0 is in no list.
LEMMA UncountedUnlisted ==
    ASSUME FiltersIInv, NEW n \in 1..Len(heap), heap[n].refs = 0
    PROVE  Occurrences(filterList, n) = 0 /\ Occurrences(draft, n) = 0
<1>1. filterList \in Seq(1..Len(heap)) /\ draft \in Seq(1..Len(heap))
  BY DEF FiltersIInv, TypeOK
<1>2. Occurrences(filterList, n) \in Nat
  BY <1>1, OccurrencesType
<1>3. Occurrences(filterList, n) = 0 /\ n \notin held \cup Basic
  BY <1>2 DEF FiltersIInv, CountsRight
<1>4. \A i \in 1..Len(draft) : draft[i] # n
  BY <1>3 DEF FiltersIInv, Kept
<1>. QED
  BY <1>1, <1>3, <1>4, OccurrencesType

LEMMA IInvImplies == FiltersIInv => CountsRight /\ ListsAlive
<1>. SUFFICES ASSUME FiltersIInv PROVE CountsRight /\ ListsAlive
  OBVIOUS
<1>1. ASSUME NEW n \in 1..Len(heap), heap[n].deleted
      PROVE  Occurrences(filterList, n) = 0 /\ Occurrences(draft, n) = 0
  <2>1. heap[n].refs = 0
    BY <1>1 DEF FiltersIInv, Settled
  <2>. QED
    BY <2>1, UncountedUnlisted
<1>2. CountsRight
  BY DEF FiltersIInv
<1>. QED
  BY <1>1, <1>2 DEF ListsAlive

\* The two filters of Initialize.
LEMMA FiltersInitIInv == InitFilters => FiltersIInv
<1>. SUFFICES ASSUME InitFilters PROVE FiltersIInv
  OBVIOUS
<1>. USE DEF InitFilters
<1>1. heap \in Seq(Object) /\ Len(heap) = 2
  <2>1. \A n \in 1..2 : heap[n] \in Object
    BY DEF New, Object
  <2>. QED
    BY <2>1
<1>2. \A n \in 1..2 : heap[n].refs = 2 /\ heap[n].deleted = FALSE
  BY DEF New
<1>3. filterList \in Seq(1..Len(heap)) /\ draft \in Seq(1..Len(heap)) /\ Len(draft) = 0
  BY <1>1
<1>4. TypeOK
  BY <1>1, <1>3 DEF TypeOK, Object
<1>5. \A n \in 1..2 : Occurrences(filterList, n) = 1
  <2>. TAKE n \in 1..2
  <2>1. {i \in 1..Len(<<1, 2>>) : <<1, 2>>[i] = n} = {n}
    OBVIOUS
  <2>. QED
    BY <2>1, FS_Singleton DEF Occurrences
<1>6. CountsRight
  <2>1. \A n \in 1..2 : n \notin held /\ n \in Basic
    BY DEF Basic
  <2>. QED
    BY <1>1, <1>2, <1>5, <2>1 DEF CountsRight
<1>7. Settled
  <2>. SUFFICES ASSUME NEW n \in 1..2 PROVE heap[n].deleted <=> heap[n].refs = 0
    BY <1>1 DEF Settled
  <2>1. heap[n].deleted = FALSE
    BY <1>2
  <2>2. heap[n].refs # 0
    BY <1>2
  <2>. QED
    BY <2>1, <2>2
<1>8. Kept
  BY <1>3 DEF Kept
<1>. QED
  BY <1>1, <1>4, <1>6, <1>7, <1>8 DEF FiltersIInv, Basic

\* Counting changes nothing but counts.
LEMMA ReferenceProperties ==
    ASSUME NEW h \in Seq(Object), NEW S, NEW l \in Seq(S)
    PROVE  /\ Reference(h, l) \in Seq(Object)
           /\ Len(Reference(h, l)) = Len(h)
           /\ \A n \in 1..Len(h) :
                /\ Reference(h, l)[n].refs = h[n].refs + Occurrences(l, n)
                /\ Reference(h, l)[n].deleted = h[n].deleted
<1>1. DOMAIN h = 1..Len(h) /\ Len(h) \in Nat
  BY LenProperties
<1>2. \A n \in 1..Len(h) : h[n] \in Object /\ Occurrences(l, n) \in Nat
  BY OccurrencesType
<1>. DEFINE Sum(n) == h[n].refs + Occurrences(l, n)
            More(n) == [h[n] EXCEPT !.refs = Sum(n)]
<1>3. ASSUME NEW n \in 1..Len(h)
      PROVE  /\ More(n) \in Object
             /\ More(n).refs = h[n].refs + Occurrences(l, n)
             /\ More(n).deleted = h[n].deleted
  <2>1. h[n] \in Object /\ h[n].refs \in Nat
    BY <1>2 DEF Object
  <2>2. Sum(n) \in Nat
    BY <1>2, <2>1
  <2>. HIDE DEF Sum
  <2>3. More(n) \in Object /\ More(n).refs = Sum(n) /\ More(n).deleted = h[n].deleted
    BY <2>1, <2>2 DEF Object
  <2>. QED
    BY <2>3 DEF Sum
<1>4. Reference(h, l) = [n \in 1..Len(h) |-> More(n)]
  BY <1>1 DEF Reference
<1>. HIDE DEF More
<1>. QED
  BY <1>1, <1>3, <1>4

LEMMA DereferenceProperties ==
    ASSUME NEW h \in Seq(Object), NEW S, NEW l \in Seq(S),
           \A n \in 1..Len(h) : Occurrences(l, n) <= h[n].refs
    PROVE  /\ Dereference(h, l) \in Seq(Object)
           /\ Len(Dereference(h, l)) = Len(h)
           /\ \A n \in 1..Len(h) :
                /\ Dereference(h, l)[n].refs = h[n].refs - Occurrences(l, n)
                /\ Dereference(h, l)[n].deleted
                     <=> h[n].deleted \/ h[n].refs = Occurrences(l, n)
<1>1. DOMAIN h = 1..Len(h) /\ Len(h) \in Nat
  BY LenProperties
<1>2. \A n \in 1..Len(h) : h[n] \in Object /\ Occurrences(l, n) \in Nat
  BY OccurrencesType
<1>. DEFINE Left(n) == h[n].refs - Occurrences(l, n)
            Less(n) == [h[n] EXCEPT !.refs = Left(n), !.deleted = @ \/ Left(n) = 0]
<1>3. ASSUME NEW n \in 1..Len(h)
      PROVE  /\ Less(n) \in Object
             /\ Less(n).refs = h[n].refs - Occurrences(l, n)
             /\ Less(n).deleted <=> h[n].deleted \/ h[n].refs = Occurrences(l, n)
  <2>1. Left(n) \in Nat /\ (Left(n) = 0 <=> h[n].refs = Occurrences(l, n))
    BY <1>2 DEF Object
  <2>. HIDE DEF Left
  <2>2. h[n] \in Object
    BY <1>2
  <2>3. Less(n) \in Object /\ Less(n).refs = Left(n)
    BY <2>1, <2>2 DEF Object
  <2>4. Less(n).deleted <=> h[n].deleted \/ Left(n) = 0
    BY <2>2 DEF Object
  <2>. QED
    BY <2>1, <2>3, <2>4 DEF Left
<1>4. Dereference(h, l) = [n \in 1..Len(h) |-> Less(n)]
  BY <1>1 DEF Dereference
<1>. HIDE DEF Less
<1>. QED
  BY <1>1, <1>3, <1>4

\* GetFilters: what the copy names is in the list.
LEMMA GetFiltersIInv == FiltersIInv /\ GetFilters => FiltersIInv'
<1>. SUFFICES ASSUME FiltersIInv, GetFilters PROVE FiltersIInv'
  OBVIOUS
<1>. USE DEF GetFilters
<1>1. TypeOK' /\ (Basic \subseteq 1..Len(heap))' /\ CountsRight' /\ Settled'
  BY DEF FiltersIInv, TypeOK, Basic, CountsRight, Settled
<1>2. Kept'
  <2>1. filterList \in Seq(1..Len(heap))
    BY DEF FiltersIInv, TypeOK
  <2>2. \A i \in 1..Len(filterList) : Occurrences(filterList, filterList[i]) # 0
    BY <2>1, OccurrencesType
  <2>. QED
    BY <2>2 DEF Kept
<1>. QED
  BY <1>1, <1>2 DEF FiltersIInv

\* LoadFilters counts the new list before it gives up the old one.
LEMMA LoadFiltersIInv == FiltersIInv /\ LoadFilters => FiltersIInv'
<1>. SUFFICES ASSUME FiltersIInv, LoadFilters PROVE FiltersIInv'
  OBVIOUS
<1>1. /\ heap \in Seq(Object) /\ filterList \in Seq(1..Len(heap))
      /\ draft \in Seq(1..Len(heap)) /\ held \subseteq 1..Len(heap)
  BY DEF FiltersIInv, TypeOK, Object
<1>2. /\ heap' = Dereference(Reference(heap, draft), filterList)
      /\ filterList' = draft /\ draft' = <<>> /\ held' = held
  BY DEF LoadFilters
<1>3. \A n \in 1..Len(heap) :
        /\ heap[n].refs \in Nat
        /\ Occurrences(filterList, n) \in Nat
        /\ Occurrences(draft, n) \in Nat
  BY Parts
<1>4. PICK counted \in Seq(Object) :
        /\ counted = Reference(heap, draft) /\ Len(counted) = Len(heap)
        /\ \A n \in 1..Len(heap) : /\ counted[n].refs = heap[n].refs + Occurrences(draft, n)
                                   /\ counted[n].deleted = heap[n].deleted
  BY <1>1, ReferenceProperties
<1>5. ASSUME NEW n \in 1..Len(heap)
      PROVE  Occurrences(filterList, n) <= counted[n].refs
  <2>1. heap[n].refs = Occurrences(filterList, n)
          + (IF n \in held THEN 1 ELSE 0) + (IF n \in Basic THEN 1 ELSE 0)
    BY DEF FiltersIInv, CountsRight
  <2>2. counted[n].refs = heap[n].refs + Occurrences(draft, n)
    BY <1>4
  <2>. QED
    BY <1>3, <2>1, <2>2
<1>6. PICK left \in Seq(Object) :
        /\ left = Dereference(counted, filterList) /\ Len(left) = Len(heap)
        /\ \A n \in 1..Len(heap) :
             /\ left[n].refs = counted[n].refs - Occurrences(filterList, n)
             /\ left[n].deleted
                  <=> counted[n].deleted \/ counted[n].refs = Occurrences(filterList, n)
  <2>1. \A n \in 1..Len(counted) : Occurrences(filterList, n) <= counted[n].refs
    BY <1>4, <1>5
  <2>2. /\ Dereference(counted, filterList) \in Seq(Object)
        /\ Len(Dereference(counted, filterList)) = Len(counted)
        /\ \A n \in 1..Len(counted) :
             /\ Dereference(counted, filterList)[n].refs
                  = counted[n].refs - Occurrences(filterList, n)
             /\ Dereference(counted, filterList)[n].deleted
                  <=> counted[n].deleted \/ counted[n].refs = Occurrences(filterList, n)
    <3>1. counted \in Seq(Object) /\ filterList \in Seq(1..Len(heap))
      BY <1>1, <1>4
    <3>. QED
      BY <2>1, <3>1, DereferenceProperties
  <2>. QED
    BY <1>4, <2>2
<1>7. heap' = left
  BY <1>2, <1>4, <1>6
<1>8. ASSUME NEW n \in 1..Len(heap)
      PROVE  left[n].refs = heap[n].refs + Occurrences(draft, n) - Occurrences(filterList, n)
  <2>1. left[n].refs = counted[n].refs - Occurrences(filterList, n)
    BY <1>6
  <2>2. counted[n].refs = heap[n].refs + Occurrences(draft, n)
    BY <1>4
  <2>3. /\ heap[n].refs \in Nat
        /\ Occurrences(draft, n) \in Nat /\ Occurrences(filterList, n) \in Nat
    BY <1>3
  <2>. QED
    BY <2>1, <2>2, <2>3
<1>9. ASSUME NEW n \in 1..Len(heap)
      PROVE  left[n].deleted <=> heap[n].deleted \/ left[n].refs = 0
  <2>1. left[n].refs = 0 <=> counted[n].refs = Occurrences(filterList, n)
    <3>1. left[n].refs = counted[n].refs - Occurrences(filterList, n)
      BY <1>6
    <3>2. counted[n].refs \in Nat /\ Occurrences(filterList, n) \in Nat
      <4>1. counted[n].refs = heap[n].refs + Occurrences(draft, n)
        BY <1>4
      <4>. QED
        BY <1>3, <4>1
    <3>. QED
      BY <3>1, <3>2
  <2>2. left[n].deleted
          <=> counted[n].deleted \/ counted[n].refs = Occurrences(filterList, n)
    BY <1>6
  <2>3. counted[n].deleted = heap[n].deleted
    BY <1>4
  <2>. QED
    BY <2>1, <2>2, <2>3
<1>10. TypeOK' /\ (Basic \subseteq 1..Len(heap))'
  <2>1. draft' \in Seq(1..Len(heap'))
    BY <1>2
  <2>2. heap' \in Seq(Object) /\ Len(heap') = Len(heap)
    BY <1>6, <1>7
  <2>. QED
    BY <1>1, <1>2, <2>1, <2>2 DEF FiltersIInv, TypeOK, Object, Basic
<1>11. CountsRight'
  <2>1. ASSUME NEW n \in 1..Len(heap)
        PROVE  left[n].refs = Occurrences(draft, n)
                 + (IF n \in held THEN 1 ELSE 0) + (IF n \in Basic THEN 1 ELSE 0)
    <3>1. heap[n].refs = Occurrences(filterList, n)
            + (IF n \in held THEN 1 ELSE 0) + (IF n \in Basic THEN 1 ELSE 0)
      BY DEF FiltersIInv, CountsRight
    <3>2. left[n].refs = heap[n].refs + Occurrences(draft, n) - Occurrences(filterList, n)
      BY <1>8
    <3>3. /\ Occurrences(filterList, n) \in Nat
          /\ Occurrences(draft, n) \in Nat
      BY <1>3
    <3>. QED
      BY <3>1, <3>2, <3>3
  <2>. QED
    BY <1>2, <1>6, <1>7, <2>1 DEF CountsRight, Basic
<1>12. Settled'
  <2>1. ASSUME NEW n \in 1..Len(heap), heap[n].deleted
        PROVE  left[n].refs = 0
    <3>1. heap[n].refs = 0
      BY <2>1 DEF FiltersIInv, Settled
    <3>2. Occurrences(filterList, n) = 0 /\ Occurrences(draft, n) = 0
      BY <3>1, UncountedUnlisted
    <3>3. left[n].refs = heap[n].refs + Occurrences(draft, n) - Occurrences(filterList, n)
      BY <1>8
    <3>. QED
      BY <3>1, <3>2, <3>3
  <2>. QED
    BY <1>6, <1>7, <1>9, <2>1 DEF Settled
<1>13. Kept'
  <2>1. Len(draft') = 0
    BY <1>2
  <2>. QED
    BY <2>1 DEF Kept
<1>. QED
  BY <1>10, <1>11, <1>12, <1>13 DEF FiltersIInv

\* A new filter is counted by the program that made it, and by nothing else.
LEMMA AddFilterIInv ==
    ASSUME FiltersIInv, NEW f \in Filters, AddFilter(f)
    PROVE  FiltersIInv'
<1>. DEFINE k == Len(heap) + 1
<1>1. /\ heap \in Seq(Object) /\ filterList \in Seq(1..Len(heap))
      /\ draft \in Seq(1..Len(heap)) /\ held \subseteq 1..Len(heap) /\ Len(heap) \in Nat
  BY DEF FiltersIInv, TypeOK, Object
<1>2. New(f) \in Object /\ New(f).refs = 1 /\ New(f).deleted = FALSE
  BY DEF New, Object
<1>3. /\ heap' \in Seq(Object) /\ Len(heap') = k
      /\ \A n \in 1..Len(heap) : heap'[n] = heap[n]
      /\ heap'[k] = New(f)
  <2>1. heap' = Append(heap, New(f))
    BY DEF AddFilter
  <2>. QED
    BY <1>1, <1>2, <2>1, AppendProperties
<1>4. /\ draft' \in Seq(1..k) /\ Len(draft') = Len(draft) + 1
      /\ \A i \in 1..Len(draft) : draft'[i] = draft[i]
      /\ draft'[Len(draft) + 1] = k
  <2>1. draft' = Append(draft, k) /\ draft \in Seq(1..k)
    BY <1>1, <1>3, Wider DEF AddFilter
  <2>. QED
    BY <1>1, <2>1, AppendProperties
<1>5. held' = held \cup {k} /\ filterList' = filterList
  BY <1>3 DEF AddFilter
<1>6. TypeOK' /\ (Basic \subseteq 1..Len(heap))'
  <2>1. filterList' \in Seq(1..k)
    BY <1>1, <1>5, Wider
  <2>3. held' \subseteq 1..k
    <3>1. k \in 1..k /\ 1..Len(heap) \subseteq 1..k
      BY <1>1
    <3>. HIDE DEF k
    <3>. QED
      BY <1>1, <1>5, <3>1
  <2>2. Basic \subseteq 1..k
    BY <1>1 DEF FiltersIInv, Basic
  <2>. QED
    BY <1>3, <1>4, <2>1, <2>2, <2>3 DEF TypeOK, Object, Basic
<1>7. CountsRight'
  <2>1. Occurrences(filterList, k) = 0
    <3>1. \A i \in 1..Len(filterList) : filterList[i] # k
      BY <1>1
    <3>. QED
      BY <1>1, <3>1, OccurrencesType
  <2>2. k \notin Basic
    BY <1>1 DEF FiltersIInv
  <2>3. ASSUME NEW n \in 1..Len(heap)
        PROVE  heap'[n].refs = Occurrences(filterList', n)
                 + (IF n \in held' THEN 1 ELSE 0) + (IF n \in Basic THEN 1 ELSE 0)
    <3>1. n # k
      BY <1>1
    <3>. QED
      BY <1>3, <1>5, <3>1 DEF FiltersIInv, CountsRight
  <2>4. heap'[k].refs = Occurrences(filterList', k)
          + (IF k \in held' THEN 1 ELSE 0) + (IF k \in Basic THEN 1 ELSE 0)
    BY <1>2, <1>3, <1>5, <2>1, <2>2
  <2>5. \A n \in 1..k : n \in 1..Len(heap) \/ n = k
    BY <1>1
  <2>. QED
    BY <1>3, <2>3, <2>4, <2>5 DEF CountsRight, Basic
<1>8. Settled'
  <2>1. ASSUME NEW n \in 1..Len(heap')
        PROVE  heap'[n].deleted <=> heap'[n].refs = 0
    <3>1. n \in 1..Len(heap) \/ n = k
      BY <1>1, <1>3
    <3>2. CASE n \in 1..Len(heap)
      BY <1>3, <3>2 DEF FiltersIInv, Settled
    <3>3. CASE n = k
      BY <1>2, <1>3, <3>3
    <3>. QED
      BY <3>1, <3>2, <3>3
  <2>. QED
    BY <2>1 DEF Settled
<1>9. Kept'
  <2>1. ASSUME NEW i \in 1..Len(draft')
        PROVE  draft'[i] \in held' \cup Basic \/ Occurrences(filterList, draft'[i]) # 0
    <3>1. i \in 1..Len(draft) \/ i = Len(draft) + 1
      BY <1>4, Parts
    <3>2. CASE i \in 1..Len(draft)
      BY <1>4, <1>5, <3>2 DEF FiltersIInv, Kept
    <3>3. CASE i = Len(draft) + 1
      BY <1>4, <1>5, <3>3
    <3>. QED
      BY <3>1, <3>2, <3>3
  <2>. QED
    BY <1>5, <2>1 DEF Kept, Basic
<1>. QED
  BY <1>6, <1>7, <1>8, <1>9 DEF FiltersIInv

\* Dropping a filter of the copy counts nothing.
LEMMA RemoveFilterIInv ==
    ASSUME FiltersIInv, NEW i \in 1..Len(draft), RemoveFilter(i)
    PROVE  FiltersIInv'
<1>1. draft \in Seq(1..Len(heap)) /\ Len(draft) \in Nat
  BY DEF FiltersIInv, TypeOK
<1>2. /\ draft' = RemoveAt(draft, i)
      /\ heap' = heap /\ filterList' = filterList /\ held' = held
  BY DEF RemoveFilter
<1>3. /\ draft' \in Seq(1..Len(heap)) /\ Len(draft') = Len(draft) - 1
      /\ \A j \in 1..(Len(draft) - 1) :
           draft'[j] = IF j < i THEN draft[j] ELSE draft[j + 1]
  BY <1>1, <1>2, RemoveAtProperties
<1>4. TypeOK' /\ (Basic \subseteq 1..Len(heap))' /\ CountsRight' /\ Settled'
  BY <1>2, <1>3 DEF FiltersIInv, TypeOK, Basic, CountsRight, Settled
<1>5. ASSUME NEW j \in 1..Len(draft')
      PROVE  \E o \in 1..Len(draft) : draft'[j] = draft[o]
  <2>1. j \in 1..(Len(draft) - 1) /\ j \in 1..Len(draft) /\ j + 1 \in 1..Len(draft)
    BY <1>1, <1>3
  <2>2. draft'[j] = draft[j] \/ draft'[j] = draft[j + 1]
    BY <1>3, <2>1
  <2>. QED
    BY <2>1, <2>2
<1>6. Kept'
  BY <1>2, <1>5 DEF FiltersIInv, Kept, Basic
<1>. QED
  BY <1>4, <1>6 DEF FiltersIInv

\* A filter that is given up is not in the copy, and lives on if it is listed.
LEMMA ReleaseIInv ==
    ASSUME FiltersIInv, NEW n \in held, Release(n)
    PROVE  FiltersIInv'
<1>1. /\ heap \in Seq(Object) /\ filterList \in Seq(1..Len(heap))
      /\ draft \in Seq(1..Len(heap)) /\ held \subseteq 1..Len(heap)
  BY DEF FiltersIInv, TypeOK, Object
<1>2. /\ heap' = Dereference(heap, <<n>>) /\ held' = held \ {n}
      /\ filterList' = filterList /\ draft' = draft
      /\ Occurrences(draft, n) = 0
  BY DEF Release
<1>3. \A m \in 1..Len(heap) : heap[m].refs \in Nat /\ Occurrences(filterList, m) \in Nat
  BY Parts
<1>4. \A m \in 1..Len(heap) : Occurrences(<<n>>, m) <= heap[m].refs
  BY <1>3, OccurrencesOne DEF FiltersIInv, CountsRight
<1>5. /\ heap' \in Seq(Object) /\ Len(heap') = Len(heap)
      /\ \A m \in 1..Len(heap) :
           /\ heap'[m].refs = heap[m].refs - Occurrences(<<n>>, m)
           /\ heap'[m].deleted <=> heap[m].deleted \/ heap[m].refs = Occurrences(<<n>>, m)
  <2>. DEFINE one == <<n>>
  <2>1. one \in Seq(held)
    OBVIOUS
  <2>2. heap' = Dereference(heap, one) /\ \A m \in 1..Len(heap) : Occurrences(one, m) <= heap[m].refs
    BY <1>2, <1>4
  <2>. HIDE DEF one
  <2>3. /\ heap' \in Seq(Object) /\ Len(heap') = Len(heap)
        /\ \A m \in 1..Len(heap) :
             /\ heap'[m].refs = heap[m].refs - Occurrences(one, m)
             /\ heap'[m].deleted <=> heap[m].deleted \/ heap[m].refs = Occurrences(one, m)
    BY <1>1, <2>1, <2>2, DereferenceProperties
  <2>. QED
    BY <2>3 DEF one
<1>6. TypeOK' /\ (Basic \subseteq 1..Len(heap))'
  BY <1>1, <1>2, <1>5 DEF FiltersIInv, TypeOK, Object, Basic
<1>7. CountsRight'
  <2>1. ASSUME NEW m \in 1..Len(heap)
        PROVE  heap'[m].refs = Occurrences(filterList, m)
                 + (IF m \in held' THEN 1 ELSE 0) + (IF m \in Basic THEN 1 ELSE 0)
    <3>1. heap[m].refs = Occurrences(filterList, m)
            + (IF m \in held THEN 1 ELSE 0) + (IF m \in Basic THEN 1 ELSE 0)
      BY DEF FiltersIInv, CountsRight
    <3>2. heap'[m].refs = heap[m].refs - (IF m = n THEN 1 ELSE 0)
      BY <1>5, OccurrencesOne
    <3>3. Occurrences(filterList, m) \in Nat
      BY <1>3
    <3>. QED
      BY <1>2, <3>1, <3>2, <3>3
  <2>. QED
    BY <1>2, <1>5, <2>1 DEF CountsRight, Basic
<1>8. Settled'
  <2>1. ASSUME NEW m \in 1..Len(heap)
        PROVE  heap'[m].deleted <=> heap'[m].refs = 0
    <3>1. CASE m = n
      <4>1. heap[m].refs # 0
        BY <1>3, <3>1 DEF FiltersIInv, CountsRight
      <4>2. ~heap[m].deleted
        BY <4>1 DEF FiltersIInv, Settled
      <4>. QED
        BY <1>3, <1>5, <3>1, <4>2, OccurrencesOne
    <3>2. CASE m # n
      BY <1>3, <1>5, <3>2, OccurrencesOne DEF FiltersIInv, Settled
    <3>. QED
      BY <3>1, <3>2
  <2>. QED
    BY <1>5, <2>1 DEF Settled
<1>9. Kept'
  <2>1. \A i \in 1..Len(draft) : draft[i] # n
    BY <1>1, <1>2, OccurrencesType
  <2>. QED
    BY <1>2, <2>1 DEF FiltersIInv, Kept, Basic
<1>. QED
  BY <1>6, <1>7, <1>8, <1>9 DEF FiltersIInv

-----------------------------------------------------------------------------
(* The theorems. *)

THEOREM FiltersInvariance == SpecFilters => []FiltersIInv
<1>1. FiltersIInv /\ [NextFilters]_filterVars => FiltersIInv'
  <2>. SUFFICES ASSUME FiltersIInv, [NextFilters]_filterVars PROVE FiltersIInv'
    OBVIOUS
  <2>1. CASE GetFilters
    BY <2>1, GetFiltersIInv
  <2>2. CASE LoadFilters
    BY <2>2, LoadFiltersIInv
  <2>3. ASSUME NEW f \in Filters, AddFilter(f) PROVE FiltersIInv'
    BY <2>3, AddFilterIInv
  <2>4. ASSUME NEW i \in 1..Len(draft), RemoveFilter(i) PROVE FiltersIInv'
    BY <2>4, RemoveFilterIInv
  <2>5. ASSUME NEW n \in held, Release(n) PROVE FiltersIInv'
    BY <2>5, ReleaseIInv
  <2>6. CASE UNCHANGED filterVars
    BY <2>6 DEF filterVars, FiltersIInv, TypeOK, Basic, CountsRight, Settled, Kept
  <2>. QED
    BY <2>1, <2>2, <2>3, <2>4, <2>5, <2>6 DEF NextFilters
<1>. QED
  BY FiltersInitIInv, <1>1, PTL DEF SpecFilters

\* The count of a filter is the number of references to it.
THEOREM CountsCorrect == SpecFilters => []CountsRight
<1>1. FiltersIInv => CountsRight
  BY IInvImplies
<1>. QED
  BY FiltersInvariance, <1>1, PTL

\* Neither the list of the manager nor the program's copy names a deleted
\* filter.
THEOREM ListedFiltersLive == SpecFilters => []ListsAlive
<1>1. FiltersIInv => ListsAlive
  BY IInvImplies
<1>. QED
  BY FiltersInvariance, <1>1, PTL

-----------------------------------------------------------------------------
\* kl has the filters of l up to n of one key, in their order.
Selection(h, l, n, key, kl) ==
    \E pos \in [1..Len(kl) -> 1..n] :
      /\ \A i, j \in 1..Len(kl) : i < j => pos[i] < pos[j]
      /\ \A j \in 1..Len(kl) : kl[j] = l[pos[j]] /\ Key(h[l[pos[j]]].filter) = key
      /\ \A i \in 1..n : Key(h[l[i]].filter) = key => \E j \in 1..Len(kl) : pos[j] = i

\* One round of the loop of LoadFilters.
LEMMA SelectOne ==
    ASSUME NEW h, NEW S, NEW l \in Seq(S), NEW n \in Nat, n + 1 \in 1..Len(l), NEW key,
           NEW kl \in Seq(S), Selection(h, l, n, key, kl)
    PROVE  /\ Key(h[l[n + 1]].filter) = key =>
                Selection(h, l, n + 1, key, Append(kl, l[n + 1]))
           /\ Key(h[l[n + 1]].filter) # key => Selection(h, l, n + 1, key, kl)
<1>1. PICK pos \in [1..Len(kl) -> 1..n] :
        /\ \A i, j \in 1..Len(kl) : i < j => pos[i] < pos[j]
        /\ \A j \in 1..Len(kl) : kl[j] = l[pos[j]] /\ Key(h[l[pos[j]]].filter) = key
        /\ \A i \in 1..n : Key(h[l[i]].filter) = key => \E j \in 1..Len(kl) : pos[j] = i
  BY DEF Selection
<1>2. Len(kl) \in Nat /\ \A i \in 1..(n + 1) : i \in 1..n \/ i = n + 1
  BY LenProperties
<1>3. ASSUME Key(h[l[n + 1]].filter) # key
      PROVE  Selection(h, l, n + 1, key, kl)
  <2>1. pos \in [1..Len(kl) -> 1..(n + 1)]
    OBVIOUS
  <2>2. \A i \in 1..(n + 1) : Key(h[l[i]].filter) = key => \E j \in 1..Len(kl) : pos[j] = i
    BY <1>1, <1>2, <1>3
  <2>. QED
    BY <1>1, <2>1, <2>2 DEF Selection
<1>4. ASSUME Key(h[l[n + 1]].filter) = key
      PROVE  Selection(h, l, n + 1, key, Append(kl, l[n + 1]))
  <2>. DEFINE kl2 == Append(kl, l[n + 1])
              k == Len(kl) + 1
              pos2 == [j \in 1..k |-> IF j = k THEN n + 1 ELSE pos[j]]
  <2>1. l[n + 1] \in S
    OBVIOUS
  <2>2. /\ Len(kl2) = k /\ kl2[k] = l[n + 1]
        /\ \A j \in 1..Len(kl) : kl2[j] = kl[j]
    BY <2>1, AppendProperties
  <2>3. \A j \in 1..k : j \in 1..Len(kl) \/ j = k
    BY <1>2
  <2>4. k \in 1..k /\ \A j \in 1..Len(kl) : j \in 1..k /\ j # k /\ j < k
    BY <1>2
  <2>5. pos2[k] = n + 1 /\ \A j \in 1..Len(kl) : pos2[j] = pos[j] /\ pos[j] \in 1..n
    BY <2>4
  <2>6. pos2 \in [1..k -> 1..(n + 1)]
    BY <2>3, <2>5
  <2>. HIDE DEF pos2, kl2
  <2>7. \A i, j \in 1..k : i < j => pos2[i] < pos2[j]
    <3>. SUFFICES ASSUME NEW i \in 1..k, NEW j \in 1..k, i < j PROVE pos2[i] < pos2[j]
      OBVIOUS
    <3>1. i \in 1..Len(kl)
      BY <1>2
    <3>. QED
      BY <1>1, <2>3, <2>5, <3>1
  <2>8. \A j \in 1..k : kl2[j] = l[pos2[j]] /\ Key(h[l[pos2[j]]].filter) = key
    <3>. SUFFICES ASSUME NEW j \in 1..k
                  PROVE  kl2[j] = l[pos2[j]] /\ Key(h[l[pos2[j]]].filter) = key
      OBVIOUS
    <3>1. CASE j \in 1..Len(kl)
      <4>1. kl2[j] = kl[j] /\ pos2[j] = pos[j]
        BY <2>2, <2>5, <3>1
      <4>. QED
        BY <1>1, <3>1, <4>1
    <3>2. CASE j = k
      <4>1. kl2[j] = l[n + 1] /\ pos2[j] = n + 1
        BY <2>2, <2>5, <3>2
      <4>. QED
        BY <1>4, <4>1
    <3>. QED
      BY <2>3, <3>1, <3>2
  <2>9. \A i \in 1..(n + 1) : Key(h[l[i]].filter) = key => \E j \in 1..k : pos2[j] = i
    <3>. SUFFICES ASSUME NEW i \in 1..(n + 1), Key(h[l[i]].filter) = key
                  PROVE  \E j \in 1..k : pos2[j] = i
      OBVIOUS
    <3>1. CASE i \in 1..n
      <4>1. PICK j \in 1..Len(kl) : pos[j] = i
        BY <1>1, <3>1
      <4>. QED
        BY <2>4, <2>5, <4>1
    <3>2. CASE i = n + 1
      BY <2>4, <2>5, <3>2
    <3>. QED
      BY <1>2, <3>1, <3>2
  <2>10. Selection(h, l, n + 1, key, kl2)
    <3>. HIDE DEF k
    <3>. QED
      BY <2>2, <2>6, <2>7, <2>8, <2>9 DEF Selection
  <2>. QED
    BY <2>10 DEF kl2
<1>. QED
  BY <1>3, <1>4

\* LoadFilters fills the list of a key with its filters, in their order.
LEMMA ByKeySelects ==
    ASSUME NEW S, NEW l \in Seq(S), NEW key
    PROVE  /\ ByKey(l, key) \in Seq(S)
           /\ Selection(heap, l, Len(l), key, ByKey(l, key))
<1>. DEFINE n == Len(l)
            Step(i, kl) == IF Key(heap[l[i]].filter) = key THEN Append(kl, l[i]) ELSE kl
            step == [i \in 1..n |-> [kl \in Seq(S) |-> Step(i, kl)]]
            Round(f) == [i \in 0..n |->
                          IF i = 0 THEN <<>>
                          ELSE IF Key(heap[l[i]].filter) = key THEN Append(f[i - 1], l[i])
                          ELSE f[i - 1]]
            filled == CHOOSE f : f = Round(f)
<1>1. n \in Nat /\ \A i \in 1..n : l[i] \in S
  BY LenProperties
<1>2. ByKey(l, key) = filled[n]
  BY DEF ByKey
<1>. HIDE DEF n
<1>3. step \in [1..n -> [Seq(S) -> Seq(S)]]
  <2>1. \A i \in 1..n, kl \in Seq(S) : Step(i, kl) \in Seq(S)
    BY <1>1, AppendProperties
  <2>. HIDE DEF Step
  <2>. QED
    BY <2>1
<1>4. \A i \in 1..n, kl \in Seq(S) : step[i][kl] = Step(i, kl)
  <2>. HIDE DEF Step
  <2>. QED
    OBVIOUS
<1>5. PICK g \in [0..n -> Seq(S)] :
        g[0] = <<>> /\ \A i \in 1..n : g[i] = step[i][g[i - 1]]
  <2>. HIDE DEF step
  <2>1. ASSUME NEW T, T = Seq(S), NEW base, base = <<>>, NEW st, st = step
        PROVE  \E g : Rounds(g, T, n, base, st)
    <3>1. base \in T /\ st \in [1..n -> [T -> T]]
      BY <1>3, <2>1
    <3>. QED
      BY ONLY <1>1, <3>1, Iterated
  <2>. QED
    BY <2>1 DEF Rounds
<1>6. g = Round(g)
  <2>1. \A i \in 1..n : i - 1 \in 0..n /\ g[i - 1] \in Seq(S)
    BY <1>1, <1>5
  <2>. HIDE DEF step
  <2>2. \A i \in 1..n : g[i] = Step(i, g[i - 1])
    BY <1>4, <1>5, <2>1
  <2>3. \A i \in 0..n : g[i] = IF i = 0 THEN <<>>
                            ELSE IF Key(heap[l[i]].filter) = key THEN Append(g[i - 1], l[i])
                            ELSE g[i - 1]
    <3>1. \A i \in 0..n : i = 0 \/ i \in 1..n
      BY <1>1
    <3>. QED
      BY <1>1, <1>5, <2>2, <3>1
  <2>4. g = [i \in 0..n |-> g[i]]
    BY <1>5
  <2>. QED
    BY <2>3, <2>4
<1>7. filled = Round(filled)
  <2>. HIDE DEF Round
  <2>. QED
    BY <1>6
<1>. HIDE DEF filled
<1>8. /\ filled[0] = <<>>
      /\ \A i \in 1..n : filled[i] = Step(i, filled[i - 1])
  <2>1. \A i \in 0..n : filled[i] = Round(filled)[i]
    BY <1>7
  <2>2. 0 \in 0..n /\ \A i \in 1..n : i \in 0..n /\ i # 0
    BY <1>1
  <2>. QED
    BY <2>1, <2>2
<1>. DEFINE P(k) == filled[k] \in Seq(S) /\ Selection(heap, l, k, key, filled[k])
            Bad == {k \in 0..n : ~P(k)}
<1>9. Bad = {}
  <2>1. SUFFICES ASSUME NEW b \in Bad PROVE FALSE
    OBVIOUS
  <2>2. PICK k \in Bad : \A j \in Bad : k <= j
    <3>1. Bad \in SUBSET Nat
      BY <1>1
    <3>. HIDE DEF Bad
    <3>. QED
      BY <2>1, <3>1, LeastExists
  <2>3. k \in 0..n /\ ~P(k)
    OBVIOUS
  <2>4. CASE k = 0
    <3>1. Selection(heap, l, 0, key, <<>>)
      <4>. DEFINE pos == [j \in 1..0 |-> 1]
      <4>1. Len(<<>>) = 0 /\ 1..0 = {}
        OBVIOUS
      <4>2. pos \in [1..0 -> 1..0]
        OBVIOUS
      <4>. HIDE DEF pos
      <4>. QED
        BY <4>1, <4>2 DEF Selection
    <3>2. <<>> \in Seq(S)
      OBVIOUS
    <3>. QED
      BY <1>8, <2>3, <2>4, <3>1, <3>2
  <2>5. CASE k # 0
    <3>1. /\ k - 1 \in 0..n /\ ~(k <= k - 1) /\ k \in 1..n
          /\ k - 1 \in Nat /\ (k - 1) + 1 = k
      BY <1>1, <2>3, <2>5
    <3>2. P(k - 1)
      <4>. HIDE DEF P
      <4>. QED
        BY <2>2, <3>1
    <3>3. l[k] \in S
      BY <1>1, <3>1
    <3>. HIDE DEF Bad
    <3>7. filled[k] = Step(k, filled[k - 1])
      <4>. HIDE DEF P, Step
      <4>. QED
        BY <1>8, <3>1
    <3>. HIDE DEF P
    <3>4. \/ /\ Key(heap[l[k]].filter) = key
             /\ filled[k] = Append(filled[k - 1], l[k])
          \/ Key(heap[l[k]].filter) # key /\ filled[k] = filled[k - 1]
      BY <3>7
    <3>. USE DEF P
    <3>5. filled[k] \in Seq(S)
      <4>1. ASSUME NEW kl \in Seq(S) PROVE Append(kl, l[k]) \in Seq(S)
        BY <3>3
      <4>2. filled[k - 1] \in Seq(S)
        BY <3>2
      <4>. HIDE DEF P
      <4>. QED
        BY <3>4, <4>1, <4>2
    <3>6. Selection(heap, l, k, key, filled[k])
      <4>1. k \in 1..Len(l) /\ filled[k - 1] \in Seq(S) /\ Selection(heap, l, k - 1, key, filled[k - 1])
        BY <3>1, <3>2 DEF n
      <4>2. /\ Key(heap[l[k]].filter) = key =>
                 Selection(heap, l, k, key, Append(filled[k - 1], l[k]))
            /\ Key(heap[l[k]].filter) # key => Selection(heap, l, k, key, filled[k - 1])
        <5>. HIDE DEF P
        <5>1. ASSUME NEW m \in Nat, m + 1 = k, NEW kl, kl = filled[k - 1]
              PROVE  /\ Key(heap[l[k]].filter) = key =>
                          Selection(heap, l, k, key, Append(kl, l[k]))
                     /\ Key(heap[l[k]].filter) # key => Selection(heap, l, k, key, kl)
          <6>1. m = k - 1
            BY <3>1, <5>1
          <6>2. kl \in Seq(S) /\ Selection(heap, l, m, key, kl) /\ m + 1 \in 1..Len(l)
            BY <4>1, <5>1, <6>1
          <6>. QED
            BY <5>1, <6>2, SelectOne
        <5>. QED
          BY <3>1, <5>1
      <4>. QED
        BY <3>4, <4>2
    <3>. QED
      BY <2>3, <3>5, <3>6
  <2>. QED
    BY <2>4, <2>5
<1>10. P(n)
  <2>1. n \in 0..n
    BY <1>1
  <2>. HIDE DEF P
  <2>. QED
    BY <1>9, <2>1
<1>. QED
  BY <1>2, <1>10 DEF n

\* What a scan of the filters l finds: the first filter that passes includes
\* the event or hides it, and if none does it saw every filter.
Decides(l, ev, s) ==
    LET F(i) == heap[l[i]].filter
        First(i) == Passes(F(i), ev) /\ \A j \in 1..(i - 1) : ~Passes(F(j), ev)
    IN  /\ s.pass   <=> \E i \in 1..Len(l) : First(i) /\ F(i).include
        /\ s.hidden <=> \E i \in 1..Len(l) : First(i) /\ ~F(i).include
        /\ ~s.pass /\ ~s.hidden => (s.any <=> \E i \in 1..Len(l) : F(i).include)

LEMMA ScanDecides ==
    ASSUME NEW S, NEW l \in Seq(S), NEW ev
    PROVE  Decides(l, ev, Scan(l, ev))
<1>. DEFINE n == Len(l)
            F(i) == heap[l[i]].filter
            T == [any : BOOLEAN, pass : BOOLEAN, hidden : BOOLEAN]
            start == [any |-> FALSE, pass |-> FALSE, hidden |-> FALSE]
            Step(i, s) == IF s.pass \/ s.hidden THEN s
                          ELSE [any    |-> s.any \/ F(i).include,
                                pass   |-> F(i).include /\ Passes(F(i), ev),
                                hidden |-> ~F(i).include /\ Passes(F(i), ev)]
            step == [i \in 1..n |-> [s \in T |-> Step(i, s)]]
            Round(f) == [i \in 0..n |-> IF i = 0 THEN start ELSE Step(i, f[i - 1])]
            scan == CHOOSE f : f = Round(f)
<1>1. n \in Nat
  BY LenProperties
<1>2. Scan(l, ev) = scan[n]
  BY DEF Scan
<1>. HIDE DEF n
<1>3. start \in T /\ \A i \in 1..n, s \in T : Step(i, s) \in T
  <2>1. \A i \in 1..n, s \in T : s.any \in BOOLEAN /\ s.pass \in BOOLEAN /\ s.hidden \in BOOLEAN
    OBVIOUS
  <2>2. \A a, b : (a /\ b) \in BOOLEAN /\ (~a /\ b) \in BOOLEAN /\ (a \/ b) \in BOOLEAN
    OBVIOUS
  <2>. QED
    BY <2>1, <2>2
<1>. HIDE DEF T, start, Step
<1>4. step \in [1..n -> [T -> T]] /\ \A i \in 1..n, s \in T : step[i][s] = Step(i, s)
  BY <1>3
<1>5. PICK g \in [0..n -> T] :
        g[0] = start /\ \A i \in 1..n : g[i] = step[i][g[i - 1]]
  <2>. HIDE DEF step
  <2>1. ASSUME NEW T0, T0 = T, NEW base, base = start, NEW st, st = step
        PROVE  \E g : Rounds(g, T0, n, base, st)
    <3>1. base \in T0 /\ st \in [1..n -> [T0 -> T0]]
      BY <1>3, <1>4, <2>1
    <3>. QED
      BY ONLY <1>1, <3>1, Iterated
  <2>. QED
    BY <2>1 DEF Rounds
<1>6. g = Round(g)
  <2>1. \A i \in 1..n : i - 1 \in 0..n /\ g[i - 1] \in T
    BY <1>1, <1>5
  <2>. HIDE DEF step
  <2>2. \A i \in 1..n : g[i] = Step(i, g[i - 1])
    BY <1>4, <1>5, <2>1
  <2>3. \A i \in 0..n : g[i] = Round(g)[i]
    BY <1>1, <1>5, <2>2
  <2>4. DOMAIN g = 0..n /\ g = [i \in 0..n |-> g[i]]
    BY <1>5
  <2>. QED
    BY <2>3, <2>4
<1>7. scan = Round(scan)
  <2>. HIDE DEF Round
  <2>. QED
    BY <1>6
<1>. HIDE DEF scan
<1>8. /\ scan[0] = start
      /\ \A i \in 1..n : scan[i] = Step(i, scan[i - 1])
  <2>1. \A i \in 0..n : scan[i] = Round(scan)[i]
    BY <1>7
  <2>2. 0 \in 0..n /\ \A i \in 1..n : i \in 0..n /\ i # 0
    BY <1>1
  <2>. QED
    BY <2>1, <2>2
<1>. DEFINE First(i) == Passes(F(i), ev) /\ \A j \in 1..(i - 1) : ~Passes(F(j), ev)
            P(k) == /\ scan[k] \in T
                    /\ scan[k].pass   <=> \E i \in 1..k : First(i) /\ F(i).include
                    /\ scan[k].hidden <=> \E i \in 1..k : First(i) /\ ~F(i).include
                    /\ ~scan[k].pass /\ ~scan[k].hidden =>
                         /\ \A i \in 1..k : ~Passes(F(i), ev)
                         /\ scan[k].any <=> \E i \in 1..k : F(i).include
            Bad == {k \in 0..n : ~P(k)}
<1>9. Bad = {}
  <2>1. SUFFICES ASSUME NEW b \in Bad PROVE FALSE
    OBVIOUS
  <2>2. PICK k \in Bad : \A j \in Bad : k <= j
    <3>1. Bad \in SUBSET Nat
      BY <1>1
    <3>. HIDE DEF Bad
    <3>. QED
      BY <2>1, <3>1, LeastExists
  <2>3. k \in 0..n /\ ~P(k)
    OBVIOUS
  <2>4. CASE k = 0
    <3>1. scan[0] = start /\ start \in T /\ ~start.pass /\ ~start.hidden /\ ~start.any /\ 1..0 = {}
      BY <1>3, <1>8 DEF start
    <3>. QED
      BY <2>3, <2>4, <3>1
  <2>5. CASE k # 0
    <3>1. /\ k - 1 \in 0..n /\ ~(k <= k - 1) /\ k \in 1..n
          /\ \A i \in 1..k : i \in 1..(k - 1) \/ i = k
          /\ \A i \in 1..(k - 1) : i \in 1..k
          /\ k \in 1..k
      BY <1>1, <2>3, <2>5
    <3>2. P(k - 1)
      <4>. HIDE DEF P
      <4>. QED
        BY <2>2, <3>1
    <3>. DEFINE s == scan[k - 1]
    <3>3. scan[k] = Step(k, s) /\ scan[k] \in T /\ s \in T
      BY <1>3, <1>8, <3>1, <3>2
    <3>. HIDE DEF Bad, First, F
    <3>4. CASE s.pass \/ s.hidden
      <4>1. scan[k] = s
        BY <3>3, <3>4 DEF Step
      <4>2. ~First(k)
        <5>1. PICK i \in 1..(k - 1) : First(i)
          BY <3>2, <3>4
        <5>. QED
          BY <5>1 DEF First
      <4>. QED
        BY <2>3, <3>1, <3>2, <3>3, <3>4, <4>1, <4>2
    <3>5. CASE ~(s.pass \/ s.hidden)
      <4>1. /\ scan[k].any <=> s.any \/ F(k).include
            /\ scan[k].pass <=> F(k).include /\ Passes(F(k), ev)
            /\ scan[k].hidden <=> ~F(k).include /\ Passes(F(k), ev)
        <5>1. scan[k] = [any    |-> s.any \/ F(k).include,
                         pass   |-> F(k).include /\ Passes(F(k), ev),
                         hidden |-> ~F(k).include /\ Passes(F(k), ev)]
          <6>. HIDE DEF P, s
          <6>1. scan[k] = Step(k, s)
            BY <3>3
          <6>. QED
            BY <3>5, <6>1 DEF Step, F
        <5>2. ASSUME NEW r, NEW a, NEW p, NEW h, r = [any |-> a, pass |-> p, hidden |-> h]
              PROVE  r.any = a /\ r.pass = p /\ r.hidden = h
          BY <5>2
        <5>3. /\ scan[k].any = (s.any \/ F(k).include)
              /\ scan[k].pass = (F(k).include /\ Passes(F(k), ev))
              /\ scan[k].hidden = (~F(k).include /\ Passes(F(k), ev))
          <6>. HIDE DEF s
          <6>. QED
            BY <5>1, <5>2
        <5>. QED
          BY <5>3, Zenon
      <4>2. \A i \in 1..(k - 1) : ~Passes(F(i), ev)
        BY <3>2, <3>5
      <4>3. \A i \in 1..(k - 1) : ~First(i)
        BY <4>2 DEF First
      <4>4. First(k) <=> Passes(F(k), ev)
        BY <4>2 DEF First
      <4>5. scan[k].pass <=> \E i \in 1..k : First(i) /\ F(i).include
        BY <3>1, <4>1, <4>3, <4>4
      <4>6. scan[k].hidden <=> \E i \in 1..k : First(i) /\ ~F(i).include
        BY <3>1, <4>1, <4>3, <4>4
      <4>7. ASSUME ~scan[k].pass, ~scan[k].hidden
            PROVE  /\ \A i \in 1..k : ~Passes(F(i), ev)
                   /\ scan[k].any <=> \E i \in 1..k : F(i).include
        <5>1. \A i \in 1..k : ~Passes(F(i), ev)
          BY <3>1, <4>1, <4>2, <4>7
        <5>2. s.any <=> \E i \in 1..(k - 1) : F(i).include
          BY <3>2, <3>5
        <5>. QED
          BY <3>1, <4>1, <5>1, <5>2
      <4>. QED
        BY <2>3, <3>3, <4>5, <4>6, <4>7
    <3>. QED
      BY <3>4, <3>5
  <2>. QED
    BY <2>4, <2>5
<1>10. P(n)
  <2>1. n \in 0..n
    BY <1>1
  <2>. HIDE DEF P
  <2>. QED
    BY <1>9, <2>1
<1>. QED
  BY <1>2, <1>10 DEF n, Decides

-----------------------------------------------------------------------------
(* The lists by key. *)

\* A list by key has the filters of the list that have its key.
KeysRight ==
    \A key \in Kinds :
      /\ keyLists[key] \in Seq(1..Len(heap))
      /\ Selection(heap, filterList, Len(filterList), key, keyLists[key])

KInv == FiltersIInv /\ KeysRight

\* A filter never changes while it is counted.
LEMMA CountingKeepsFilters ==
    ASSUME NEW h \in Seq(Object), NEW l
    PROVE  /\ \A n \in 1..Len(h) : Reference(h, l)[n].filter = h[n].filter
           /\ \A n \in 1..Len(h) : Dereference(h, l)[n].filter = h[n].filter
<1>1. DOMAIN h = 1..Len(h)
  BY LenProperties
<1>2. ASSUME NEW n \in 1..Len(h), NEW m
      PROVE  [h[n] EXCEPT !.refs = m].filter = h[n].filter
  BY DEF Object
<1>3. ASSUME NEW n \in 1..Len(h), NEW m, NEW d
      PROVE  [h[n] EXCEPT !.refs = m, !.deleted = d].filter = h[n].filter
  BY DEF Object
<1>4. ASSUME NEW n \in 1..Len(h) PROVE Reference(h, l)[n].filter = h[n].filter
  <2>1. Reference(h, l)[n] = [h[n] EXCEPT !.refs = h[n].refs + Occurrences(l, n)]
    BY <1>1 DEF Reference
  <2>. QED
    BY <1>2, <2>1
<1>5. ASSUME NEW n \in 1..Len(h) PROVE Dereference(h, l)[n].filter = h[n].filter
  <2>. DEFINE left == h[n].refs - Occurrences(l, n)
  <2>1. Dereference(h, l)[n] = [h[n] EXCEPT !.refs = left, !.deleted = h[n].deleted \/ left = 0]
    BY <1>1 DEF Dereference
  <2>. HIDE DEF left
  <2>. QED
    BY <1>3, <2>1
<1>. QED
  BY <1>4, <1>5

\* Nor by any step; filters are only added.
LEMMA FiltersLast ==
    ASSUME FiltersIInv, FiltersIInv', [NextFilters]_filterVars
    PROVE  /\ Len(heap) \in Nat /\ Len(heap') \in Nat /\ Len(heap) <= Len(heap')
           /\ \A n \in 1..Len(heap) : heap'[n].filter = heap[n].filter
<1>1. /\ heap \in Seq(Object) /\ filterList \in Seq(1..Len(heap))
      /\ draft \in Seq(1..Len(heap)) /\ heap' \in Seq(Object)
  BY DEF FiltersIInv, TypeOK, Object
<1>2. Len(heap) \in Nat /\ Len(heap') \in Nat
  BY <1>1, LenProperties
<1>3. CASE heap' = heap
  BY <1>2, <1>3
<1>4. CASE LoadFilters
  <2>1. heap' = Dereference(Reference(heap, draft), filterList)
    BY <1>4 DEF LoadFilters
  <2>2. PICK counted \in Seq(Object) :
          /\ counted = Reference(heap, draft) /\ Len(counted) = Len(heap)
          /\ \A n \in 1..Len(heap) : counted[n].filter = heap[n].filter
    BY <1>1, ReferenceProperties, CountingKeepsFilters
  <2>3. Len(heap') = Len(heap)
    <3>1. DOMAIN heap' = DOMAIN counted
      BY <2>1, <2>2 DEF Dereference
    <3>. QED
      BY <1>1, <1>2, <2>2, <3>1, LenProperties
  <2>4. \A n \in 1..Len(counted) : Dereference(counted, filterList)[n].filter = counted[n].filter
    BY CountingKeepsFilters
  <2>. QED
    BY <1>2, <2>1, <2>2, <2>3, <2>4
<1>5. ASSUME NEW f \in Filters, AddFilter(f)
      PROVE  Len(heap) <= Len(heap') /\ \A n \in 1..Len(heap) : heap'[n].filter = heap[n].filter
  <2>1. New(f) \in Object
    BY DEF New, Object
  <2>2. heap' = Append(heap, New(f))
    BY <1>5 DEF AddFilter
  <2>3. Len(heap') = Len(heap) + 1 /\ \A n \in 1..Len(heap) : heap'[n] = heap[n]
    BY <1>1, <2>1, <2>2, AppendProperties
  <2>. QED
    BY <1>2, <2>3
<1>6. ASSUME NEW n \in held, Release(n)
      PROVE  Len(heap) <= Len(heap') /\ \A m \in 1..Len(heap) : heap'[m].filter = heap[m].filter
  <2>1. heap' = Dereference(heap, <<n>>)
    BY <1>6 DEF Release
  <2>2. Len(heap') = Len(heap)
    <3>1. DOMAIN heap' = DOMAIN heap
      BY <2>1 DEF Dereference
    <3>. QED
      BY <1>1, <1>2, <3>1, LenProperties
  <2>3. \A m \in 1..Len(heap) : Dereference(heap, <<n>>)[m].filter = heap[m].filter
    BY <1>1, CountingKeepsFilters
  <2>. QED
    BY <1>2, <2>1, <2>2, <2>3
<1>. QED
  BY <1>2, <1>3, <1>4, <1>5, <1>6 DEF NextFilters, filterVars, GetFilters, RemoveFilter

\* What a list selects depends on the filters it names only.
LEMMA SelectionKept ==
    ASSUME NEW h, NEW h2, NEW S, NEW l \in Seq(S), NEW key, NEW kl,
           \A m \in S : h2[m].filter = h[m].filter,
           Selection(h, l, Len(l), key, kl)
    PROVE  Selection(h2, l, Len(l), key, kl)
<1>1. \A i \in 1..Len(l) : Key(h2[l[i]].filter) = Key(h[l[i]].filter)
  BY LenProperties
<1>2. PICK pos \in [1..Len(kl) -> 1..Len(l)] :
        /\ \A i, j \in 1..Len(kl) : i < j => pos[i] < pos[j]
        /\ \A j \in 1..Len(kl) : kl[j] = l[pos[j]] /\ Key(h[l[pos[j]]].filter) = key
        /\ \A i \in 1..Len(l) : Key(h[l[i]].filter) = key => \E j \in 1..Len(kl) : pos[j] = i
  BY DEF Selection
<1>3. \A j \in 1..Len(kl) : pos[j] \in 1..Len(l)
  OBVIOUS
<1>4. /\ \A j \in 1..Len(kl) : kl[j] = l[pos[j]] /\ Key(h2[l[pos[j]]].filter) = key
      /\ \A i \in 1..Len(l) : Key(h2[l[i]].filter) = key => \E j \in 1..Len(kl) : pos[j] = i
  BY <1>1, <1>2, <1>3
<1>. QED
  BY <1>2, <1>4 DEF Selection

\* The lists stay as they are in a state with more filters.
LEMMA StillRight ==
    ASSUME FiltersIInv, FiltersIInv', [NextFilters]_filterVars, KeysRight, UNCHANGED <<filterList, keyLists>>
    PROVE  KeysRight'
<1>1. filterList \in Seq(1..Len(heap))
  BY DEF FiltersIInv, TypeOK
<1>2. /\ Len(heap) \in Nat /\ Len(heap') \in Nat /\ Len(heap) <= Len(heap')
      /\ \A n \in 1..Len(heap) : heap'[n].filter = heap[n].filter
  BY FiltersLast
<1>3. ASSUME NEW key \in Kinds
      PROVE  /\ keyLists[key] \in Seq(1..Len(heap'))
             /\ Selection(heap', filterList, Len(filterList), key, keyLists[key])
  <2>1. /\ keyLists[key] \in Seq(1..Len(heap))
        /\ Selection(heap, filterList, Len(filterList), key, keyLists[key])
    BY DEF KeysRight
  <2>2. Selection(heap', filterList, Len(filterList), key, keyLists[key])
    BY <1>1, <1>2, <2>1, SelectionKept
  <2>3. keyLists[key] \in Seq(1..Len(heap'))
    <3>1. \A x \in 1..Len(heap) : x \in 1..Len(heap')
      BY <1>2
    <3>2. ASSUME NEW S, NEW T, \A x \in S : x \in T, NEW q \in Seq(S) PROVE q \in Seq(T)
      <4>1. Len(q) \in Nat /\ q \in [1..Len(q) -> S]
        BY LenProperties
      <4>. QED
        BY <3>2, <4>1
    <3>. QED
      BY <2>1, <3>1, <3>2
  <2>. QED
    BY <2>2, <2>3
<1>. QED
  BY <1>3 DEF KeysRight

\* The two filters of Initialize have the key of a process id.
LEMMA InitKeysRight == InitFilters => KeysRight
<1>. SUFFICES ASSUME InitFilters PROVE KeysRight
  OBVIOUS
<1>1. heap[1].filter.kind = "PID" /\ heap[2].filter.kind = "PID" /\ Len(heap) = 2
  BY DEF InitFilters, New, PidFilter
<1>2. Key(heap[1].filter) = "PID" /\ Key(heap[2].filter) = "PID"
  BY <1>1 DEF Key
<1>3. ASSUME NEW key \in Kinds
      PROVE  /\ keyLists[key] \in Seq(1..Len(heap))
             /\ Selection(heap, filterList, Len(filterList), key, keyLists[key])
  <2>1. filterList = <<1, 2>> /\ keyLists[key] = IF key = "PID" THEN <<1, 2>> ELSE <<>>
    BY DEF InitFilters
  <2>2. CASE key = "PID"
    <3>. DEFINE pos == [j \in 1..2 |-> j]
    <3>1. pos \in [1..2 -> 1..2] /\ pos[1] = 1 /\ pos[2] = 2
      OBVIOUS
    <3>2. \A j \in 1..2 : j = 1 \/ j = 2
      OBVIOUS
    <3>3. keyLists[key] = <<1, 2>> /\ Len(<<1, 2>>) = 2 /\ <<1, 2>>[1] = 1 /\ <<1, 2>>[2] = 2
      BY <2>1, <2>2
    <3>. HIDE DEF pos
    <3>4. Selection(heap, <<1, 2>>, 2, key, <<1, 2>>)
      BY <1>2, <2>2, <3>1, <3>2, <3>3 DEF Selection
    <3>. QED
      BY <1>1, <2>1, <3>3, <3>4
  <2>3. CASE key # "PID"
    <3>. DEFINE pos == [j \in 1..0 |-> 1]
    <3>1. Len(<<>>) = 0 /\ 1..0 = {} /\ pos \in [1..0 -> 1..2]
      OBVIOUS
    <3>2. \A j \in 1..2 : Key(heap[<<1, 2>>[j]].filter) = "PID"
      BY <1>2
    <3>. HIDE DEF pos
    <3>3. ASSUME NEW kl, Len(kl) = 0, NEW l, \A j \in 1..2 : Key(heap[l[j]].filter) # key
          PROVE  Selection(heap, l, 2, key, kl)
      BY <3>1, <3>3 DEF Selection
    <3>4. Selection(heap, <<1, 2>>, 2, key, <<>>)
      BY <2>3, <3>1, <3>2, <3>3
    <3>. QED
      BY <1>1, <2>1, <2>3, <3>4
  <2>. QED
    BY <2>2, <2>3
<1>. QED
  BY <1>3 DEF KeysRight

\* LoadFilters fills every list anew.
LEMMA LoadKeysRight ==
    ASSUME FiltersIInv, FiltersIInv', LoadFilters
    PROVE  KeysRight'
<1>1. draft \in Seq(1..Len(heap))
  BY DEF FiltersIInv, TypeOK
<1>2. /\ Len(heap) \in Nat /\ Len(heap') \in Nat /\ Len(heap) <= Len(heap')
      /\ \A n \in 1..Len(heap) : heap'[n].filter = heap[n].filter
  BY FiltersLast DEF NextFilters
<1>3. filterList' = draft
  BY DEF LoadFilters
<1>4. ASSUME NEW key \in Kinds
      PROVE  /\ keyLists'[key] \in Seq(1..Len(heap'))
             /\ Selection(heap', draft, Len(draft), key, keyLists'[key])
  <2>1. keyLists'[key] = ByKey(draft, key)
    BY DEF LoadFilters
  <2>2. ByKey(draft, key) \in Seq(1..Len(heap))
        /\ Selection(heap, draft, Len(draft), key, ByKey(draft, key))
    BY <1>1, ByKeySelects
  <2>3. ASSUME NEW kl, kl = ByKey(draft, key)
        PROVE  /\ kl \in Seq(1..Len(heap'))
               /\ Selection(heap', draft, Len(draft), key, kl)
    <3>1. Selection(heap', draft, Len(draft), key, kl)
      BY <1>1, <1>2, <2>2, <2>3, SelectionKept
    <3>2. ASSUME NEW S, NEW T, \A x \in S : x \in T, NEW q \in Seq(S) PROVE q \in Seq(T)
      <4>1. Len(q) \in Nat /\ q \in [1..Len(q) -> S]
        BY LenProperties
      <4>. QED
        BY <3>2, <4>1
    <3>3. \A x \in 1..Len(heap) : x \in 1..Len(heap')
      BY <1>2
    <3>. QED
      BY <2>2, <2>3, <3>1, <3>2, <3>3
  <2>. QED
    BY <2>1, <2>3
<1>. QED
  BY <1>3, <1>4 DEF KeysRight

THEOREM KeysInvariance == SpecFilters => []KInv
<1>1. InitFilters => KInv
  BY FiltersInitIInv, InitKeysRight DEF KInv
<1>2. KInv /\ FiltersIInv' /\ [NextFilters]_filterVars => KInv'
  <2>. SUFFICES ASSUME KInv, FiltersIInv', [NextFilters]_filterVars PROVE KeysRight'
    BY DEF KInv
  <2>1. FiltersIInv /\ KeysRight
    BY DEF KInv
  <2>2. CASE LoadFilters
    BY <2>1, <2>2, LoadKeysRight
  <2>3. CASE UNCHANGED <<filterList, keyLists>>
    BY <2>1, <2>3, StillRight
  <2>. QED
    BY <2>2, <2>3 DEF NextFilters, filterVars, GetFilters, AddFilter, RemoveFilter, Release
<1>. QED
  BY FiltersInvariance, <1>1, <1>2, PTL DEF SpecFilters

\* No list, those by key included, names a deleted filter.
THEOREM NoDanglingCorrect == SpecFilters => []NoDangling
<1>1. KInv => NoDangling
  <2>. SUFFICES ASSUME KInv PROVE NoDangling
    OBVIOUS
  <2>1. ListsAlive
    BY IInvImplies DEF KInv
  <2>2. ASSUME NEW n \in 1..Len(heap), heap[n].deleted, NEW key \in Kinds
        PROVE  Occurrences(keyLists[key], n) = 0
    <3>1. filterList \in Seq(1..Len(heap)) /\ keyLists[key] \in Seq(1..Len(heap))
      BY DEF KInv, FiltersIInv, TypeOK, KeysRight
    <3>2. PICK pos \in [1..Len(keyLists[key]) -> 1..Len(filterList)] :
            \A j \in 1..Len(keyLists[key]) : keyLists[key][j] = filterList[pos[j]]
      BY DEF KInv, KeysRight, Selection
    <3>3. \A i \in 1..Len(filterList) : filterList[i] # n
      BY <2>1, <2>2, <3>1, OccurrencesType DEF ListsAlive
    <3>4. \A j \in 1..Len(keyLists[key]) : keyLists[key][j] # n
      BY <3>2, <3>3
    <3>. QED
      BY <3>1, <3>4, OccurrencesType
  <2>. QED
    BY <2>1, <2>2 DEF NoDangling, KeyListsAlive
<1>. QED
  BY KeysInvariance, <1>1, PTL

-----------------------------------------------------------------------------
(* DoFilter and the list. *)

\* pos are the places in a list, of length n, of the filters of one key; K is
\* the places that have the key.
Picked(pos, m, n, K) ==
    /\ pos \in [1..m -> 1..n]
    /\ \A i, j \in 1..m : i < j => pos[i] < pos[j]
    /\ \A j \in 1..m : pos[j] \in K
    /\ \A i \in 1..n : i \in K => \E j \in 1..m : pos[j] = i

\* The first of them that passes.
Firsts(pos, m, Q) ==
    {j \in 1..m : pos[j] \in Q /\ \A k \in 1..(j - 1) : pos[k] \notin Q}

\* What a scan of them finds, if I are the places of the filters that include
\* and Q of those that pass.
Finds(pos, m, I, Q, any, pass, hidden) ==
    /\ pass <=> \E j \in Firsts(pos, m, Q) : pos[j] \in I
    /\ hidden <=> \E j \in Firsts(pos, m, Q) : pos[j] \notin I
    /\ ~pass /\ ~hidden => (any <=> \E j \in 1..m : pos[j] \in I)

\* What the whole list says.
Says(n, K, I, Q) ==
    \A i \in 1..n : i \in K =>
      /\ i \in I => \E k \in 1..n : k \in K /\ k \in I /\ k \in Q
      /\ i \notin I /\ i \in Q => \E k \in 1..(i - 1) : k \in K /\ k \in I /\ k \in Q

\* The first filter of a key that passes decides as the whole list does.
LEMMA FirstSpeaksForAll ==
    ASSUME NEW n \in Nat, NEW m \in Nat, NEW pos, NEW K, NEW I, NEW Q,
           NEW any, NEW pass, NEW hidden,
           Picked(pos, m, n, K), Finds(pos, m, I, Q, any, pass, hidden)
    PROVE  ~hidden /\ (any => pass) <=> Says(n, K, I, Q)
<1>. DEFINE First == Firsts(pos, m, Q)
<1>0. /\ pos \in [1..m -> 1..n]
      /\ \A i, j \in 1..m : i < j => pos[i] < pos[j]
      /\ \A j \in 1..m : pos[j] \in K
      /\ \A i \in 1..n : i \in K => \E j \in 1..m : pos[j] = i
      /\ First = {j \in 1..m : pos[j] \in Q /\ \A k \in 1..(j - 1) : pos[k] \notin Q}
      /\ pass <=> \E j \in First : pos[j] \in I
      /\ hidden <=> \E j \in First : pos[j] \notin I
      /\ ~pass /\ ~hidden => (any <=> \E j \in 1..m : pos[j] \in I)
  BY DEF Picked, Finds, Firsts
<1>. HIDE DEF First
<1>1. \A j \in 1..m : pos[j] \in 1..n
  BY <1>0
<1>2. ASSUME NEW j \in 1..m, pos[j] \in Q
      PROVE  \E k \in First : k <= j
  <2>. DEFINE passing == {k \in 1..m : pos[k] \in Q}
  <2>1. passing \in SUBSET Nat /\ j \in passing
    BY <1>2
  <2>2. PICK k \in passing : \A i \in passing : k <= i
    <3>. HIDE DEF passing
    <3>. QED
      BY <2>1, LeastExists
  <2>3. \A i \in 1..(k - 1) : i \in 1..m /\ ~(k <= i)
    BY <2>2
  <2>4. \A i \in 1..(k - 1) : pos[i] \notin Q
    BY <2>2, <2>3
  <2>. QED
    BY <1>0, <1>2, <2>2, <2>4
<1>3. ASSUME ~hidden, any => pass, NEW i \in 1..n, i \in K
      PROVE  /\ i \in I => \E k \in 1..n : k \in K /\ k \in I /\ k \in Q
             /\ i \notin I /\ i \in Q => \E k \in 1..(i - 1) : k \in K /\ k \in I /\ k \in Q
  <2>1. PICK j \in 1..m : pos[j] = i
    BY <1>0, <1>3
  <2>2. ASSUME i \in I
        PROVE  \E k \in 1..n : k \in K /\ k \in I /\ k \in Q
    <3>1. pass
      BY <1>0, <1>3, <2>1, <2>2
    <3>2. PICK k \in First : pos[k] \in I
      BY <1>0, <3>1
    <3>3. k \in 1..m /\ pos[k] \in Q
      BY <1>0
    <3>. QED
      BY <1>0, <1>1, <3>2, <3>3
  <2>3. ASSUME i \notin I, i \in Q
        PROVE  \E k \in 1..(i - 1) : k \in K /\ k \in I /\ k \in Q
    <3>1. PICK k \in First : k <= j
      BY <1>2, <2>1, <2>3
    <3>2. k \in 1..m /\ pos[k] \in Q
      BY <1>0
    <3>3. pos[k] \in I
      BY <1>0, <1>3, <3>1
    <3>4. k < j
      BY <2>1, <2>3, <3>1, <3>2, <3>3
    <3>5. pos[k] < i /\ pos[k] \in 1..n
      BY <1>0, <1>1, <2>1, <3>2, <3>4
    <3>6. pos[k] \in 1..(i - 1)
      BY <3>5
    <3>. QED
      BY <1>0, <3>2, <3>3, <3>6
  <2>. QED
    BY <2>2, <2>3
<1>4. ASSUME \A i \in 1..n : i \in K =>
               /\ i \in I => \E k \in 1..n : k \in K /\ k \in I /\ k \in Q
               /\ i \notin I /\ i \in Q => \E k \in 1..(i - 1) : k \in K /\ k \in I /\ k \in Q
      PROVE  ~hidden /\ (any => pass)
  <2>1. ~hidden
    <3>1. SUFFICES ASSUME NEW j \in First, pos[j] \notin I PROVE FALSE
      BY <1>0
    <3>2. j \in 1..m /\ pos[j] \in Q /\ \A k \in 1..(j - 1) : pos[k] \notin Q
      BY <1>0
    <3>3. PICK i \in 1..(pos[j] - 1) : i \in K /\ i \in I /\ i \in Q
      BY <1>0, <1>1, <1>4, <3>1, <3>2
    <3>4. i \in 1..n /\ i < pos[j]
      BY <1>1, <3>2
    <3>5. PICK k \in 1..m : pos[k] = i
      BY <1>0, <3>3, <3>4
    <3>6. k < j
      <4>1. ~(j < k) /\ k # j
        <5>1. pos[j] \in Int /\ pos[k] \in Int /\ pos[k] < pos[j]
          BY <1>1, <3>2, <3>4, <3>5
        <5>2. j < k => pos[j] < pos[k]
          BY <1>0, <3>2
        <5>. QED
          BY <5>1, <5>2
      <4>. QED
        BY <3>2, <4>1
    <3>. QED
      BY <3>2, <3>3, <3>5, <3>6
  <2>2. ASSUME any, ~pass PROVE FALSE
    <3>1. PICK j \in 1..m : pos[j] \in I
      BY <1>0, <2>1, <2>2
    <3>2. PICK i \in 1..n : i \in K /\ i \in I /\ i \in Q
      BY <1>0, <1>1, <1>4, <3>1
    <3>3. PICK j2 \in 1..m : pos[j2] = i
      BY <1>0, <3>2
    <3>4. PICK k \in First : k <= j2
      BY <1>2, <3>2, <3>3
    <3>. QED
      BY <1>0, <2>1, <2>2, <3>4
  <2>. QED
    BY <2>1, <2>2
<1>. QED
  BY <1>3, <1>4 DEF Says

\* What the list says of the filters of one key.
KeySays(key, ev) ==
    LET F(i) == heap[filterList[i]].filter
        Included(before) == \E i \in 1..before : Key(F(i)) = key /\ F(i).include /\ Passes(F(i), ev)
    IN  \A i \in 1..Len(filterList) : Key(F(i)) = key =>
          /\ F(i).include => Included(Len(filterList))
          /\ ~F(i).include /\ Passes(F(i), ev) => Included(i - 1)

LEMMA KeyDecides ==
    ASSUME KInv, NEW key \in Kinds, NEW ev, NEW s, s = Scan(keyLists[key], ev)
    PROVE  ~s.hidden /\ (s.any => s.pass) <=> KeySays(key, ev)
<1>. DEFINE n == Len(filterList)
            kl == keyLists[key]
            m == Len(kl)
            F(i) == heap[filterList[i]].filter
            G(j) == heap[kl[j]].filter
            K == {i \in 1..n : Key(F(i)) = key}
            I == {i \in 1..n : F(i).include}
            Q == {i \in 1..n : Passes(F(i), ev)}
<1>1. filterList \in Seq(1..Len(heap)) /\ kl \in Seq(1..Len(heap))
  BY DEF KInv, FiltersIInv, TypeOK, KeysRight
<1>2. n \in Nat /\ m \in Nat
  BY <1>1, LenProperties
<1>3. PICK pos \in [1..m -> 1..n] :
        /\ \A i, j \in 1..m : i < j => pos[i] < pos[j]
        /\ \A j \in 1..m : kl[j] = filterList[pos[j]] /\ Key(F(pos[j])) = key
        /\ \A i \in 1..n : Key(F(i)) = key => \E j \in 1..m : pos[j] = i
  BY DEF KInv, KeysRight, Selection
<1>. DEFINE First == {j \in 1..m : pos[j] \in Q /\ \A k \in 1..(j - 1) : pos[k] \notin Q}
<1>4. \A j \in 1..m : pos[j] \in 1..n /\ G(j) = F(pos[j])
  BY <1>3
<1>5. \A j \in 1..m : /\ pos[j] \in K
                      /\ pos[j] \in I <=> G(j).include
                      /\ pos[j] \in Q <=> Passes(G(j), ev)
  <2>. HIDE DEF F, G, n, m
  <2>. QED
    BY <1>3, <1>4
<1>6. \A j \in 1..m : j \in First <=> /\ Passes(G(j), ev)
                                      /\ \A k \in 1..(j - 1) : ~Passes(G(k), ev)
  <2>1. \A j \in 1..m : \A k \in 1..(j - 1) : k \in 1..m
    BY <1>2
  <2>. HIDE DEF F, G, n, m, Q
  <2>. QED
    BY <1>5, <2>1
<1>7. /\ s.pass <=> \E j \in First : pos[j] \in I
      /\ s.hidden <=> \E j \in First : pos[j] \notin I
      /\ ~s.pass /\ ~s.hidden => (s.any <=> \E j \in 1..m : pos[j] \in I)
  <2>1. Decides(kl, ev, s)
    BY <1>1, ScanDecides
  <2>2. /\ s.pass   <=> \E j \in 1..m : /\ Passes(G(j), ev) /\ \A k \in 1..(j - 1) : ~Passes(G(k), ev)
                                        /\ G(j).include
        /\ s.hidden <=> \E j \in 1..m : /\ Passes(G(j), ev) /\ \A k \in 1..(j - 1) : ~Passes(G(k), ev)
                                        /\ ~G(j).include
        /\ ~s.pass /\ ~s.hidden => (s.any <=> \E j \in 1..m : G(j).include)
    BY <2>1 DEF Decides
  <2>3. \A j \in First : j \in 1..m
    OBVIOUS
  <2>. HIDE DEF First, I, G, m
  <2>. QED
    BY <1>5, <1>6, <2>2, <2>3
<1>8. /\ \A j \in 1..m : pos[j] \in K
      /\ \A i \in 1..n : i \in K => \E j \in 1..m : pos[j] = i
  BY <1>3, <1>5
<1>9. ~s.hidden /\ (s.any => s.pass) <=> Says(n, K, I, Q)
  <2>1. Picked(pos, m, n, K)
    <3>. HIDE DEF K, n, m
    <3>. QED
      BY <1>3, <1>8 DEF Picked
  <2>2. Finds(pos, m, I, Q, s.any, s.pass, s.hidden)
    <3>1. First = Firsts(pos, m, Q)
      BY DEF Firsts
    <3>. HIDE DEF First, I, Q, m
    <3>. QED
      BY <1>7, <3>1 DEF Finds
  <2>. HIDE DEF K, I, Q, n, m
  <2>. QED
    BY <1>2, <2>1, <2>2, FirstSpeaksForAll
<1>10. \A i \in 1..n : \A k \in 1..(i - 1) : k \in 1..n
  BY <1>2
<1>11. \A i \in 1..n : /\ i \in K <=> Key(F(i)) = key
                       /\ i \in I <=> F(i).include
                       /\ i \in Q <=> Passes(F(i), ev)
  OBVIOUS
<1>12. KeySays(key, ev) <=> Says(n, K, I, Q)
  <2>1. KeySays(key, ev) <=>
          \A i \in 1..n : Key(F(i)) = key =>
            /\ F(i).include => \E k \in 1..n : Key(F(k)) = key /\ F(k).include /\ Passes(F(k), ev)
            /\ ~F(i).include /\ Passes(F(i), ev) =>
                 \E k \in 1..(i - 1) : Key(F(k)) = key /\ F(k).include /\ Passes(F(k), ev)
    BY DEF KeySays
  <2>. HIDE DEF K, I, Q, F, n
  <2>. QED
    BY <1>10, <1>11, <2>1 DEF Says
<1>. QED
  <2>. HIDE DEF K, I, Q, n
  <2>. QED
    BY <1>9, <1>12

\* DoFilter shows the events the list of filters says it shows.
THEOREM ShownAsListedCorrect == SpecFilters => []ShownAsListed
<1>1. KInv => ShownAsListed
  <2>. SUFFICES ASSUME KInv, NEW ev \in Events PROVE DoFilter(ev) <=> Shown(ev)
    BY DEF ShownAsListed
  <2>. DEFINE F(i) == heap[filterList[i]].filter
              n == Len(filterList)
  <2>1. DoFilter(ev) <=> \A key \in Kinds : KeySays(key, ev)
    <3>1. ASSUME NEW key \in Kinds
          PROVE  (LET s == Scan(keyLists[key], ev) IN ~s.hidden /\ (s.any => s.pass))
                   <=> KeySays(key, ev)
      BY KeyDecides
    <3>. QED
      BY <3>1 DEF DoFilter
  <2>2. \A i \in 1..n : Key(F(i)) \in Kinds
    <3>1. /\ filterList \in Seq(1..Len(heap)) /\ heap \in Seq(Object)
      BY DEF KInv, FiltersIInv, TypeOK, Object
    <3>2. \A i \in 1..n : heap[filterList[i]] \in Object
      BY <3>1
    <3>3. \A i \in 1..n : F(i) \in Filters \cup {PidFilter(Self), PidFilter(SystemPid)}
      BY <3>2 DEF Object
    <3>4. \A f \in Filters \cup {PidFilter(Self), PidFilter(SystemPid)} : f.kind \in Kinds
      BY FiltersAssumption DEF PidFilter, Kinds, Numbers
    <3>5. \A i \in 1..n : F(i).kind \in Kinds
      BY <3>3, <3>4
    <3>6. "EventPath" \in Kinds
      BY DEF Kinds, Strings
    <3>. QED
      BY <3>5, <3>6 DEF Key
  <2>. DEFINE Included(key, before) ==
                \E k \in 1..before : Key(F(k)) = key /\ F(k).include /\ Passes(F(k), ev)
  <2>3. \A key \in Kinds : KeySays(key, ev) <=>
          \A i \in 1..n : Key(F(i)) = key =>
            /\ F(i).include => Included(key, n)
            /\ ~F(i).include /\ Passes(F(i), ev) => Included(key, i - 1)
    BY DEF KeySays
  <2>4. Shown(ev) <=>
          \A i \in 1..n :
            IF F(i).include THEN Included(Key(F(i)), n)
            ELSE Passes(F(i), ev) => Included(Key(F(i)), i - 1)
    BY DEF Shown
  <2>. HIDE DEF Included, F, n
  <2>5. ASSUME \A key \in Kinds : KeySays(key, ev) PROVE Shown(ev)
    BY <2>2, <2>3, <2>4, <2>5
  <2>6. ASSUME Shown(ev), NEW key \in Kinds PROVE KeySays(key, ev)
    BY <2>3, <2>4, <2>6
  <2>. QED
    BY <2>1, <2>5, <2>6
<1>. QED
  BY KeysInvariance, <1>1, PTL

-----------------------------------------------------------------------------
(* Replies.  The invariant is that the event is what one of the handlers   *)
(* makes of the message; the properties are facts about Parsed.            *)

Parses == /\ msg.class \in Classes
          /\ Complete(msg)
          /\ msg.CopySize >= Header[msg.class]
          /\ event = Parsed(msg)

Sets == /\ msg.class = "SetValue"
        /\ Complete(msg)
        /\ event = [kind |-> "SetValue", name |-> 0, part |-> msg.CopySize,
                    more |-> msg.CopySize < msg.Length,
                    kept |-> {<<0, msg.CopySize>>}, peeked |-> {}]

Bare == event.kind \in {"none", "dropped", "plain"} /\ event.kept = {} /\ event.peeked = {}

IInv == \/ msg \in Message /\ (Bare \/ Parses \/ Sets)
        \/ msg \in OpenMessage /\ event = NoEvent

\* What is shown is a value of the event's data, or the access of an open
\* call.
ShownIsMade ==
    \/ detail = NoDetail
    \/ /\ event.kind \in {"KeyValueFull", "KeyValuePartial", "SetValue"}
       /\ \E t \in Types, data \in [1..event.part -> Bytes] :
            detail = [kind |-> "value", type |-> t, data |-> data,
                      value |-> CRegKeyValue(t, msg.Length, data)]
    \/ /\ msg \in OpenMessage
       /\ detail = [kind |-> "access", text |-> DesiredAccessString(msg.class, msg.mask)]

\* Types of the fields of a message.
LEMMA MessageFields ==
    ASSUME NEW m \in Message
    PROVE  /\ m.class \in Classes \cup {"SetValue"}
           /\ m.arrived \in Nat /\ m.CopySize \in Nat
           /\ m.NameLength \in Nat /\ m.Offset \in Nat /\ m.Length \in Nat
BY SizesAssumption DEF Message

\* Every class has its fields at the start of its reply.
LEMMA HeaderType ==
    ASSUME NEW class \in Classes
    PROVE  /\ Header[class] \in Nat
           /\ FieldsEnd(class) \in Nat
           /\ FieldsEnd(class) <= Header[class]
           /\ Header[class] <= 44
BY DEF Classes, ValueClasses, KeyClasses, Header, FieldsEnd

\* Text is as long as its bytes, or one byte shorter.
LEMMA CharsBound ==
    ASSUME NEW length \in Nat
    PROVE  Chars(length) \in Nat /\ Chars(length) <= length
BY DEF Chars

\* A part that GetByteArrayMaxLength cuts is inside what was copied, unless
\* it is empty; and it is only cut if it has to be.
LEMMA MaxLength ==
    ASSUME NEW size \in Nat, NEW myOffset \in Nat, NEW myLength \in Nat
    PROVE  LET len == GetByteArrayMaxLength(size, myOffset, myLength) IN
             /\ len \in Nat
             /\ len <= myLength
             /\ len > 0 => myOffset + len <= size
             /\ myOffset # ULONG_MAX /\ myOffset + myLength <= size => len = myLength
             /\ myOffset # ULONG_MAX /\ myOffset + myLength > size /\ myLength > 0 => len < myLength
             /\ myOffset = ULONG_MAX => len = 0
BY DEF GetByteArrayMaxLength

\* The parts of a message have positions and lengths in the reply.
LEMMA PartsType ==
    ASSUME NEW m \in Message, m.class \in Classes
    PROVE  /\ PartAt(m) \in Nat
           /\ Name(m) \in Nat
           /\ Part(m) \in Nat
           /\ Name(m) > 0 => Header[m.class] + Name(m) <= m.CopySize
           /\ Part(m) > 0 => PartAt(m) + Part(m) <= m.CopySize
<1>1. PartAt(m) \in Nat
  BY MessageFields DEF PartAt
<1>2. Name(m) \in Nat /\ (Name(m) > 0 => Header[m.class] + Name(m) <= m.CopySize)
  <2>1. CASE m.class \in WithName
    <3>1. /\ Name(m) = GetByteArrayMaxLength(m.CopySize, Header[m.class], m.NameLength)
          /\ m.CopySize \in Nat /\ Header[m.class] \in Nat /\ m.NameLength \in Nat
      BY <2>1, MessageFields, HeaderType DEF Name
    <3> DEFINE at == Header[m.class]
               len == GetByteArrayMaxLength(m.CopySize, at, m.NameLength)
    <3>2. at \in Nat
      BY <3>1
    <3> HIDE DEF at
    <3>3. len \in Nat /\ (len > 0 => at + len <= m.CopySize)
      BY <3>1, <3>2, MaxLength
    <3>4. Name(m) = len
      BY <3>1 DEF at
    <3> HIDE DEF len
    <3> QED BY <3>3, <3>4 DEF at
  <2>2. CASE m.class \notin WithName
    BY <2>2 DEF Name
  <2> QED BY <2>1, <2>2
<1>3. Part(m) \in Nat /\ (Part(m) > 0 => PartAt(m) + Part(m) <= m.CopySize)
  <2>1. CASE m.class \in WithPart
    <3>1. /\ Part(m) = GetByteArrayMaxLength(m.CopySize, PartAt(m), m.Length)
          /\ m.CopySize \in Nat /\ PartAt(m) \in Nat /\ m.Length \in Nat
      BY <1>1, <2>1, MessageFields DEF Part
    <3> DEFINE at == PartAt(m)
               len == GetByteArrayMaxLength(m.CopySize, at, m.Length)
    <3>2. at \in Nat
      BY <3>1
    <3> HIDE DEF at
    <3>3. len \in Nat /\ (len > 0 => at + len <= m.CopySize)
      BY <3>1, <3>2, MaxLength
    <3>4. Part(m) = len
      BY <3>1 DEF at
    <3> HIDE DEF len
    <3> QED BY <3>3, <3>4 DEF at
  <2>2. CASE m.class \notin WithPart
    BY <2>2 DEF Part
  <2> QED BY <2>1, <2>2
<1> QED BY <1>1, <1>2, <1>3

-----------------------------------------------------------------------------

\* The two sorts of messages have different classes.
LEMMA SortsOfMessages ==
    /\ msg \in Message => msg.class \notin DOMAIN ObjectKinds
    /\ msg \in OpenMessage => msg.class \in DOMAIN ObjectKinds
<1>1. DOMAIN ObjectKinds = {"File", "Process", "Thread", "Key", "Mutant", "Directory"}
  BY DEF ObjectKinds
<1>2. msg \in Message => msg.class \in Classes \cup {"SetValue"}
  BY MessageFields
<1>3. msg \in OpenMessage => msg.class \in DOMAIN ObjectKinds
  BY DEF OpenMessage
<1>. QED
  BY <1>1, <1>2, <1>3 DEF Classes, ValueClasses, KeyClasses

\* A message without an event, and nothing shown.
LEMMA InitIInv == InitDetails => IInv /\ ShownIsMade
BY DEF InitDetails, IInv, ShownIsMade, Bare, NoEvent, Plain

\* Each handler makes the event of its message, or none.
LEMMA NextIInv == IInv /\ [Next]_vars => IInv'
<1>. SUFFICES ASSUME IInv, [Next]_vars PROVE IInv'
  OBVIOUS
<1>1. CASE UNCHANGED vars
  BY <1>1 DEF IInv, vars, Bare, Parses, Sets
<1>2. CASE Next
  <2>1. msg' = msg /\ msg.class \in Classes \cup {"SetValue"}
    BY <1>2 DEF Next, OnRgQueryValueKey, OnRgQueryKey, OnRgQuery, OnRgSetValueKey, Classes
  <2>2. msg \in Message
    <3>1. msg.class \notin DOMAIN ObjectKinds
      BY <2>1 DEF ObjectKinds, Classes, ValueClasses, KeyClasses
    <3>. QED
      BY <3>1, SortsOfMessages DEF IInv
  <2>3. CASE event' = Dropped \/ event' = Plain
    BY <2>1, <2>2, <2>3 DEF IInv, Bare, Dropped, Plain
  <2>4. CASE event' # Dropped /\ event' # Plain /\ ~OnRgSetValueKey(msg)
    <3>1. /\ msg.class \in Classes
          /\ Complete(msg) /\ msg.CopySize >= Header[msg.class]
          /\ event' = Parsed(msg)
      BY <1>2, <2>4 DEF Next, OnRgQueryValueKey, OnRgQueryKey, OnRgQuery, Classes
    <3>. QED
      BY <2>1, <2>2, <3>1 DEF IInv, Parses
  <2>5. CASE event' # Dropped /\ OnRgSetValueKey(msg)
    <3>1. /\ msg.class = "SetValue" /\ Complete(msg)
          /\ event' = [kind |-> "SetValue", name |-> 0, part |-> msg.CopySize,
                       more |-> msg.CopySize < msg.Length,
                       kept |-> {<<0, msg.CopySize>>}, peeked |-> {}]
      BY <2>5 DEF OnRgSetValueKey
    <3>. QED
      BY <2>1, <2>2, <3>1 DEF IInv, Sets
  <2>. QED
    BY <2>3, <2>4, <2>5
<1>. QED
  BY <1>1, <1>2 DEF Next

\* Something is shown of the event that was made, once.
LEMMA NextShown ==
    IInv /\ ShownIsMade /\ [NextDetails]_<<msg, event, detail>> => ShownIsMade'
<1>. SUFFICES ASSUME IInv, ShownIsMade, [NextDetails]_<<msg, event, detail>>
              PROVE  ShownIsMade'
  OBVIOUS
<1>1. CASE detail = NoDetail /\ Next /\ UNCHANGED detail
  BY <1>1 DEF ShownIsMade
<1>2. CASE ShowValue
  BY <1>2 DEF ShowValue, ShownIsMade
<1>3. CASE ShowAccess
  <2>1. msg \in OpenMessage
    BY <1>3, SortsOfMessages DEF ShowAccess, IInv
  <2>. QED
    BY <1>3, <2>1 DEF ShowAccess, ShownIsMade
<1>4. CASE UNCHANGED <<msg, event, detail>>
  BY <1>4 DEF ShownIsMade
<1>. QED
  BY <1>1, <1>2, <1>3, <1>4 DEF NextDetails

\* The event is always what a handler makes of the message, and what is shown
\* is made of that.
THEOREM Invariance == SpecDetails => [](IInv /\ ShownIsMade)
<1>1. InitDetails => IInv /\ ShownIsMade
  BY InitIInv
<1>2. IInv /\ [NextDetails]_<<msg, event, detail>> => IInv'
  <2>1. [NextDetails]_<<msg, event, detail>> => [Next]_vars
    BY DEF NextDetails, ShowValue, ShowAccess, vars
  <2>. QED
    BY <2>1, NextIInv
<1>. QED
  BY <1>1, <1>2, NextShown, PTL DEF SpecDetails

-----------------------------------------------------------------------------

\* What an event keeps was copied, and was sent.
LEMMA IInvKeeps == IInv => KeptIsCopied
<1>. SUFFICES ASSUME IInv PROVE KeptIsCopied
  OBVIOUS
<1>1. CASE event.kept = {} /\ event.peeked = {}
  BY <1>1 DEF KeptIsCopied
<1>2. CASE msg \in Message /\ Parses
  <2>. DEFINE class == msg.class
              name == Chars(Name(msg))
              part == IF PartIsText(class) THEN Chars(Part(msg)) ELSE Part(msg)
  <2>1. /\ class \in Classes
        /\ msg.CopySize \in Nat /\ msg.arrived \in Nat /\ msg.CopySize <= msg.arrived
        /\ Header[class] \in Nat /\ Header[class] <= msg.CopySize
        /\ FieldsEnd(class) \in Nat /\ FieldsEnd(class) <= Header[class]
    BY <1>2, MessageFields, HeaderType DEF Parses, Complete
  <2>2. name \in Nat /\ Header[class] + name <= msg.CopySize
    BY <1>2, <2>1, PartsType, CharsBound
  <2>3. part \in Nat /\ (part > 0 => PartAt(msg) \in Nat /\ PartAt(msg) + part <= msg.CopySize)
    BY <1>2, <2>1, PartsType, CharsBound
  <2>4. PartIsText(class) /\ Part(msg) # 0 =>
          PartAt(msg) \in Nat /\ PartAt(msg) + Chars(Part(msg)) <= msg.CopySize
    <3>. SUFFICES ASSUME PartIsText(class), Part(msg) # 0
                  PROVE  PartAt(msg) \in Nat /\ PartAt(msg) + Chars(Part(msg)) <= msg.CopySize
      OBVIOUS
    <3>1. Part(msg) \in Nat /\ PartAt(msg) \in Nat /\ PartAt(msg) + Part(msg) <= msg.CopySize
      BY <1>2, <2>1, PartsType
    <3>2. Chars(Part(msg)) \in Nat /\ Chars(Part(msg)) <= Part(msg)
      BY <3>1, CharsBound
    <3>. QED
      BY <2>1, <3>1, <3>2
  <2>5. /\ event.kept = {<<0, FieldsEnd(class)>>, <<Header[class], Header[class] + name>>}
                          \cup (IF part > 0 THEN {<<PartAt(msg), PartAt(msg) + part>>} ELSE {})
        /\ event.peeked = Behind(Header[class], Name(msg))
                            \cup (IF PartIsText(class) THEN Behind(PartAt(msg), Part(msg)) ELSE {})
    BY <1>2 DEF Parses, Parsed
  <2>6. ASSUME NEW r \in event.kept PROVE 0 <= r[1] /\ r[1] <= r[2] /\ r[2] <= msg.CopySize
    <3>1. CASE r = <<0, FieldsEnd(class)>>
      BY <2>1, <3>1
    <3>2. CASE r = <<Header[class], Header[class] + name>>
      <4>. HIDE DEF name
      <4>. QED
        BY <2>1, <2>2, <3>2
    <3>3. CASE part > 0 /\ r = <<PartAt(msg), PartAt(msg) + part>>
      <4>. HIDE DEF part
      <4>. QED
        BY <2>1, <2>3, <3>3
    <3>. HIDE DEF part, name
    <3>. QED
      BY <2>5, <2>6, <3>1, <3>2, <3>3
  <2>7. ASSUME NEW p \in event.peeked PROVE p <= msg.CopySize
    <3>1. p = Header[class] + Chars(Name(msg))
            \/ (PartIsText(class) /\ Part(msg) # 0 /\ p = PartAt(msg) + Chars(Part(msg)))
      BY <2>5, <2>7 DEF Behind
    <3>. QED
      BY <2>2, <2>4, <3>1
  <2>. QED
    BY <2>1, <2>6, <2>7 DEF KeptIsCopied
<1>3. CASE msg \in Message /\ Sets
  <2>1. /\ event.kept = {<<0, msg.CopySize>>} /\ event.peeked = {}
        /\ msg.CopySize \in Nat /\ msg.CopySize <= msg.arrived
    BY <1>3, MessageFields DEF Sets, Complete
  <2>. QED
    BY <2>1 DEF KeptIsCopied
<1>. QED
  BY <1>1, <1>2, <1>3 DEF IInv, Bare, NoEvent, Plain

\* Whatever the system left in a reply and wherever the driver cut it, an event
\* keeps only what was copied, and the hash of a text (StringMgr.cpp) looks no
\* further than the character right behind the copy.
THEOREM KeptIsCopiedCorrect == SpecDetails => []KeptIsCopied
BY IInvKeeps, Invariance, PTL

\* An event parsed from its message has all of a name or part that was copied.
LEMMA IInvKept == IInv => CopiedPartsKept /\ MoreIsShown
<1> SUFFICES ASSUME IInv, event.kind \in Classes PROVE CopiedPartsKept /\ MoreIsShown
  BY DEF CopiedPartsKept, MoreIsShown, Classes, ValueClasses
<1>1. msg \in Message /\ (Bare \/ Parses \/ Sets)
  BY DEF IInv, NoEvent, Plain, Classes, ValueClasses, KeyClasses
<1>2. Parses
  BY <1>1 DEF Bare, Sets, Classes, ValueClasses, KeyClasses
<1>3. /\ event.kind = msg.class
      /\ event.name = Chars(Name(msg))
      /\ event.part = IF PartIsText(msg.class) THEN Chars(Part(msg)) ELSE Part(msg)
      /\ event.more = (msg.class \in {"KeyValueFull", "KeyValuePartial"} /\ Part(msg) < msg.Length)
  BY <1>2 DEF Parses, Parsed
<1>4. msg.class \in Classes /\ Header[msg.class] \in Nat /\ PartAt(msg) \in Nat
      /\ Header[msg.class] # ULONG_MAX
  BY <1>1, <1>2, HeaderType, PartsType, ULONGAssumption DEF Parses
<1>5. ASSUME msg.class \in WithName, Header[msg.class] + msg.NameLength <= msg.CopySize
      PROVE  event.name = Chars(msg.NameLength)
  BY <1>1, <1>3, <1>4, <1>5, MessageFields, MaxLength DEF Name
<1>6. ASSUME msg.class \in WithPart, PartAt(msg) + msg.Length <= msg.CopySize, PartAt(msg) # ULONG_MAX
      PROVE  Part(msg) = msg.Length
  BY <1>1, <1>4, <1>6, MessageFields, MaxLength DEF Part
<1>7. ASSUME msg.class \in WithPart, msg.Length > 0
      PROVE  Part(msg) < msg.Length <=> \/ PartAt(msg) + msg.Length > msg.CopySize
                                        \/ PartAt(msg) = ULONG_MAX
  <2>1. /\ msg.Length \in Nat /\ msg.CopySize \in Nat /\ PartAt(msg) \in Nat
        /\ Part(msg) = GetByteArrayMaxLength(msg.CopySize, PartAt(msg), msg.Length)
    BY <1>1, <1>4, <1>7, MessageFields DEF Part
  <2> DEFINE len == GetByteArrayMaxLength(msg.CopySize, PartAt(msg), msg.Length)
  <2>2. /\ len \in Nat /\ len <= msg.Length
        /\ PartAt(msg) # ULONG_MAX /\ PartAt(msg) + msg.Length <= msg.CopySize => len = msg.Length
        /\ PartAt(msg) # ULONG_MAX /\ PartAt(msg) + msg.Length > msg.CopySize => len < msg.Length
        /\ PartAt(msg) = ULONG_MAX => len = 0
    BY <2>1, <1>7, MaxLength
  <2> HIDE DEF len
  <2>3. Part(msg) = len
    BY <2>1 DEF len
  <2> QED BY <2>1, <2>2, <2>3, <1>7
<1>8. CopiedPartsKept
  BY <1>3, <1>5, <1>6 DEF CopiedPartsKept
<1>9. MoreIsShown
  BY <1>3, <1>7 DEF MoreIsShown, WithPart
<1> QED BY <1>8, <1>9

\* What was copied of a name or of data is in the event in full, and data that
\* was not copied in full is marked.
THEOREM CopiedPartsCorrect == SpecDetails => [](CopiedPartsKept /\ MoreIsShown)
<1>1. IInv => CopiedPartsKept /\ MoreIsShown
  BY IInvKept
<1> QED BY <1>1, Invariance, PTL


-----------------------------------------------------------------------------
(* Values. *)

\* The data of an event is a part of the value exactly if the value goes on
\* behind what was copied.
LEMMA PartOfValue ==
    ASSUME IInv, event.kind \in {"KeyValueFull", "KeyValuePartial", "SetValue"}
    PROVE  LET at == IF msg.class = "SetValue" THEN 0 ELSE PartAt(msg)
           IN  /\ event.part \in Nat
               /\ event.part < msg.Length <=>
                    msg.Length > 0 /\ (at + msg.Length > msg.CopySize \/ at = ULONG_MAX)
<1>1. msg \in Message /\ (Parses \/ Sets)
  BY DEF IInv, NoEvent, Plain, Bare
<1>2. msg.Length \in Nat /\ msg.CopySize \in Nat
  BY <1>1, MessageFields
<1>3. CASE Sets
  BY <1>2, <1>3, ULONGAssumption DEF Sets
<1>4. CASE Parses
  <2>1. msg.class = event.kind /\ msg.class \in Classes /\ msg.class # "SetValue"
    BY <1>4 DEF Parses, Parsed, Classes, ValueClasses, KeyClasses
  <2>2. msg.class \in WithPart /\ ~PartIsText(msg.class)
    BY <2>1 DEF WithPart, PartIsText
  <2>3. event.part = Part(msg)
    BY <1>4, <2>2 DEF Parses, Parsed
  <2>. DEFINE at == PartAt(msg)
              len == GetByteArrayMaxLength(msg.CopySize, at, msg.Length)
  <2>4. at \in Nat /\ Part(msg) = len
    BY <1>1, <2>1, <2>2, PartsType DEF Part
  <2>. HIDE DEF at
  <2>5. /\ len \in Nat
        /\ len <= msg.Length
        /\ at # ULONG_MAX /\ at + msg.Length <= msg.CopySize => len = msg.Length
        /\ at # ULONG_MAX /\ at + msg.Length > msg.CopySize /\ msg.Length > 0 => len < msg.Length
        /\ at = ULONG_MAX => len = 0
    BY <1>2, <2>4 DEF GetByteArrayMaxLength
  <2>. HIDE DEF len
  <2>6. len < msg.Length <=> msg.Length > 0 /\ (at + msg.Length > msg.CopySize \/ at = ULONG_MAX)
    BY <1>2, <2>4, <2>5
  <2>. QED
    BY <2>1, <2>3, <2>4, <2>5, <2>6 DEF at
<1>. QED
  BY <1>1, <1>3, <1>4

\* Functions of an interval from 1 are sequences.
LEMMA FunctionIsSeq ==
    ASSUME NEW S, NEW n \in Nat, NEW f \in [1..n -> S]
    PROVE  f \in Seq(S) /\ Len(f) = n
<1>1. f \in Seq(S)
  BY SeqDef
<1>2. DOMAIN f = 1..n /\ DOMAIN f = 1..Len(f) /\ Len(f) \in Nat
  BY <1>1, LenProperties
<1>. QED
  BY <1>1, <1>2

\* What is shown as a string or as bytes knows whether it is all.
LEMMA ShownValue == IInv /\ ShownIsMade => MoreIsSaid
<1>. SUFFICES ASSUME IInv, ShownIsMade, detail.kind = "value", detail.type \notin NumberTypes
              PROVE  LET at == IF msg.class = "SetValue" THEN 0 ELSE PartAt(msg)
                     IN  detail.value.more <=>
                           msg.Length > 0 /\ (at + msg.Length > msg.CopySize \/ at = ULONG_MAX)
  BY DEF MoreIsSaid
<1>1. /\ event.kind \in {"KeyValueFull", "KeyValuePartial", "SetValue"}
      /\ \E t \in Types, data \in [1..event.part -> Bytes] :
            detail = [kind |-> "value", type |-> t, data |-> data,
                      value |-> CRegKeyValue(t, msg.Length, data)]
  <2>1. detail # NoDetail /\ detail.kind # "access"
    BY DEF NoDetail
  <2>. QED
    BY <2>1 DEF ShownIsMade
<1>2. PICK t \in Types, data \in [1..event.part -> Bytes] :
        detail = [kind |-> "value", type |-> t, data |-> data,
                  value |-> CRegKeyValue(t, msg.Length, data)]
  BY <1>1
<1>3. detail.type = t /\ detail.value = CRegKeyValue(t, msg.Length, data)
  BY <1>2
<1>4. LET at == IF msg.class = "SetValue" THEN 0 ELSE PartAt(msg)
      IN  /\ event.part \in Nat
          /\ event.part < msg.Length <=>
               msg.Length > 0 /\ (at + msg.Length > msg.CopySize \/ at = ULONG_MAX)
  BY <1>1, PartOfValue
<1>5. Len(data) = event.part
  <2>1. event.part \in Nat
    BY ONLY <1>4
  <2>. QED
    BY <2>1, FunctionIsSeq
<1>6. detail.value.more = (Len(data) < msg.Length)
  BY <1>3 DEF CRegKeyValue
<1>. QED
  BY <1>4, <1>5, <1>6

\* A value shown as a string or as bytes says whether it was cut, for data of
\* any length, cut anywhere, and whatever the reply says where they are.
THEOREM MoreIsSaidCorrect == SpecDetails => []MoreIsSaid
BY ShownValue, Invariance, PTL

-----------------------------------------------------------------------------
(* Access masks: first one test, then a chain of tests, then the tables.   *)

\* A right whose name is in N.
IsRight(r, N) == r.name \in N /\ r.bits \in SUBSET (0..31)

OwnNames(rights) == \A r, s \in rights : r.name = s.name => r = s

\* What a chain has made of a mask when the rights done were tested.
ShownSo(mask, done, acc, N) ==
    /\ acc \in [left : SUBSET (0..31), names : Seq(N)]
    /\ acc.left = mask \ UNION {r.bits : r \in done}
    /\ \A p \in 1..Len(acc.names) :
         \E r \in done : r.name = acc.names[p] /\ r.bits \cap mask # {}
    /\ \A b \in mask \ acc.left :
         \E p \in 1..Len(acc.names), r \in done : r.name = acc.names[p] /\ b \in r.bits
    /\ \A p, q \in 1..Len(acc.names), r, s \in done :
         p # q /\ r.name = acc.names[p] /\ s.name = acc.names[q] => r.bits \cap s.bits = {}
    /\ \A t \in done : t.bits \cap mask # {} =>
         \E p \in 1..Len(acc.names), r \in done : r.name = acc.names[p] /\ t.bits \subseteq r.bits

\* A right is not covered in part by one that is tested before it.
Follows(right, done) ==
    \A r \in done : r.bits \cap right.bits = {} \/ right.bits \subseteq r.bits

LEMMA OneTest ==
    ASSUME NEW N, NEW mask \in SUBSET (0..31), NEW done, NEW acc, ShownSo(mask, done, acc, N),
           NEW right, IsRight(right, N), Follows(right, done), OwnNames(done \cup {right})
    PROVE  ShownSo(mask, done \cup {right}, Show(acc, right), N)
<1>. DEFINE after == done \cup {right}
            left == acc.left
            names == acc.names
            n == Len(names)
<1>1. /\ acc \in [left : SUBSET (0..31), names : Seq(N)]
      /\ left \in SUBSET (0..31) /\ names \in Seq(N) /\ n \in Nat
      /\ left = mask \ UNION {r.bits : r \in done}
      /\ right.name \in N /\ right.bits \in SUBSET (0..31)
  BY LenProperties DEF ShownSo, IsRight
<1>2. UNION {r.bits : r \in after} = right.bits \cup UNION {r.bits : r \in done}
  OBVIOUS
<1>3. \A p \in 1..n : \E r \in done : r.name = names[p] /\ r.bits \cap mask # {}
  BY DEF ShownSo
<1>4. \A b \in mask \ left : \E p \in 1..n, r \in done : r.name = names[p] /\ b \in r.bits
  BY DEF ShownSo
<1>5. \A p, q \in 1..n, r, s \in done :
         p # q /\ r.name = names[p] /\ s.name = names[q] => r.bits \cap s.bits = {}
  BY DEF ShownSo
<1>10. \A t \in done : t.bits \cap mask # {} =>
         \E p \in 1..n, r \in done : r.name = names[p] /\ t.bits \subseteq r.bits
  BY DEF ShownSo
<1>6. \A p \in 1..n, r \in after : r.name = names[p] => r \in done
  <2>. TAKE p \in 1..n, r \in after
  <2>1. PICK s \in done : s.name = names[p]
    BY <1>3
  <2>. QED
    BY <2>1 DEF OwnNames
<1>7. left \cap UNION {r.bits : r \in done} = {}
  BY <1>1
<1>. HIDE DEF left, names, n
<1>8. CASE left \cap right.bits = {}
  <2>1. Show(acc, right) = acc
    BY <1>8 DEF Show, left
  <2>2. left = mask \ UNION {r.bits : r \in after}
    BY <1>1, <1>2, <1>8
  <2>3. \A p \in 1..n : \E r \in after : r.name = names[p] /\ r.bits \cap mask # {}
    BY <1>3
  <2>4. \A b \in mask \ left : \E p \in 1..n, r \in after : r.name = names[p] /\ b \in r.bits
    BY <1>4
  <2>5. \A p, q \in 1..n, r, s \in after :
           p # q /\ r.name = names[p] /\ s.name = names[q] => r.bits \cap s.bits = {}
    BY <1>5, <1>6
  <2>7. ASSUME right.bits \cap mask # {}
        PROVE  \E p \in 1..n, r \in done : r.name = names[p] /\ right.bits \subseteq r.bits
    <3>1. PICK b \in right.bits \cap mask : b \notin left
      BY <1>8, <2>7
    <3>2. PICK t \in done : b \in t.bits
      BY <1>1, <3>1
    <3>3. right.bits \subseteq t.bits /\ t.bits \cap mask # {}
      BY <3>1, <3>2 DEF Follows
    <3>. QED
      BY <1>10, <3>3
  <2>8. \A t \in after : t.bits \cap mask # {} =>
           \E p \in 1..n, r \in after : r.name = names[p] /\ t.bits \subseteq r.bits
    BY <1>10, <2>7
  <2>. HIDE DEF after
  <2>6. ShownSo(mask, after, acc, N)
    BY <1>1, <2>2, <2>3, <2>4, <2>5, <2>8 DEF ShownSo, left, names, n
  <2>. QED
    BY <2>1, <2>6 DEF after
<1>9. CASE left \cap right.bits # {}
  <2>. DEFINE more == Append(names, right.name)
              rest == left \ right.bits
  <2>1. Show(acc, right) = [left |-> rest, names |-> more]
    BY <1>9 DEF Show, left, names
  <2>2. /\ more \in Seq(N) /\ Len(more) = n + 1
        /\ \A p \in 1..n : more[p] = names[p]
        /\ more[n + 1] = right.name
    BY <1>1, AppendProperties DEF n
  <2>3. rest = mask \ UNION {r.bits : r \in after} /\ rest \in SUBSET (0..31)
    BY <1>1, <1>2
  <2>4. right \notin done /\ \A r \in done : r.bits \cap right.bits = {}
    <3>1. \A r \in done : left \cap r.bits = {}
      BY <1>7
    <3>2. \A r \in done : ~(right.bits \subseteq r.bits)
      BY <1>9, <3>1
    <3>. QED
      BY <1>9, <3>1, <3>2 DEF Follows
  <2>5. right.bits \cap mask # {}
    BY <1>1, <1>9
  <2>6. \A p \in 1..(n + 1) : p \in 1..n \/ p = n + 1
    BY <1>1
  <2>7. \A p \in 1..n : p \in 1..(n + 1)
    BY <1>1
  <2>8. n + 1 \in 1..(n + 1)
    BY <1>1
  <2>. HIDE DEF more
  <2>9. \A p \in 1..(n + 1) : \E r \in after : r.name = more[p] /\ r.bits \cap mask # {}
    <3>. TAKE p \in 1..(n + 1)
    <3>1. CASE p \in 1..n
      BY <1>3, <2>2, <3>1
    <3>2. CASE p = n + 1
      BY <2>2, <2>5, <3>2
    <3>. QED
      BY <2>6, <3>1, <3>2
  <2>10. \A b \in mask \ rest : \E p \in 1..(n + 1), r \in after : r.name = more[p] /\ b \in r.bits
    <3>. TAKE b \in mask \ rest
    <3>1. CASE b \in right.bits
      BY <2>2, <2>8, <3>1
    <3>2. CASE b \notin right.bits
      <4>1. b \in mask \ left
        BY <3>2
      <4>2. PICK p \in 1..n, r \in done : r.name = names[p] /\ b \in r.bits
        BY <1>4, <4>1
      <4>. QED
        BY <2>2, <2>7, <4>2
    <3>. QED
      BY <3>1, <3>2
  <2>11. ASSUME NEW p \in 1..(n + 1), NEW q \in 1..(n + 1), NEW r \in after, NEW s \in after,
                p # q, r.name = more[p], s.name = more[q]
         PROVE  r.bits \cap s.bits = {}
    <3>1. CASE p \in 1..n /\ q \in 1..n
      <4>1. r \in done /\ s \in done /\ r.name = names[p] /\ s.name = names[q]
        BY <1>6, <2>2, <2>11, <3>1
      <4>. QED
        BY <1>5, <2>11, <3>1, <4>1
    <3>2. CASE p \in 1..n /\ q = n + 1
      <4>1. r \in done
        BY <1>6, <2>2, <2>11, <3>2
      <4>2. s = right
        BY <2>2, <2>11, <3>2 DEF OwnNames
      <4>. QED
        BY <2>4, <4>1, <4>2
    <3>3. CASE q \in 1..n /\ p = n + 1
      <4>1. s \in done
        BY <1>6, <2>2, <2>11, <3>3
      <4>2. r = right
        BY <2>2, <2>11, <3>3 DEF OwnNames
      <4>. QED
        BY <2>4, <4>1, <4>2
    <3>. QED
      BY <2>6, <2>11, <3>1, <3>2, <3>3
  <2>14. ASSUME NEW t \in after, t.bits \cap mask # {}
         PROVE  \E p \in 1..(n + 1), r \in after : r.name = more[p] /\ t.bits \subseteq r.bits
    <3>1. CASE t = right
      BY <2>2, <2>8, <3>1
    <3>2. CASE t \in done
      <4>1. PICK p \in 1..n, r \in done : r.name = names[p] /\ t.bits \subseteq r.bits
        BY <1>10, <2>14, <3>2
      <4>. QED
        BY <2>2, <2>7, <4>1
    <3>. QED
      BY <3>1, <3>2
  <2>. HIDE DEF after, rest
  <2>. DEFINE new == [left |-> rest, names |-> more]
  <2>12. new \in [left : SUBSET (0..31), names : Seq(N)] /\ new.left = rest /\ new.names = more
    BY <2>2, <2>3
  <2>. HIDE DEF new
  <2>13. ShownSo(mask, after, new, N)
    <3>1. Len(new.names) = n + 1 /\ new.left = rest
      BY <2>2, <2>12
    <3>2. \A t \in after : t.bits \cap mask # {} =>
             \E p \in 1..Len(new.names), r \in after : r.name = new.names[p] /\ t.bits \subseteq r.bits
      BY <2>12, <2>14, <3>1
    <3>3. \A p, q \in 1..Len(new.names), r, s \in after :
             p # q /\ r.name = new.names[p] /\ s.name = new.names[q] => r.bits \cap s.bits = {}
      BY <2>11, <2>12, <3>1
    <3>4. \A p \in 1..Len(new.names) : \E r \in after : r.name = new.names[p] /\ r.bits \cap mask # {}
      BY <2>9, <2>12, <3>1
    <3>5. \A b \in mask \ new.left :
             \E p \in 1..Len(new.names), r \in after : r.name = new.names[p] /\ b \in r.bits
      BY <2>10, <2>12, <3>1
    <3>6. new.left = mask \ UNION {r.bits : r \in after}
      BY <2>3, <3>1
    <3>. QED
      BY <2>12, <3>2, <3>3, <3>4, <3>5, <3>6 DEF ShownSo
  <2>. QED
    BY <2>1, <2>13 DEF after, new
<1>. QED
  BY <1>8, <1>9

\* The rights of a list up to the k-th.
UpTo(rights, k) == {rights[i] : i \in 1..k}

LEMMA ChainOfTests ==
    ASSUME NEW N, NEW mask \in SUBSET (0..31), NEW done, NEW acc, ShownSo(mask, done, acc, N),
           NEW rights, Len(rights) \in Nat, \A i \in 1..Len(rights) : IsRight(rights[i], N),
           OwnNames(done \cup UpTo(rights, Len(rights))),
           \A i \in 1..Len(rights) : Follows(rights[i], done \cup UpTo(rights, i - 1))
    PROVE  ShownSo(mask, done \cup UpTo(rights, Len(rights)), ShowAll(acc, rights), N)
<1>. DEFINE n == Len(rights)
            T == [left : SUBSET (0..31), names : Seq(N)]
            step == [i \in 1..n |-> [a \in T |-> Show(a, rights[i])]]
            Round(f) == [i \in 0..n |-> IF i = 0 THEN acc ELSE Show(f[i - 1], rights[i])]
            shown == CHOOSE f : f = Round(f)
<1>1. ShowAll(acc, rights) = shown[n]
  BY DEF ShowAll
<1>2. n \in Nat /\ acc \in T /\ \A i \in 1..n : IsRight(rights[i], N)
  BY DEF ShownSo
<1>. HIDE DEF n
<1>3. ASSUME NEW i \in 1..n, NEW a \in T PROVE Show(a, rights[i]) \in T
  <2>1. rights[i].name \in N /\ rights[i].bits \in SUBSET (0..31)
    BY <1>2 DEF IsRight
  <2>2. a.left \in SUBSET (0..31) /\ a.names \in Seq(N)
    OBVIOUS
  <2>3. Append(a.names, rights[i].name) \in Seq(N) /\ a.left \ rights[i].bits \in SUBSET (0..31)
    BY <2>1, <2>2, AppendProperties
  <2>4. [left |-> a.left \ rights[i].bits, names |-> Append(a.names, rights[i].name)] \in T
    BY <2>3
  <2>. QED
    BY <2>4 DEF Show
<1>. HIDE DEF T
<1>4. step \in [1..n -> [T -> T]] /\ \A i \in 1..n, a \in T : step[i][a] = Show(a, rights[i])
  BY <1>3
<1>5. PICK g : Rounds(g, T, n, acc, step)
  <2>. HIDE DEF step
  <2>. QED
    BY <1>2, <1>4, Iterated
<1>6. g[0] = acc /\ g \in [0..n -> T] /\ \A i \in 1..n : g[i] = Show(g[i - 1], rights[i])
  <2>1. g \in [0..n -> T] /\ g[0] = acc /\ \A i \in 1..n : g[i] = step[i][g[i - 1]]
    BY <1>5 DEF Rounds
  <2>. HIDE DEF step
  <2>2. \A i \in 1..n : i - 1 \in 0..n /\ g[i - 1] \in T
    BY <1>2, <2>1
  <2>. QED
    BY <1>4, <2>1, <2>2
<1>7. g = Round(g)
  <2>. HIDE DEF step
  <2>1. \A i \in 0..n : g[i] = Round(g)[i]
    <3>1. \A i \in 0..n : i = 0 \/ i \in 1..n
      BY <1>2
    <3>. QED
      BY <1>6, <3>1
  <2>2. g = [i \in 0..n |-> g[i]]
    BY <1>6
  <2>. QED
    BY <2>1, <2>2
<1>8. shown = Round(shown)
  <2>. HIDE DEF Round
  <2>. QED
    BY <1>7
<1>. HIDE DEF shown
<1>9. shown[0] = acc /\ \A i \in 1..n : shown[i] = Show(shown[i - 1], rights[i])
  <2>1. \A i \in 0..n : shown[i] = Round(shown)[i]
    BY <1>8
  <2>2. 0 \in 0..n /\ \A i \in 1..n : i \in 0..n /\ i # 0
    BY <1>2
  <2>. QED
    BY <2>1, <2>2
<1>. HIDE DEF Round, step
<1>. DEFINE P == {k \in 0..n : ShownSo(mask, done \cup UpTo(rights, k), shown[k], N)}
<1>10. 0 \in P
  <2>1. done \cup UpTo(rights, 0) = done
    BY DEF UpTo
  <2>2. ShownSo(mask, done \cup UpTo(rights, 0), shown[0], N)
    BY <1>9, <2>1
  <2>. QED
    BY <1>2, <2>2
<1>11. ASSUME NEW k \in 1..n, k - 1 \in P PROVE k \in P
  <2>. DEFINE before == done \cup UpTo(rights, k - 1)
  <2>1. k \in 0..n /\ IsRight(rights[k], N) /\ Follows(rights[k], before)
    <3>1. k \in 0..n /\ IsRight(rights[k], N)
      BY <1>2
    <3>2. Follows(rights[k], done \cup UpTo(rights, k - 1))
      BY DEF n
    <3>. QED
      BY <3>1, <3>2
  <2>2. before \cup {rights[k]} = done \cup UpTo(rights, k)
    <3>1. \A i \in 1..k : i \in 1..(k - 1) \/ i = k
      BY <1>2
    <3>2. k \in 1..k /\ \A i \in 1..(k - 1) : i \in 1..k
      BY <1>2
    <3>. QED
      BY <3>1, <3>2 DEF UpTo
  <2>3. OwnNames(before \cup {rights[k]})
    <3>1. UpTo(rights, k) \subseteq UpTo(rights, n)
      <4>1. \A i \in 1..k : i \in 1..n
        BY <1>2
      <4>. QED
        BY <4>1 DEF UpTo
    <3>. QED
      BY <2>2, <3>1 DEF OwnNames, n
  <2>4. ShownSo(mask, before, shown[k - 1], N) /\ shown[k] = Show(shown[k - 1], rights[k])
    BY <1>9, <1>11
  <2>. HIDE DEF before
  <2>5. ASSUME NEW a, a = shown[k - 1], NEW right, right = rights[k]
        PROVE  ShownSo(mask, before \cup {right}, Show(a, right), N)
    BY <2>1, <2>3, <2>4, <2>5, OneTest
  <2>. QED
    BY <2>1, <2>2, <2>4, <2>5
<1>12. ShownSo(mask, done \cup UpTo(rights, n), shown[n], N)
  <2>1. \A k \in 0..n : k \in P
    <3>. HIDE DEF P
    <3>. QED
      BY <1>2, <1>10, <1>11, EachRound
  <2>2. n \in P
    <3>1. n \in 0..n
      BY <1>2
    <3>. HIDE DEF P
    <3>. QED
      BY <2>1, <3>1
  <2>. QED
    BY <2>2
<1>. QED
  BY <1>1, <1>12 DEF n

\* A table of n rights of a kind of object: each has one bit, none of the
\* standard or generic ones, and a name of its own.
Table(rights, n) ==
    /\ n \in Nat /\ DOMAIN rights = 1..n /\ Len(rights) = n
    /\ \A i \in 1..n : rights[i].bits \subseteq 0..13 /\ \A b, c \in rights[i].bits : b = c
    /\ \A i, j \in 1..n : i # j => rights[i].bits \cap rights[j].bits = {}
    /\ \A i, j \in 1..n : rights[i].name = rights[j].name => i = j
    /\ \A i \in 1..n, j \in 1..11 : rights[i].name # CommonRights[j].name

LEMMA FileTable == Table(FileRights, 8)
<1>1. DOMAIN FileRights = 1..8 /\ Len(FileRights) = 8
  BY DEF FileRights, Singles
<1>2. \A i \in 1..8 : FileRights[i].bits \subseteq 0..13
  BY DEF FileRights, Singles
<1>3. \A i \in 1..8 : \A b, c \in FileRights[i].bits : b = c
  BY DEF FileRights, Singles
<1>4. \A i, j \in 1..8 : i # j => FileRights[i].bits \cap FileRights[j].bits = {}
  BY DEF FileRights, Singles
<1>5. \A i, j \in 1..8 : FileRights[i].name = FileRights[j].name => i = j
  BY DEF FileRights, Singles
<1>6. \A i \in 1..8, j \in 1..11 : FileRights[i].name # CommonRights[j].name
  BY DEF FileRights, Singles, CommonRights
<1>. QED
  BY <1>1, <1>2, <1>3, <1>4, <1>5, <1>6 DEF Table

LEMMA ProcessTable == Table(ProcessRights, 14)
<1>1. DOMAIN ProcessRights = 1..14 /\ Len(ProcessRights) = 14 /\ \A i \in 1..14 : ProcessRights[i].bits = {i - 1}
  BY DEF ProcessRights, Singles, Upto
<1>2. \A i \in 1..14 : ProcessRights[i].bits \subseteq 0..13
  BY <1>1
<1>3. \A i \in 1..14 : \A b, c \in ProcessRights[i].bits : b = c
  BY <1>1
<1>4. \A i, j \in 1..14 : i # j => ProcessRights[i].bits \cap ProcessRights[j].bits = {}
  BY <1>1
<1>5. \A i, j \in 1..14 : ProcessRights[i].name = ProcessRights[j].name => i = j
  BY DEF ProcessRights, Singles
<1>6. \A i \in 1..14, j \in 1..11 : ProcessRights[i].name # CommonRights[j].name
  BY DEF ProcessRights, Singles, CommonRights
<1>. QED
  BY <1>1, <1>2, <1>3, <1>4, <1>5, <1>6 DEF Table

LEMMA ThreadTable == Table(ThreadRights, 12)
<1>1. DOMAIN ThreadRights = 1..12 /\ Len(ThreadRights) = 12
  BY DEF ThreadRights, Singles
<1>2. \A i \in 1..12 : ThreadRights[i].bits \subseteq 0..13
  BY DEF ThreadRights, Singles
<1>3. \A i \in 1..12 : \A b, c \in ThreadRights[i].bits : b = c
  BY DEF ThreadRights, Singles
<1>4. \A i, j \in 1..12 : i # j => ThreadRights[i].bits \cap ThreadRights[j].bits = {}
  BY DEF ThreadRights, Singles
<1>5. \A i, j \in 1..12 : ThreadRights[i].name = ThreadRights[j].name => i = j
  BY DEF ThreadRights, Singles
<1>6. \A i \in 1..12, j \in 1..11 : ThreadRights[i].name # CommonRights[j].name
  BY DEF ThreadRights, Singles, CommonRights
<1>. QED
  BY <1>1, <1>2, <1>3, <1>4, <1>5, <1>6 DEF Table

LEMMA KeyTable == Table(KeyRights, 6)
<1>1. DOMAIN KeyRights = 1..6 /\ Len(KeyRights) = 6
  BY DEF KeyRights, Singles
<1>2. \A i \in 1..6 : KeyRights[i].bits \subseteq 0..13
  BY DEF KeyRights, Singles
<1>3. \A i \in 1..6 : \A b, c \in KeyRights[i].bits : b = c
  BY DEF KeyRights, Singles
<1>4. \A i, j \in 1..6 : i # j => KeyRights[i].bits \cap KeyRights[j].bits = {}
  BY DEF KeyRights, Singles
<1>5. \A i, j \in 1..6 : KeyRights[i].name = KeyRights[j].name => i = j
  BY DEF KeyRights, Singles
<1>6. \A i \in 1..6, j \in 1..11 : KeyRights[i].name # CommonRights[j].name
  BY DEF KeyRights, Singles, CommonRights
<1>. QED
  BY <1>1, <1>2, <1>3, <1>4, <1>5, <1>6 DEF Table

LEMMA MutantTable == Table(MutantRights, 1)
<1>1. DOMAIN MutantRights = 1..1 /\ Len(MutantRights) = 1
  BY DEF MutantRights, Singles
<1>2. \A i \in 1..1 : MutantRights[i].bits \subseteq 0..13
  BY DEF MutantRights, Singles
<1>3. \A i \in 1..1 : \A b, c \in MutantRights[i].bits : b = c
  BY DEF MutantRights, Singles
<1>4. \A i, j \in 1..1 : i # j => MutantRights[i].bits \cap MutantRights[j].bits = {}
  BY DEF MutantRights, Singles
<1>5. \A i, j \in 1..1 : MutantRights[i].name = MutantRights[j].name => i = j
  BY DEF MutantRights, Singles
<1>6. \A i \in 1..1, j \in 1..11 : MutantRights[i].name # CommonRights[j].name
  BY DEF MutantRights, Singles, CommonRights
<1>. QED
  BY <1>1, <1>2, <1>3, <1>4, <1>5, <1>6 DEF Table

LEMMA DirectoryTable == Table(DirectoryRights, 4)
<1>1. DOMAIN DirectoryRights = 1..4 /\ Len(DirectoryRights) = 4 /\ \A i \in 1..4 : DirectoryRights[i].bits = {i - 1}
  BY DEF DirectoryRights, Singles, Upto
<1>2. \A i \in 1..4 : DirectoryRights[i].bits \subseteq 0..13
  BY <1>1
<1>3. \A i \in 1..4 : \A b, c \in DirectoryRights[i].bits : b = c
  BY <1>1
<1>4. \A i, j \in 1..4 : i # j => DirectoryRights[i].bits \cap DirectoryRights[j].bits = {}
  BY <1>1
<1>5. \A i, j \in 1..4 : DirectoryRights[i].name = DirectoryRights[j].name => i = j
  BY DEF DirectoryRights, Singles
<1>6. \A i \in 1..4, j \in 1..11 : DirectoryRights[i].name # CommonRights[j].name
  BY DEF DirectoryRights, Singles, CommonRights
<1>. QED
  BY <1>1, <1>2, <1>3, <1>4, <1>5, <1>6 DEF Table

\* The rights every object has: a name has more than one bit only if they are
\* standard rights, and none is covered in part by an earlier one.
LEMMA CommonTable ==
    /\ DOMAIN CommonRights = 1..11 /\ Len(CommonRights) = 11
    /\ \A i \in 1..11 : CommonRights[i].bits \in SUBSET (14..31)
    /\ \A i \in 1..11 : \/ CommonRights[i].bits \subseteq StandardRightsAll
                        \/ CommonRights[i].bits \cap StandardRightsAll = {}
    /\ \A i \in 1..11 : \/ CommonRights[i].bits \subseteq StandardRightsAll
                        \/ \A b, c \in CommonRights[i].bits : b = c
    /\ \A i, j \in 1..11 : CommonRights[i].name = CommonRights[j].name => i = j
    /\ \A i, j \in 1..11 : i < j => \/ CommonRights[i].bits \cap CommonRights[j].bits = {}
                                    \/ CommonRights[j].bits \subseteq CommonRights[i].bits
<1>1. DOMAIN CommonRights = 1..11 /\ Len(CommonRights) = 11
  BY DEF CommonRights
<1>2. \A i \in 1..11 : CommonRights[i].bits \in SUBSET (14..31)
  BY DEF CommonRights, StandardRightsAll, StandardRightsRequired
<1>3. \A i \in 1..11 : \/ CommonRights[i].bits \subseteq StandardRightsAll
                       \/ CommonRights[i].bits \cap StandardRightsAll = {}
  BY DEF CommonRights, StandardRightsAll, StandardRightsRequired
<1>4. \A i \in 1..11 : \/ CommonRights[i].bits \subseteq StandardRightsAll
                       \/ \A b, c \in CommonRights[i].bits : b = c
  BY DEF CommonRights, StandardRightsAll, StandardRightsRequired
<1>5. \A i, j \in 1..11 : CommonRights[i].name = CommonRights[j].name => i = j
  BY DEF CommonRights
<1>6. \A i, j \in 1..11 : i < j => \/ CommonRights[i].bits \cap CommonRights[j].bits = {}
                                   \/ CommonRights[j].bits \subseteq CommonRights[i].bits
  BY DEF CommonRights, StandardRightsAll, StandardRightsRequired
<1>. QED
  BY <1>1, <1>2, <1>3, <1>4, <1>5, <1>6

\* The names of whole masks: each mask is one of the 32 bits, and each name
\* is no other whole's and no single right's.
LEMMA WholeNames ==
    ASSUME NEW k \in DOMAIN ObjectKinds
    PROVE  /\ \A w \in ObjectKinds[k].whole : w.bits \in SUBSET (0..31)
           /\ \A w, v \in ObjectKinds[k].whole : w.name = v.name => w = v
           /\ \A w \in ObjectKinds[k].whole, j \in 1..11 : CommonRights[j].name # w.name
<1>1. \A w \in ObjectKinds[k].whole : w.bits \in SUBSET (0..31)
  BY DEF ObjectKinds, Whole, StandardRightsAll, StandardRightsRequired
<1>2. \A w \in ObjectKinds[k].whole, j \in 1..11 : CommonRights[j].name # w.name
  BY DEF ObjectKinds, Whole, CommonRights
<1>3. \A w, v \in ObjectKinds["Key"].whole : w.name = v.name => w = v
  <2>1. ObjectKinds["Key"].whole =
          {Whole("KEY_READ", {17, 0, 3, 4}), Whole("KEY_WRITE", {17, 1, 2}),
           Whole("KEY_ALL_ACCESS", StandardRightsRequired \cup 0..5)}
    BY DEF ObjectKinds
  <2>2. \A a, b, c : /\ Whole("KEY_READ", a).name # Whole("KEY_WRITE", b).name
                     /\ Whole("KEY_READ", a).name # Whole("KEY_ALL_ACCESS", c).name
                     /\ Whole("KEY_WRITE", b).name # Whole("KEY_ALL_ACCESS", c).name
    BY DEF Whole
  <2>. QED
    BY <2>1, <2>2
<1>4. \A o \in DOMAIN ObjectKinds : o # "Key" => \A w, v \in ObjectKinds[o].whole : w = v
  BY DEF ObjectKinds
<1>. QED
  BY <1>1, <1>2, <1>3, <1>4

\* Each kind of object has its table, and its wholes have no name of the table.
LEMMA KindTable ==
    ASSUME NEW k \in DOMAIN ObjectKinds
    PROVE  \E n : /\ Table(ObjectKinds[k].rights, n)
                  /\ \A w \in ObjectKinds[k].whole, j \in 1..n : ObjectKinds[k].rights[j].name # w.name
<1>1. k \in {"File", "Process", "Thread", "Key", "Mutant", "Directory"}
  BY DEF ObjectKinds
<1>2. CASE k = "File"
  <2>1. ObjectKinds["File"].rights = FileRights
    BY DEF ObjectKinds
  <2>2. ObjectKinds["File"].whole = {}
    BY DEF ObjectKinds
  <2>. QED
    BY <1>2, <2>1, <2>2, FileTable
<1>3. CASE k = "Process"
  <2>1. ObjectKinds["Process"].rights = ProcessRights
    BY DEF ObjectKinds
  <2>2. \A w \in ObjectKinds["Process"].whole, j \in 1..14 : ProcessRights[j].name # w.name
    BY DEF ObjectKinds, Whole, ProcessRights, Singles
  <2>. QED
    BY <1>3, <2>1, <2>2, ProcessTable
<1>4. CASE k = "Thread"
  <2>1. ObjectKinds["Thread"].rights = ThreadRights
    BY DEF ObjectKinds
  <2>2. \A w \in ObjectKinds["Thread"].whole, j \in 1..12 : ThreadRights[j].name # w.name
    BY DEF ObjectKinds, Whole, ThreadRights, Singles
  <2>. QED
    BY <1>4, <2>1, <2>2, ThreadTable
<1>5. CASE k = "Key"
  <2>1. ObjectKinds["Key"].rights = KeyRights
    BY DEF ObjectKinds
  <2>2. \A w \in ObjectKinds["Key"].whole, j \in 1..6 : KeyRights[j].name # w.name
    BY DEF ObjectKinds, Whole, KeyRights, Singles
  <2>. QED
    BY <1>5, <2>1, <2>2, KeyTable
<1>6. CASE k = "Mutant"
  <2>1. ObjectKinds["Mutant"].rights = MutantRights
    BY DEF ObjectKinds
  <2>2. \A w \in ObjectKinds["Mutant"].whole, j \in 1..1 : MutantRights[j].name # w.name
    BY DEF ObjectKinds, Whole, MutantRights, Singles
  <2>. QED
    BY <1>6, <2>1, <2>2, MutantTable
<1>7. CASE k = "Directory"
  <2>1. ObjectKinds["Directory"].rights = DirectoryRights
    BY DEF ObjectKinds
  <2>2. \A w \in ObjectKinds["Directory"].whole, j \in 1..4 : DirectoryRights[j].name # w.name
    BY DEF ObjectKinds, Whole, DirectoryRights, Singles
  <2>. QED
    BY <1>7, <2>1, <2>2, DirectoryTable
<1>. QED
  BY <1>1, <1>2, <1>3, <1>4, <1>5, <1>6, <1>7

\* The names of a kind's rights and wholes are its own.
LEMMA NamesAreOwn ==
    ASSUME NEW k \in DOMAIN ObjectKinds
    PROVE  OwnNames(ObjectKinds[k].whole \cup PartRights(k))
<1>. DEFINE rights == ObjectKinds[k].rights
<1>1. PICK n : Table(rights, n) /\ \A w \in ObjectKinds[k].whole, j \in 1..n : rights[j].name # w.name
  BY KindTable
<1>2. PartRights(k) = {rights[i] : i \in 1..n} \cup {CommonRights[i] : i \in 1..11}
  BY <1>1, CommonTable DEF PartRights, ToSet, Table
<1>3. /\ \A i, j \in 1..n : rights[i].name = rights[j].name => i = j
      /\ \A i \in 1..n, j \in 1..11 : rights[i].name # CommonRights[j].name
  BY <1>1 DEF Table
<1>4. \A i, j \in 1..11 : CommonRights[i].name = CommonRights[j].name => i = j
  BY CommonTable
<1>. HIDE DEF rights
<1>. SUFFICES ASSUME NEW r \in ObjectKinds[k].whole \cup PartRights(k),
                     NEW s \in ObjectKinds[k].whole \cup PartRights(k), r.name = s.name
              PROVE  r = s
  BY DEF OwnNames
<1>5. \A t \in PartRights(k) : \/ \E i \in 1..n : t = rights[i]
                               \/ \E i \in 1..11 : t = CommonRights[i]
  BY <1>2
<1>6. \A w \in ObjectKinds[k].whole, t \in PartRights(k) : w.name # t.name
  BY <1>1, <1>5, WholeNames
<1>7. CASE r \in ObjectKinds[k].whole /\ s \in ObjectKinds[k].whole
  BY <1>7, WholeNames
<1>8. CASE r \in PartRights(k) /\ s \in PartRights(k)
  <2>1. CASE \E i \in 1..n : r = rights[i]
    <3>1. PICK i \in 1..n : r = rights[i]
      BY <2>1
    <3>2. CASE \E j \in 1..n : s = rights[j]
      BY <1>3, <3>1, <3>2
    <3>3. CASE \E j \in 1..11 : s = CommonRights[j]
      BY <1>3, <3>1, <3>3
    <3>. QED
      BY <1>5, <1>8, <3>2, <3>3
  <2>2. CASE \E i \in 1..11 : r = CommonRights[i]
    <3>1. PICK i \in 1..11 : r = CommonRights[i]
      BY <2>2
    <3>2. CASE \E j \in 1..n : s = rights[j]
      BY <1>3, <3>1, <3>2
    <3>3. CASE \E j \in 1..11 : s = CommonRights[j]
      BY <1>4, <3>1, <3>3
    <3>. QED
      BY <1>5, <1>8, <3>2, <3>3
  <2>. QED
    BY <1>5, <1>8, <2>1, <2>2
<1>. QED
  BY <1>6, <1>7, <1>8

\* So a name of the text stands for the right that has it.
LEMMA NameOfRight ==
    ASSUME NEW k \in DOMAIN ObjectKinds, NEW r \in ObjectKinds[k].whole \cup PartRights(k)
    PROVE  RightNamed(k, r.name) = r
BY NamesAreOwn DEF RightNamed, OwnNames

\* What the two chains of tests make of a mask: all rights of the object and
\* all common ones are tested.
LEMMA BothChains ==
    ASSUME NEW k \in DOMAIN ObjectKinds, NEW mask \in SUBSET (0..31)
    PROVE  \E N : ShownSo(mask, PartRights(k),
                          ShowAll(ShowAll([left |-> mask, names |-> <<>>], ObjectKinds[k].rights),
                                  CommonRights), N)
<1>. DEFINE rights == ObjectKinds[k].rights
            start == [left |-> mask, names |-> <<>>]
            N == {r.name : r \in PartRights(k)}
<1>1. PICK n : Table(rights, n)
  BY KindTable
<1>2. /\ n \in Nat /\ DOMAIN rights = 1..n /\ Len(rights) = n
      /\ \A i \in 1..n : rights[i].bits \subseteq 0..13
      /\ \A i, j \in 1..n : i # j => rights[i].bits \cap rights[j].bits = {}
  BY <1>1 DEF Table
<1>3. PartRights(k) = UpTo(rights, n) \cup UpTo(CommonRights, 11)
  BY <1>2, CommonTable DEF PartRights, ToSet, UpTo
<1>4. OwnNames(PartRights(k))
  BY NamesAreOwn DEF OwnNames
<1>. HIDE DEF rights
<1>5. \A i \in 1..n : IsRight(rights[i], N)
  <2>1. \A i \in 1..n : rights[i] \in PartRights(k)
    BY <1>3 DEF UpTo
  <2>2. \A i \in 1..n : rights[i].name \in N
    BY <2>1
  <2>3. ASSUME NEW i \in 1..n PROVE rights[i].bits \subseteq 0..31
    <3>1. rights[i].bits \subseteq 0..13
      BY <1>2
    <3>. QED
      BY <3>1
  <2>. QED
    BY <2>2, <2>3 DEF IsRight
<1>6. \A i \in 1..11 : IsRight(CommonRights[i], N)
  <2>1. \A i \in 1..11 : CommonRights[i] \in PartRights(k)
    BY <1>3 DEF UpTo
  <2>2. \A i \in 1..11 : CommonRights[i].name \in N
    BY <2>1
  <2>3. ASSUME NEW i \in 1..11 PROVE CommonRights[i].bits \subseteq 0..31
    <3>1. CommonRights[i].bits \subseteq 14..31
      BY CommonTable
    <3>. QED
      BY <3>1
  <2>. QED
    BY <2>2, <2>3 DEF IsRight
<1>. HIDE DEF N
<1>7. ShownSo(mask, {}, start, N)
  <2>1. start \in [left : SUBSET (0..31), names : Seq(N)] /\ start.left = mask
        /\ Len(start.names) = 0
    OBVIOUS
  <2>. HIDE DEF start
  <2>. QED
    BY <2>1 DEF ShownSo
<1>. HIDE DEF start
<1>8. ShownSo(mask, UpTo(rights, n), ShowAll(start, rights), N)
  <2>1. OwnNames({} \cup UpTo(rights, n))
    BY <1>3, <1>4 DEF OwnNames
  <2>2. ASSUME NEW i \in 1..n PROVE Follows(rights[i], {} \cup UpTo(rights, i - 1))
    <3>1. \A j \in 1..(i - 1) : j \in 1..n /\ j # i
      BY <1>2
    <3>. QED
      BY <1>2, <3>1 DEF Follows, UpTo
  <2>3. ShownSo(mask, {} \cup UpTo(rights, n), ShowAll(start, rights), N)
    BY <1>2, <1>5, <1>7, <2>1, <2>2, ChainOfTests
  <2>4. {} \cup UpTo(rights, n) = UpTo(rights, n)
    OBVIOUS
  <2>. QED
    BY <2>3, <2>4
<1>9. ShownSo(mask, UpTo(rights, n) \cup UpTo(CommonRights, 11),
              ShowAll(ShowAll(start, rights), CommonRights), N)
  <2>1. ASSUME NEW i \in 1..11
        PROVE  Follows(CommonRights[i], UpTo(rights, n) \cup UpTo(CommonRights, i - 1))
    <3>1. \A j \in 1..(i - 1) : j \in 1..11 /\ j < i
      OBVIOUS
    <3>2. ASSUME NEW j \in 1..n PROVE rights[j].bits \cap CommonRights[i].bits = {}
      <4>1. rights[j].bits \subseteq 0..13
        BY <1>2
      <4>2. CommonRights[i].bits \subseteq 14..31
        BY CommonTable
      <4>. QED
        BY <4>1, <4>2
    <3>3. \A j \in 1..(i - 1) : \/ CommonRights[j].bits \cap CommonRights[i].bits = {}
                                \/ CommonRights[i].bits \subseteq CommonRights[j].bits
      BY <3>1, CommonTable
    <3>. QED
      BY <3>2, <3>3 DEF Follows, UpTo
  <2>2. Len(CommonRights) = 11 /\ 11 \in Nat
    BY CommonTable
  <2>3. OwnNames(UpTo(rights, n) \cup UpTo(CommonRights, 11))
    BY <1>3, <1>4
  <2>4. ASSUME NEW acc, acc = ShowAll(start, rights), NEW done, done = UpTo(rights, n)
        PROVE  ShownSo(mask, done \cup UpTo(CommonRights, 11), ShowAll(acc, CommonRights), N)
    BY <1>6, <1>8, <2>1, <2>2, <2>3, <2>4, ChainOfTests
  <2>. QED
    BY <2>4
<1>. QED
  BY <1>3, <1>9 DEF start, rights

\* A right that can be shown has one bit or is of standard rights only; no
\* right has bits on both sides.
LEMMA SingleOrStandard ==
    ASSUME NEW k \in DOMAIN ObjectKinds, NEW r \in PartRights(k)
    PROVE  /\ r.bits \subseteq StandardRightsAll \/ r.bits \cap StandardRightsAll = {}
           /\ r.bits \subseteq StandardRightsAll \/ \A b, c \in r.bits : b = c
<1>1. PICK n : Table(ObjectKinds[k].rights, n)
  BY KindTable
<1>2. \/ \E i \in 1..n : r = ObjectKinds[k].rights[i]
      \/ \E i \in 1..11 : r = CommonRights[i]
  BY <1>1, CommonTable DEF PartRights, ToSet, Table
<1>3. CASE \E i \in 1..n : r = ObjectKinds[k].rights[i]
  <2>1. r.bits \subseteq 0..13 /\ \A b, c \in r.bits : b = c
    BY <1>1, <1>3 DEF Table
  <2>2. r.bits \cap StandardRightsAll = {}
    BY <2>1 DEF StandardRightsAll
  <2>. QED
    BY <2>1, <2>2
<1>4. CASE \E i \in 1..11 : r = CommonRights[i]
  BY <1>4, CommonTable
<1>. QED
  BY <1>2, <1>3, <1>4

\* The text of a mask, whichever way it is made.
LEMMA ShownAccess ==
    ASSUME NEW k \in DOMAIN ObjectKinds, NEW mask \in SUBSET (0..31),
           msg.class = k, msg.mask = mask, detail.text = DesiredAccessString(k, mask)
    PROVE  NamesSayTheAccess /\ UnknownIsUnnamed /\ NamesAreDisjoint
<1>. DEFINE text == detail.text
            rights == PartRights(k)
            said == BitsOfText(k, text.names)
<1>1. CASE \E w \in ObjectKinds[k].whole : w.bits = mask
  <2>1. PICK w \in ObjectKinds[k].whole : w.bits = mask /\ text = Named(<<w.name>>)
    BY <1>1 DEF DesiredAccessString
  <2>2. text.names = <<w.name>> /\ text.unknown = {}
    BY <2>1 DEF Named
  <2>3. RightNamed(k, w.name) = w
    BY NameOfRight
  <2>4. ToSet(text.names) = {w.name}
    BY <2>2 DEF ToSet
  <2>5. said = mask
    BY <2>1, <2>3, <2>4 DEF BitsOfText
  <2>6. mask \in {v.bits : v \in ObjectKinds[k].whole}
    BY <1>1
  <2>7. \A i, j \in DOMAIN text.names : i = j
    BY <2>2
  <2>8. NamesSayTheAccess
    BY <2>5, <2>6 DEF NamesSayTheAccess
  <2>. QED
    BY <2>2, <2>6, <2>7, <2>8 DEF UnknownIsUnnamed, NamesAreDisjoint
<1>2. CASE ~ \E w \in ObjectKinds[k].whole : w.bits = mask
  <2>. DEFINE acc == ShowAll(ShowAll([left |-> mask, names |-> <<>>], ObjectKinds[k].rights), CommonRights)
  <2>1. text = IF acc.left = {} THEN Named(acc.names)
               ELSE [names |-> <<>>, unknown |-> acc.left]
    BY <1>2 DEF DesiredAccessString, CommonText
  <2>2. PICK N : ShownSo(mask, rights, acc, N)
    BY BothChains
  <2>. HIDE DEF acc
  <2>3. acc.left = mask \ UNION {r.bits : r \in rights}
    BY <2>2 DEF ShownSo
  <2>4. text.unknown = acc.left
    <3>1. CASE acc.left = {}
      <4>1. text = [names |-> acc.names, unknown |-> {}]
        BY <2>1, <3>1 DEF Named
      <4>. QED
        BY <3>1, <4>1
    <3>2. CASE acc.left # {}
      <4>1. text = [names |-> <<>>, unknown |-> acc.left]
        BY <2>1, <3>2
      <4>. QED
        BY <4>1
    <3>. QED
      BY <3>1, <3>2
  <2>5. mask \notin {w.bits : w \in ObjectKinds[k].whole}
    BY <1>2
  <2>6. UnknownIsUnnamed
    BY <2>3, <2>4, <2>5 DEF UnknownIsUnnamed
  <2>7. CASE acc.left # {}
    <3>1. text.names = <<>> /\ text.unknown # {}
      BY <2>1, <2>7
    <3>. QED
      BY <2>6, <3>1 DEF NamesSayTheAccess, NamesAreDisjoint
  <2>8. CASE acc.left = {}
    <3>. DEFINE names == text.names
    <3>1. names = acc.names /\ names \in Seq(N)
      BY <2>1, <2>2, <2>8 DEF Named, ShownSo
    <3>2. DOMAIN names = 1..Len(names)
      BY <3>1
    <3>3. \A p \in DOMAIN names : \E r \in rights : r.name = names[p] /\ r.bits \cap mask # {}
      BY <2>2, <3>1, <3>2 DEF ShownSo
    <3>4. \A b \in mask : \E p \in DOMAIN names, r \in rights : r.name = names[p] /\ b \in r.bits
      BY <2>2, <2>8, <3>1, <3>2 DEF ShownSo
    <3>5. \A p, q \in DOMAIN names, r, s \in rights :
             p # q /\ r.name = names[p] /\ s.name = names[q] => r.bits \cap s.bits = {}
      BY <2>2, <3>1, <3>2 DEF ShownSo
    <3>15. \A t \in rights : t.bits \cap mask # {} =>
              \E p \in DOMAIN names, r \in rights : r.name = names[p] /\ t.bits \subseteq r.bits
      <4>1. \A t \in rights : t.bits \cap mask # {} =>
              \E p \in 1..Len(acc.names), r \in rights : r.name = acc.names[p] /\ t.bits \subseteq r.bits
        BY <2>2, Zenon DEF ShownSo
      <4>2. DOMAIN names = 1..Len(acc.names) /\ names = acc.names
        BY <3>1, <3>2
      <4>. HIDE DEF names, rights
      <4>. QED
        BY <4>1, <4>2, Zenon
    <3>. HIDE DEF names
    <3>6. \A r \in rights : RightNamed(k, r.name) = r
      BY NameOfRight
    <3>. HIDE DEF rights
    <3>7. said = UNION {RightNamed(k, names[p]).bits : p \in DOMAIN names}
      BY DEF BitsOfText, ToSet, names
    <3>. HIDE DEF said
    <3>8. mask \subseteq said
      <4>1. ASSUME NEW b \in mask PROVE b \in said
        <5>1. PICK p \in DOMAIN names, r \in rights : r.name = names[p] /\ b \in r.bits
          BY <3>4
        <5>. QED
          BY <3>6, <3>7, <5>1
      <4>. QED
        BY <4>1
    <3>9. ASSUME NEW b \in said
          PROVE  \E r \in rights : b \in r.bits /\ r.bits \cap mask # {}
      <4>1. PICK p \in DOMAIN names : b \in RightNamed(k, names[p]).bits
        BY <3>7, <3>9
      <4>2. PICK r \in rights : r.name = names[p] /\ r.bits \cap mask # {}
        BY <3>3
      <4>. QED
        BY <3>6, <4>1, <4>2
    <3>16. \E t \in rights : t.bits = StandardRightsAll
      <4>1. CommonRights[1].bits = StandardRightsAll /\ CommonRights[1] \in ToSet(CommonRights)
        BY CommonTable DEF CommonRights, ToSet
      <4>. QED
        BY <4>1 DEF PartRights, rights
    <3>10. \A r \in rights :
              /\ r.bits \subseteq StandardRightsAll \/ r.bits \cap StandardRightsAll = {}
              /\ r.bits \subseteq StandardRightsAll \/ \A b, c \in r.bits : b = c
      BY SingleOrStandard DEF rights
    <3>11. said \ StandardRightsAll = mask \ StandardRightsAll
      <4>1. ASSUME NEW b \in said, b \notin StandardRightsAll PROVE b \in mask
        <5>1. PICK r \in rights : b \in r.bits /\ r.bits \cap mask # {}
          BY <3>9
        <5>2. \A c \in r.bits : b = c
          BY <3>10, <4>1, <5>1
        <5>. QED
          BY <5>1, <5>2
      <4>. QED
        BY <3>8, <4>1
    <3>12. (said \cap StandardRightsAll = {}) <=> (mask \cap StandardRightsAll = {})
      <4>1. ASSUME NEW b \in said, b \in StandardRightsAll PROVE mask \cap StandardRightsAll # {}
        <5>1. PICK r \in rights : b \in r.bits /\ r.bits \cap mask # {}
          BY <3>9
        <5>2. r.bits \subseteq StandardRightsAll
          BY <3>10, <4>1, <5>1
        <5>. QED
          BY <5>1, <5>2
      <4>. QED
        BY <3>8, <4>1
    <3>17. mask \cap StandardRightsAll # {} => StandardRightsAll \subseteq said
      <4>. SUFFICES ASSUME mask \cap StandardRightsAll # {} PROVE StandardRightsAll \subseteq said
        OBVIOUS
      <4>1. PICK t \in rights : t.bits = StandardRightsAll
        BY <3>16
      <4>2. PICK p \in DOMAIN names, r \in rights : r.name = names[p] /\ t.bits \subseteq r.bits
        BY <3>15, <4>1
      <4>. QED
        BY <3>6, <3>7, <4>1, <4>2
    <3>18. said = IF mask \cap StandardRightsAll = {} THEN mask ELSE mask \cup StandardRightsAll
      BY <3>8, <3>11, <3>12, <3>17
    <3>13. NamesSayTheAccess
      BY <2>5, <3>18 DEF NamesSayTheAccess, said
    <3>14. NamesAreDisjoint
      <4>1. ASSUME NEW p \in DOMAIN names, NEW q \in DOMAIN names, p # q
            PROVE  RightNamed(k, names[p]).bits \cap RightNamed(k, names[q]).bits = {}
        <5>1. PICK r \in rights : r.name = names[p]
          BY <3>3
        <5>2. PICK s \in rights : s.name = names[q]
          BY <3>3
        <5>. QED
          BY <3>5, <3>6, <4>1, <5>1, <5>2
      <4>. QED
        BY <4>1 DEF NamesAreDisjoint, names
    <3>. QED
      BY <2>6, <3>13, <3>14
  <2>. QED
    BY <2>7, <2>8
<1>. QED
  BY <1>1, <1>2

\* Whatever the 32 bits of an access mask: the names of its text say what was
\* asked for, with one standard right all of them, no bit is said twice, and
\* what is shown as unknown is what no right has (GetCommonDesiredAccess and
\* the strings of the kinds of objects).
THEOREM AccessCorrect == SpecDetails => []AccessIsSaid
<1>1. IInv /\ ShownIsMade => AccessIsSaid
  <2>. SUFFICES ASSUME ShownIsMade, detail.kind = "access"
                PROVE  NamesSayTheAccess /\ UnknownIsUnnamed /\ NamesAreDisjoint
    BY DEF AccessIsSaid
  <2>1. /\ msg \in OpenMessage
        /\ detail = [kind |-> "access", text |-> DesiredAccessString(msg.class, msg.mask)]
    BY DEF ShownIsMade, NoDetail
  <2>2. msg.class \in DOMAIN ObjectKinds /\ msg.mask \in SUBSET (0..31)
    BY <2>1, MasksAssumption DEF OpenMessage
  <2>. QED
    BY <2>1, <2>2, ShownAccess
<1>. QED
  BY <1>1, Invariance, PTL
=============================================================================
