--------------------------- MODULE TreeBinsProofs ---------------------------
(****************************************************************************)
(* The tries of the large chunks, for any number of chunks, bins and bits   *)
(* of a size: every order of insertions, removals and searches keeps the    *)
(* tries of the bins, the rings of equal sizes and the treemap sound, and   *)
(* the searches take what BestFit promises, the oldest of the smallest      *)
(* chunks that fit: the rings of the bins are the queues of the sizes.      *)
(****************************************************************************)
EXTENDS TreeBins, NaturalsInduction, WellFoundedInduction, FiniteSetTheorems,
        SequenceTheorems, TLAPS

-----------------------------------------------------------------------------
(* Loops. *)

\* A set of natural numbers that has an element has a least one.
LEMMA LeastExists ==
    ASSUME NEW S \in SUBSET Nat, NEW x \in S
    PROVE  \E k \in S : \A y \in S : k <= y
<1>1. IsWellFoundedOn(OpToRel(<, Nat), Nat)
  BY NatLessThanWellFounded
<1>2. PICK k \in S : \A y \in S : ~ (<<y, k>> \in OpToRel(<, Nat))
  <2>1. IsWellFoundedOn(OpToRel(<, Nat), S)
    BY <1>1, IsWellFoundedOnSubset
  <2>. QED
    BY <1>1, <2>1, WFMin
<1>3. \A y \in S : ~ (y < k)
  BY <1>2 DEF OpToRel
<1>. QED
  BY <1>3

\* What holds before a loop of n rounds and is kept by each of them holds
\* after every round.
LEMMA EachRound ==
    ASSUME NEW n \in Nat, NEW P, 0 \in P, \A k \in 1..n : k - 1 \in P => k \in P
    PROVE  \A k \in 0..n : k \in P
<1>. SUFFICES ASSUME NEW b \in 0..n, b \notin P PROVE FALSE
  OBVIOUS
<1>. DEFINE Bad == {k \in 0..n : k \notin P}
<1>1. Bad \in SUBSET Nat /\ b \in Bad
  OBVIOUS
<1>2. PICK k \in Bad : \A j \in Bad : k <= j
  <2>. HIDE DEF Bad
  <2>. QED
    BY <1>1, LeastExists
<1>3. k \in 0..n /\ k \notin P /\ k # 0
  OBVIOUS
<1>4. k - 1 \in 0..n /\ ~(k <= k - 1) /\ k \in 1..n
  BY <1>3
<1>. QED
  BY <1>2, <1>3, <1>4


\* The values of a loop of n rounds.
IsLoop(f, V, a, n, G) ==
    f \in [0..n -> V] /\ f[0] = a /\ \A i \in 1..n : f[i] = G[<<i - 1, f[i - 1]>>]

\* A loop of n rounds that starts with a value and goes on by G has a value
\* in each round.
LEMMA Loop ==
    ASSUME NEW V, NEW a \in V, NEW n \in Nat, NEW G \in [Nat \X V -> V]
    PROVE  \E f : IsLoop(f, V, a, n, G)
<1>. USE DEF IsLoop
<1>. DEFINE P == {k \in Nat : \E f \in [0..k -> V] :
                                 f[0] = a /\ \A i \in 1..k : f[i] = G[<<i - 1, f[i - 1]>>]}
<1>1. 0 \in P
  <2>. DEFINE f == [i \in 0..0 |-> a]
  <2>1. f \in [0..0 -> V] /\ f[0] = a /\ \A i \in 1..0 : FALSE
    OBVIOUS
  <2>. HIDE DEF f
  <2>. QED
    BY <2>1
<1>2. ASSUME NEW k \in 1..n, k - 1 \in P PROVE k \in P
  <2>1. PICK f \in [0..(k - 1) -> V] :
              f[0] = a /\ \A i \in 1..(k - 1) : f[i] = G[<<i - 1, f[i - 1]>>]
    BY <1>2
  <2>. DEFINE h == [i \in 0..k |-> IF i = k THEN G[<<k - 1, f[k - 1]>>] ELSE f[i]]
  <2>2. \A i \in 0..k : h[i] = IF i = k THEN G[<<k - 1, f[k - 1]>>] ELSE f[i]
    OBVIOUS
  <2>3. G[<<k - 1, f[k - 1]>>] \in V
    <3>1. k - 1 \in Nat /\ f[k - 1] \in V
      OBVIOUS
    <3>. QED
      BY <3>1
  <2>4. h \in [0..k -> V]
    <3>1. \A i \in 0..k : i # k => i \in 0..(k - 1)
      OBVIOUS
    <3>. QED
      BY <2>3, <3>1
  <2>. HIDE DEF h
  <2>5. h[0] = a
    BY <2>1, <2>2
  <2>6. \A i \in 1..k : h[i] = G[<<i - 1, h[i - 1]>>]
    <3>. TAKE i \in 1..k
    <3>1. i - 1 \in 0..k /\ i - 1 # k
      OBVIOUS
    <3>2. h[i - 1] = f[i - 1]
      BY <2>2, <3>1
    <3>3. CASE i = k
      BY <2>2, <3>2, <3>3
    <3>4. CASE i # k
      <4>1. i \in 1..(k - 1) /\ i \in 0..k
        BY <3>4
      <4>. QED
        BY <2>1, <2>2, <3>2, <3>4, <4>1
    <3>. QED
      BY <3>3, <3>4
  <2>. QED
    BY <2>4, <2>5, <2>6
<1>. HIDE DEF P
<1>3. \A k \in 0..n : k \in P
  BY <1>1, <1>2, EachRound
<1>. QED
  BY <1>3 DEF P

-----------------------------------------------------------------------------
(* Powers of two, and shifts. *)

\* What the code's constants are: numbers of bits.
LEMMA Widths ==
    /\ SizeBits \in Nat \ {0, 1} /\ TreeBinShift \in Nat \ {0, 1} /\ NTreeBins \in Nat \ {0, 1}
    /\ NTreeBins \div 2 \in Nat /\ NTreeBins = 2 * (NTreeBins \div 2) /\ NTreeBins \div 2 >= 1
    /\ NTreeBins \div 2 + TreeBinShift <= SizeBits
BY WidthAssumption

\* The powers of two are what their definition says.
LEMMA Powers ==
    /\ Pow2 \in [0..SizeBits -> Nat]
    /\ Pow2[0] = 1
    /\ \A k \in 1..SizeBits : Pow2[k] = 2 * Pow2[k - 1]
<1>. DEFINE G == [p \in Nat \X Nat |-> 2 * p[2]]
            R(f) == [k \in 0..SizeBits |-> IF k = 0 THEN 1 ELSE 2 * f[k - 1]]
<1>1. G \in [Nat \X Nat -> Nat] /\ SizeBits \in Nat /\ 1 \in Nat
  BY Widths
<1>2. PICK f \in [0..SizeBits -> Nat] : f[0] = 1 /\ \A i \in 1..SizeBits : f[i] = G[<<i - 1, f[i - 1]>>]
  <2>. DEFINE V == Nat
              one == 1
  <2>1. one \in V /\ G \in [Nat \X V -> V] /\ one = 1 /\ V = Nat
    BY <1>1
  <2>. HIDE DEF G, V, one
  <2>2. \E f : IsLoop(f, V, one, SizeBits, G)
    BY ONLY <1>1, <2>1, Loop
  <2>. QED
    BY ONLY <2>1, <2>2 DEF IsLoop
<1>3. \A i \in 1..SizeBits : f[i] = 2 * f[i - 1]
  <2>. TAKE i \in 1..SizeBits
  <2>1. i - 1 \in Nat /\ f[i - 1] \in Nat
    BY Widths
  <2>. QED
    BY <1>2, <2>1
<1>4. f = R(f)
  <2>1. \A k \in 0..SizeBits : f[k] = IF k = 0 THEN 1 ELSE 2 * f[k - 1]
    BY <1>2, <1>3, Widths
  <2>. QED
    BY <2>1
<1>5. Pow2 = R(Pow2)
  <2>1. Pow2 = CHOOSE g : g = R(g)
    BY DEF Pow2
  <2>. HIDE DEF R
  <2>. QED
    BY <1>4, <2>1
<1>6. \A k \in 0..SizeBits : Pow2[k] = IF k = 0 THEN 1 ELSE 2 * Pow2[k - 1]
  BY ONLY <1>5
<1>7. Pow2 = [k \in 0..SizeBits |-> Pow2[k]]
  BY ONLY <1>5
<1>. DEFINE P == {k \in 0..SizeBits : Pow2[k] \in Nat}
<1>8. 0 \in P
  BY <1>6, Widths
<1>9. ASSUME NEW k \in 1..SizeBits, k - 1 \in P PROVE k \in P
  <2>1. k \in 0..SizeBits /\ k # 0 /\ k - 1 \in 0..SizeBits
    BY Widths
  <2>. QED
    BY <1>6, <1>9, <2>1
<1>10. \A k \in 0..SizeBits : k \in P
  <2>. HIDE DEF P
  <2>. QED
    BY <1>8, <1>9, EachRound, Widths
<1>. QED
  <2>. HIDE DEF P
  <2>1. \A k \in 0..SizeBits : Pow2[k] \in Nat
    BY <1>10 DEF P
  <2>2. \A k \in 1..SizeBits : k \in 0..SizeBits /\ k # 0
    BY Widths
  <2>3. 0 \in 0..SizeBits
    BY Widths
  <2>. QED
    BY <1>6, <1>7, <2>1, <2>2, <2>3

\* A power of two is a positive number.
LEMMA PowersPositive ==
    \A k \in 0..SizeBits : Pow2[k] \in Nat /\ Pow2[k] >= 1
<1>. DEFINE P == {k \in 0..SizeBits : Pow2[k] \in Nat /\ Pow2[k] >= 1}
<1>1. 0 \in P
  BY Powers, Widths
<1>2. ASSUME NEW k \in 1..SizeBits, k - 1 \in P PROVE k \in P
  <2>1. k \in 0..SizeBits /\ Pow2[k] = 2 * Pow2[k - 1] /\ Pow2[k - 1] \in Nat /\ Pow2[k - 1] >= 1
    BY <1>2, Powers, Widths
  <2>. QED
    BY <2>1
<1>3. \A k \in 0..SizeBits : k \in P
  <2>. HIDE DEF P
  <2>. QED
    BY <1>1, <1>2, EachRound, Widths
<1>. QED
  BY <1>3

\* A number shifted by k is halved k times.
LEMMA Shifts ==
    ASSUME NEW n \in Nat
    PROVE  /\ \A k \in 0..SizeBits : ShiftRight(n, k) \in Nat
           /\ ShiftRight(n, 0) = n
           /\ \A k \in 1..SizeBits : ShiftRight(n, k) = ShiftRight(n, k - 1) \div 2
<1>. DEFINE G == [p \in Nat \X Nat |-> p[2] \div 2]
            R(f) == [k \in 0..SizeBits |-> IF k = 0 THEN n ELSE f[k - 1] \div 2]
            s == CHOOSE g : g = R(g)
<1>1. G \in [Nat \X Nat -> Nat] /\ SizeBits \in Nat
  BY Widths
<1>2. PICK f \in [0..SizeBits -> Nat] : f[0] = n /\ \A i \in 1..SizeBits : f[i] = G[<<i - 1, f[i - 1]>>]
  <2>. DEFINE V == Nat
  <2>1. n \in V /\ G \in [Nat \X V -> V] /\ V = Nat
    BY <1>1
  <2>. HIDE DEF G, V
  <2>2. \E f : IsLoop(f, V, n, SizeBits, G)
    BY ONLY <1>1, <2>1, Loop
  <2>. QED
    BY ONLY <2>1, <2>2 DEF IsLoop
<1>3. \A i \in 1..SizeBits : f[i] = f[i - 1] \div 2
  <2>. TAKE i \in 1..SizeBits
  <2>1. i - 1 \in Nat /\ f[i - 1] \in Nat
    BY Widths
  <2>. QED
    BY <1>2, <2>1
<1>4. f = R(f)
  <2>1. \A k \in 0..SizeBits : f[k] = IF k = 0 THEN n ELSE f[k - 1] \div 2
    BY <1>2, <1>3, Widths
  <2>. QED
    BY <2>1
<1>5. s = R(s)
  <2>. HIDE DEF R
  <2>. QED
    BY <1>4
<1>a. \A k : ShiftRight(n, k) = s[k]
  BY DEF ShiftRight
<1>. HIDE DEF s
<1>6. \A k \in 0..SizeBits : s[k] = IF k = 0 THEN n ELSE s[k - 1] \div 2
  BY ONLY <1>5
<1>. DEFINE P == {k \in 0..SizeBits : s[k] \in Nat}
<1>8. 0 \in P
  BY <1>6, Widths
<1>9. ASSUME NEW k \in 1..SizeBits, k - 1 \in P PROVE k \in P
  <2>1. k \in 0..SizeBits /\ k # 0 /\ k - 1 \in 0..SizeBits
    BY Widths
  <2>. QED
    BY <1>6, <1>9, <2>1
<1>10. \A k \in 0..SizeBits : k \in P
  <2>. HIDE DEF P
  <2>. QED
    BY <1>8, <1>9, EachRound, Widths
<1>. QED
  <2>. HIDE DEF P
  <2>1. \A k \in 0..SizeBits : s[k] \in Nat
    BY <1>10 DEF P
  <2>2. \A k \in 1..SizeBits : k \in 0..SizeBits /\ k # 0
    BY Widths
  <2>3. 0 \in 0..SizeBits
    BY Widths
  <2>. QED
    BY <1>6, <1>a, <2>1, <2>2, <2>3

\* A shift keeps the order of numbers.
LEMMA ShiftOrder ==
    ASSUME NEW m \in Nat, NEW n \in Nat, m <= n
    PROVE  \A k \in 0..SizeBits : ShiftRight(m, k) <= ShiftRight(n, k)
<1>. DEFINE P == {k \in 0..SizeBits : ShiftRight(m, k) <= ShiftRight(n, k)}
<1>1. 0 \in P
  BY Shifts, Widths
<1>2. ASSUME NEW k \in 1..SizeBits, k - 1 \in P PROVE k \in P
  <2>1. k \in 0..SizeBits /\ k - 1 \in 0..SizeBits /\ ShiftRight(m, k - 1) <= ShiftRight(n, k - 1)
    BY <1>2, Widths
  <2>2. /\ ShiftRight(m, k) = ShiftRight(m, k - 1) \div 2 /\ ShiftRight(m, k - 1) \in Nat
        /\ ShiftRight(n, k) = ShiftRight(n, k - 1) \div 2 /\ ShiftRight(n, k - 1) \in Nat
    BY <2>1, Shifts
  <2>. QED
    BY <2>1, <2>2
<1>3. \A k \in 0..SizeBits : k \in P
  <2>. HIDE DEF P
  <2>. QED
    BY <1>1, <1>2, EachRound, Widths
<1>. QED
  BY <1>3

\* One shift after another.
LEMMA ShiftTwice ==
    ASSUME NEW n \in Nat, NEW a \in 0..SizeBits, NEW b \in 0..SizeBits, a + b <= SizeBits
    PROVE  ShiftRight(ShiftRight(n, a), b) = ShiftRight(n, a + b)
<1>1. ShiftRight(n, a) \in Nat
  BY Shifts
<1>. DEFINE x == ShiftRight(n, a)
            P == {k \in 0..b : ShiftRight(x, k) = ShiftRight(n, a + k)}
<1>2. 0 \in P
  BY <1>1, Shifts, Widths
<1>3. ASSUME NEW k \in 1..b, k - 1 \in P PROVE k \in P
  <2>1. k \in 1..SizeBits /\ a + k \in 1..SizeBits /\ a + k - 1 = a + (k - 1)
    BY Widths
  <2>2. ShiftRight(n, a + k) = ShiftRight(n, a + k - 1) \div 2
    BY <2>1, Shifts
  <2>3. ShiftRight(x, k) = ShiftRight(x, k - 1) \div 2
    BY <1>1, <2>1, Shifts
  <2>4. ShiftRight(x, k - 1) = ShiftRight(n, a + k - 1)
    BY <1>3, <2>1
  <2>. QED
    BY <2>2, <2>3, <2>4
<1>4. \A k \in 0..b : k \in P
  <2>. HIDE DEF P
  <2>. QED
    BY <1>2, <1>3, EachRound, b \in Nat
<1>. QED
  BY <1>4

\* What a number is less than, after a shift.
LEMMA ShiftSmall ==
    ASSUME NEW n \in Nat, NEW w \in 0..SizeBits
    PROVE  ShiftRight(n, w) = 0 <=> n < Pow2[w]
<1>. DEFINE P == {k \in 0..w : /\ n < Pow2[w] => ShiftRight(n, k) < Pow2[w - k]
                               /\ n >= Pow2[w] => ShiftRight(n, k) >= Pow2[w - k]}
<1>1. 0 \in P
  BY Shifts, Widths
<1>2. ASSUME NEW k \in 1..w, k - 1 \in P PROVE k \in P
  <2>1. k \in 1..SizeBits /\ w - k \in 0..SizeBits /\ w - k + 1 \in 1..SizeBits
        /\ w - (k - 1) = w - k + 1 /\ (w - k + 1) - 1 = w - k
    BY Widths
  <2>2. Pow2[w - k + 1] = 2 * Pow2[w - k] /\ Pow2[w - k] \in Nat
    BY <2>1, Powers
  <2>3. ShiftRight(n, k) = ShiftRight(n, k - 1) \div 2 /\ ShiftRight(n, k - 1) \in Nat
    <3>1. k - 1 \in 0..SizeBits
      BY <2>1, Widths
    <3>. QED
      BY <2>1, <3>1, Shifts
  <2>4. /\ n < Pow2[w] => ShiftRight(n, k - 1) < 2 * Pow2[w - k]
        /\ n >= Pow2[w] => ShiftRight(n, k - 1) >= 2 * Pow2[w - k]
    BY <1>2, <2>1, <2>2
  <2>. QED
    BY <2>2, <2>3, <2>4
<1>3. \A k \in 0..w : k \in P
  <2>. HIDE DEF P
  <2>. QED
    BY <1>1, <1>2, EachRound, w \in Nat
<1>4. w \in 0..w /\ w - w = 0 /\ Pow2[w] \in Nat /\ ShiftRight(n, w) \in Nat
  BY Powers, Shifts
<1>5. /\ n < Pow2[w] => ShiftRight(n, w) < Pow2[0]
      /\ n >= Pow2[w] => ShiftRight(n, w) >= Pow2[0]
  BY <1>3, <1>4
<1>. QED
  BY <1>4, <1>5, Powers

-----------------------------------------------------------------------------
(* The bins of sizes, and the bits a trie branches on. *)

\* A word is below 2^SizeBits and shifted out by SizeBits; a large size is a
\* word whose bits from TreeBinShift on are not all zero.
LEMMA Sizes ==
    /\ \A n \in Words : n \in Nat /\ n < Pow2[SizeBits] /\ ShiftRight(n, SizeBits) = 0
    /\ \A s \in LargeSizes : s \in Words /\ s >= 1 /\ ShiftRight(s, TreeBinShift) >= 1
    /\ MinLarge \in Nat /\ MinLarge >= 1
<1>1. SizeBits \in 0..SizeBits /\ TreeBinShift \in 0..SizeBits
  BY Widths
<1>2. Pow2[SizeBits] \in Nat /\ MinLarge \in Nat /\ MinLarge >= 1 /\ MinLarge = Pow2[TreeBinShift]
  BY <1>1, PowersPositive DEF MinLarge
<1>3. \A n \in Words : n \in Nat /\ n < Pow2[SizeBits]
  BY <1>2 DEF Words
<1>4. \A n \in Words : ShiftRight(n, SizeBits) = 0
  BY <1>1, <1>3, ShiftSmall
<1>5. \A s \in LargeSizes : s \in Words /\ s >= MinLarge
  BY DEF LargeSizes
<1>6. \A s \in LargeSizes : ShiftRight(s, TreeBinShift) >= 1
  <2>. TAKE s \in LargeSizes
  <2>1. s \in Nat /\ ~(s < Pow2[TreeBinShift])
    BY <1>2, <1>3, <1>5
  <2>2. ShiftRight(s, TreeBinShift) # 0 /\ ShiftRight(s, TreeBinShift) \in Nat
    BY <1>1, <2>1, ShiftSmall, Shifts
  <2>. QED
    BY <2>2
<1>. QED
  BY <1>2, <1>3, <1>4, <1>5, <1>6

\* A number that is shifted out stays so.
LEMMA ShiftedOut ==
    ASSUME NEW n \in Nat, NEW a \in 0..SizeBits, NEW b \in a..SizeBits, ShiftRight(n, a) = 0
    PROVE  ShiftRight(n, b) = 0
<1>1. b - a \in 0..SizeBits /\ a + (b - a) = b /\ a + (b - a) <= SizeBits /\ b \in 0..SizeBits
  BY Widths
<1>2. ShiftRight(n, b) = ShiftRight(0, b - a)
  BY <1>1, ShiftTwice
<1>3. 0 < Pow2[b - a]
  BY <1>1, PowersPositive
<1>. QED
  BY <1>1, <1>2, <1>3, ShiftSmall, 0 \in Nat

\* _BitScanReverse
LEMMA HighestBit ==
    ASSUME NEW n \in Nat, n >= 1, NEW w \in 0..SizeBits, ShiftRight(n, w) = 0
    PROVE  \E j \in 0..SizeBits : ShiftRight(n, j) = 1
<1>. DEFINE Out == {k \in 0..SizeBits : ShiftRight(n, k) = 0}
<1>1. Out \in SUBSET Nat /\ w \in Out
  BY Widths
<1>2. PICK k \in Out : \A y \in Out : k <= y
  <2>. HIDE DEF Out
  <2>. QED
    BY <1>1, LeastExists
<1>3. k \in 0..SizeBits /\ ShiftRight(n, k) = 0 /\ k # 0
  <2>1. ShiftRight(n, 0) # 0
    BY Shifts
  <2>. QED
    BY <1>2, <2>1
<1>4. k \in 1..SizeBits /\ k - 1 \in 0..SizeBits /\ ~(k <= k - 1)
  BY <1>3, Widths
<1>5. ShiftRight(n, k - 1) # 0
  BY <1>2, <1>4
<1>6. ShiftRight(n, k - 1) \in Nat /\ ShiftRight(n, k) = ShiftRight(n, k - 1) \div 2
  BY <1>4, Shifts
<1>7. ShiftRight(n, k - 1) = 1
  BY <1>3, <1>5, <1>6
<1>. QED
  BY <1>4, <1>7

\* What TreeIndex finds.
LEMMA IndexOf ==
    ASSUME NEW s \in LargeSizes
    PROVE  /\ TreeIndex(s) \in Bins
           /\ \/ /\ TreeIndex(s) = NTreeBins - 1
                 /\ ShiftRight(s, TreeBinShift + NTreeBins \div 2) >= 1
              \/ \E k \in 0..(NTreeBins \div 2 - 1) :
                   /\ TreeIndex(s) = 2 * k + (ShiftRight(s, k + TreeBinShift - 1) % 2)
                   /\ ShiftRight(s, k + TreeBinShift) = 1
<1>. DEFINE x == ShiftRight(s, TreeBinShift)
            h == NTreeBins \div 2
<1>1. s \in Nat /\ x \in Nat /\ x >= 1 /\ h \in 0..SizeBits /\ TreeBinShift \in 0..SizeBits
      /\ ShiftRight(x, h) \in Nat
  <2>1. h \in 0..SizeBits /\ TreeBinShift \in 0..SizeBits
    BY Widths
  <2>2. s \in Nat /\ x \in Nat /\ x >= 1
    BY <2>1, Sizes, Shifts
  <2>. QED
    BY <2>1, <2>2, Shifts
<1>2. NTreeBins - 1 \in Bins
  BY Widths DEF Bins
<1>3. CASE ShiftRight(x, h) # 0
  <2>1. TreeIndex(s) = NTreeBins - 1
    BY <1>1, <1>3 DEF TreeIndex
  <2>2. TreeBinShift + h <= SizeBits
    BY Widths
  <2>3. ShiftRight(x, h) = ShiftRight(s, TreeBinShift + h)
    BY <1>1, <2>2, ShiftTwice
  <2>4. ShiftRight(s, TreeBinShift + h) >= 1
    BY <1>1, <1>3, <2>3
  <2>. QED
    BY <1>2, <2>1, <2>4
<1>4. CASE ShiftRight(x, h) = 0
  <2>. DEFINE k == CHOOSE j \in 0..SizeBits : ShiftRight(x, j) = 1
  <2>1. k \in 0..SizeBits /\ ShiftRight(x, k) = 1
    <3>1. \E j \in 0..SizeBits : ShiftRight(x, j) = 1
      <4>. HIDE DEF x, h
      <4>. QED
        BY <1>1, <1>4, HighestBit
    <3>. QED
      BY <3>1
  <2>2. TreeIndex(s) = 2 * k + (ShiftRight(s, k + TreeBinShift - 1) % 2)
    <3>1. ShiftRight(s, TreeBinShift) # 0
          /\ ~(ShiftRight(ShiftRight(s, TreeBinShift), NTreeBins \div 2) # 0)
      BY <1>1, <1>4
    <3>. QED
      BY <3>1, Zenon DEF TreeIndex, Bit
  <2>. HIDE DEF k
  <2>3. k < h
    <3>. SUFFICES ASSUME k >= h PROVE FALSE
      BY <1>1, <2>1
    <3>1. k \in h..SizeBits
      BY <1>1, <2>1
    <3>. HIDE DEF x, h
    <3>2. ShiftRight(x, k) = 0
      BY <1>1, <1>4, <3>1, ShiftedOut
    <3>. QED
      BY <2>1, <3>2
  <2>4. k \in 0..(h - 1)
    BY <1>1, <2>1, <2>3
  <2>5. ShiftRight(s, k + TreeBinShift) = 1
    <3>1. k \in 0..SizeBits /\ TreeBinShift + k <= SizeBits /\ TreeBinShift + k = k + TreeBinShift
      BY <2>1, <2>3, Widths
    <3>. QED
      BY <1>1, <2>1, <3>1, ShiftTwice
  <2>6. TreeIndex(s) \in Bins
    <3>1. k + TreeBinShift - 1 \in 0..SizeBits
      BY <2>4, Widths
    <3>2. ShiftRight(s, k + TreeBinShift - 1) \in Nat
      BY <1>1, <3>1, Shifts
    <3>3. ShiftRight(s, k + TreeBinShift - 1) % 2 \in {0, 1}
      BY <3>2
    <3>. DEFINE r == ShiftRight(s, k + TreeBinShift - 1) % 2
    <3>4. r \in {0, 1} /\ TreeIndex(s) = 2 * k + r
      BY <2>2, <3>3
    <3>. HIDE DEF r, h
    <3>5. NTreeBins = 2 * h /\ h \in Nat
      BY Widths DEF h
    <3>6. 2 * k + r \in 0..(NTreeBins - 1)
      BY <2>4, <3>4, <3>5
    <3>. QED
      BY <3>4, <3>6 DEF Bins
  <2>. QED
    BY <2>2, <2>4, <2>5, <2>6
<1>. QED
  BY <1>3, <1>4

\* How many bits of their sizes tell the chunks of a bin apart.
Levels(i) == SizeBits - LeftShift(i)

\* The number of levels of a bin, which is at most SizeBits.
LEMMA LevelsOf ==
    ASSUME NEW i \in Bins
    PROVE  /\ Levels(i) \in 1..SizeBits /\ LeftShift(i) = SizeBits - Levels(i)
           /\ i # NTreeBins - 1 => Levels(i) = i \div 2 + TreeBinShift - 1
           /\ i = NTreeBins - 1 => Levels(i) = SizeBits
<1>1. i \in Nat /\ i <= NTreeBins - 1 /\ i \div 2 \in Nat /\ i \div 2 <= NTreeBins \div 2 - 1
  BY Widths DEF Bins
<1>2. CASE i = NTreeBins - 1
  BY <1>2, Widths DEF Levels, LeftShift
<1>3. CASE i # NTreeBins - 1
  <2>1. LeftShift(i) = SizeBits - 1 - (i \div 2 + TreeBinShift - 2)
    BY <1>3 DEF LeftShift
  <2>. QED
    BY <1>1, <1>3, <2>1, Widths DEF Levels
<1>. QED
  BY <1>2, <1>3

\* The bits of a size a trie branches on, to a depth.
Prefix(s, i, d) == ShiftRight(s, Levels(i) - d)

\* The leading bits of a size are a number, and all its bits are the size.
LEMMA PrefixType ==
    ASSUME NEW s \in LargeSizes, NEW i \in Bins
    PROVE  /\ \A d \in 0..Levels(i) : Prefix(s, i, d) \in Nat
           /\ Prefix(s, i, Levels(i)) = s
           /\ Levels(i) \in 1..SizeBits
<1>1. s \in Nat /\ Levels(i) \in 1..SizeBits
  BY Sizes, LevelsOf
<1>2. \A d \in 0..Levels(i) : Levels(i) - d \in 0..SizeBits
  BY <1>1, Widths
<1>3. \A d \in 0..Levels(i) : Prefix(s, i, d) \in Nat
  BY <1>1, <1>2, Shifts DEF Prefix
<1>4. Levels(i) - Levels(i) = 0
  BY <1>1
<1>. QED
  BY <1>1, <1>3, <1>4, Shifts DEF Prefix

\* Sizes of a bin do not differ in higher bits.
LEMMA SameBin ==
    ASSUME NEW s \in LargeSizes, NEW u \in LargeSizes, TreeIndex(s) = TreeIndex(u)
    PROVE  Prefix(s, TreeIndex(s), 0) = Prefix(u, TreeIndex(s), 0)
<1>. DEFINE i == TreeIndex(s)
<1>1. i \in Bins /\ s \in Nat /\ u \in Nat /\ Levels(i) \in 1..SizeBits
  BY IndexOf, Sizes, LevelsOf
<1>2. Levels(i) - 0 = Levels(i)
  BY <1>1
<1>3. CASE i = NTreeBins - 1
  <2>1. Levels(i) = SizeBits
    BY <1>1, <1>3, LevelsOf
  <2>2. ShiftRight(s, SizeBits) = 0 /\ ShiftRight(u, SizeBits) = 0
    BY Sizes
  <2>. QED
    BY <1>2, <2>1, <2>2 DEF Prefix
<1>4. ASSUME i # NTreeBins - 1, NEW v \in LargeSizes, TreeIndex(v) = i
      PROVE  ShiftRight(v, Levels(i)) = 2 + (i % 2)
  <2>1. PICK k \in 0..(NTreeBins \div 2 - 1) :
          /\ i = 2 * k + (ShiftRight(v, k + TreeBinShift - 1) % 2)
          /\ ShiftRight(v, k + TreeBinShift) = 1
    BY <1>4, IndexOf
  <2>. DEFINE y == ShiftRight(v, k + TreeBinShift - 1)
  <2>2. k + TreeBinShift \in 1..SizeBits /\ k + TreeBinShift - 1 \in 0..SizeBits /\ k \in Nat
    BY Widths
  <2>3. y \in Nat /\ 1 = y \div 2
    <3>0. v \in LargeSizes /\ v \in Words /\ v \in Nat
      BY ONLY <1>4, Sizes
    <3>1. (k + TreeBinShift) - 1 = k + TreeBinShift - 1 /\ v \in Nat
      BY <2>2, <3>0, Widths
    <3>2. ShiftRight(v, k + TreeBinShift) = ShiftRight(v, (k + TreeBinShift) - 1) \div 2
      BY <2>2, <3>1, Shifts
    <3>3. y \in Nat
      BY <2>2, <3>1, Shifts
    <3>. QED
      BY <2>1, <3>1, <3>2, <3>3
  <2>. HIDE DEF y
  <2>4. i = 2 * k + (y % 2)
    BY <2>1 DEF y
  <2>. HIDE DEF i
  <2>5. i \div 2 = k /\ i % 2 = y % 2 /\ y = 2 + (y % 2)
    <3>1. y % 2 \in {0, 1} /\ y = 2 * (y \div 2) + (y % 2)
      BY <2>3
    <3>2. ASSUME NEW r \in {0, 1} PROVE (2 * k + r) \div 2 = k /\ (2 * k + r) % 2 = r
      BY <2>2
    <3>. QED
      BY <2>3, <2>4, <3>1, <3>2
  <2>6. Levels(i) = k + TreeBinShift - 1
    BY <1>1, <1>4, <2>5, LevelsOf
  <2>. QED
    BY <2>5, <2>6 DEF y
<1>5. CASE i # NTreeBins - 1
  BY <1>2, <1>4, <1>5 DEF Prefix
<1>. QED
  BY <1>3, <1>5

\* A child's bits are its parent's and the branch to it.
LEMMA PrefixStep ==
    ASSUME NEW s \in LargeSizes, NEW i \in Bins, NEW d \in 0..(Levels(i) - 1)
    PROVE  /\ Prefix(s, i, d + 1) = 2 * Prefix(s, i, d) + Branch(s, i, d)
           /\ Prefix(s, i, d) = Prefix(s, i, d + 1) \div 2
           /\ Branch(s, i, d) \in {0, 1}
<1>1. s \in Nat /\ Levels(i) \in 1..SizeBits /\ LeftShift(i) = SizeBits - Levels(i)
  BY Sizes, LevelsOf
<1>. DEFINE k == Levels(i) - d
<1>2. k \in 1..SizeBits /\ k - 1 \in 0..SizeBits /\ Levels(i) - (d + 1) = k - 1
      /\ SizeBits - 1 - (LeftShift(i) + d) = k - 1 /\ ~(LeftShift(i) + d >= SizeBits)
  BY <1>1, Widths
<1>3. Branch(s, i, d) = ShiftRight(s, k - 1) % 2
  BY <1>2 DEF Branch, Bit
<1>4. Prefix(s, i, d) = ShiftRight(s, k) /\ Prefix(s, i, d + 1) = ShiftRight(s, k - 1)
  BY <1>2 DEF Prefix
<1>. HIDE DEF k
<1>5. ShiftRight(s, k) = ShiftRight(s, k - 1) \div 2 /\ ShiftRight(s, k - 1) \in Nat
  BY <1>1, <1>2, Shifts
<1>. QED
  BY <1>3, <1>4, <1>5

\* What agrees to a depth agrees above it.
LEMMA PrefixAbove ==
    ASSUME NEW s \in LargeSizes, NEW u \in LargeSizes, NEW i \in Bins,
           NEW d \in 0..Levels(i), NEW e \in 0..d, Prefix(s, i, d) = Prefix(u, i, d)
    PROVE  Prefix(s, i, e) = Prefix(u, i, e)
<1>1. s \in Nat /\ u \in Nat /\ Levels(i) \in 1..SizeBits
  BY Sizes, LevelsOf
<1>2. /\ Levels(i) - d \in 0..SizeBits /\ d - e \in 0..SizeBits
      /\ (Levels(i) - d) + (d - e) = Levels(i) - e /\ (Levels(i) - d) + (d - e) <= SizeBits
  BY <1>1, Widths
<1>3. ShiftRight(ShiftRight(s, Levels(i) - d), d - e) = ShiftRight(s, Levels(i) - e)
  BY <1>1, <1>2, ShiftTwice
<1>4. ShiftRight(ShiftRight(u, Levels(i) - d), d - e) = ShiftRight(u, Levels(i) - e)
  BY <1>1, <1>2, ShiftTwice
<1>. QED
  BY <1>3, <1>4 DEF Prefix

\* The order of the bits is that of the sizes.
LEMMA PrefixOrder ==
    ASSUME NEW s \in LargeSizes, NEW u \in LargeSizes, NEW i \in Bins,
           NEW d \in 0..Levels(i), Prefix(s, i, d) < Prefix(u, i, d)
    PROVE  s < u
<1>1. s \in Nat /\ u \in Nat /\ Levels(i) \in 1..SizeBits
  BY Sizes, LevelsOf
<1>. SUFFICES ASSUME u <= s PROVE FALSE
  BY <1>1
<1>2. Levels(i) - d \in 0..SizeBits
  BY <1>1, Widths
<1>3. Prefix(u, i, d) <= Prefix(s, i, d)
  BY <1>1, <1>2, ShiftOrder DEF Prefix
<1>. QED
  BY <1>3, PrefixType

-----------------------------------------------------------------------------
(* Walks. *)

\* What a walk reaches in each round.
IsWalk(at, S, first, next, n) ==
    /\ at \in [0..n -> S \cup {NULL}]
    /\ at[0] = first
    /\ \A d \in 1..n : at[d] = IF at[d - 1] = NULL THEN NULL ELSE next[d - 1][at[d - 1]]

\* A walk whose steps stay in S is in S as long as it lasts.
LEMMA WalkOf ==
    ASSUME NEW S, NULL \notin S, NEW first \in S \cup {NULL}, NEW n \in Nat,
           NEW next \in [0..n -> [S -> S \cup {NULL}]]
    PROVE  IsWalk(Walk(first, next, n), S, first, next, n)
<1>. DEFINE V == S \cup {NULL}
            G == [p \in Nat \X V |->
                    IF p[2] = NULL \/ p[1] \notin 0..n THEN NULL ELSE next[p[1]][p[2]]]
            R(f) == [d \in 0..n |->
                      IF d = 0 THEN first
                      ELSE IF f[d - 1] = NULL THEN NULL ELSE next[d - 1][f[d - 1]]]
            at == CHOOSE g : g = R(g)
<1>1. \A d \in Nat, v \in V : G[<<d, v>>] = IF v = NULL \/ d \notin 0..n THEN NULL ELSE next[d][v]
  <2>. TAKE d \in Nat, v \in V
  <2>1. <<d, v>> \in Nat \X V /\ <<d, v>>[1] = d /\ <<d, v>>[2] = v
    OBVIOUS
  <2>. QED
    BY <2>1
<1>2. \A d \in 0..n, v \in S : next[d][v] \in V
  OBVIOUS
<1>3. G \in [Nat \X V -> V]
  <2>1. \A p \in Nat \X V : G[p] \in V
    <3>. TAKE p \in Nat \X V
    <3>1. p[1] \in Nat /\ p[2] \in V /\ p = <<p[1], p[2]>>
      OBVIOUS
    <3>2. G[p] = IF p[2] = NULL \/ p[1] \notin 0..n THEN NULL ELSE next[p[1]][p[2]]
      OBVIOUS
    <3>. HIDE DEF G
    <3>3. CASE p[2] = NULL \/ p[1] \notin 0..n
      BY <3>2, <3>3
    <3>4. CASE ~(p[2] = NULL \/ p[1] \notin 0..n)
      BY <3>1, <3>2, <3>4, <1>2
    <3>. QED
      BY <3>3, <3>4
  <2>2. G = [p \in Nat \X V |-> G[p]]
    OBVIOUS
  <2>. HIDE DEF G, V
  <2>. QED
    BY <2>1, <2>2
<1>4. first \in V
  OBVIOUS
<1>5. PICK f : IsLoop(f, V, first, n, G)
  <2>. HIDE DEF G, V
  <2>. QED
    BY ONLY <1>3, <1>4, Loop, n \in Nat
<1>6. f \in [0..n -> V] /\ f[0] = first /\ \A i \in 1..n : f[i] = G[<<i - 1, f[i - 1]>>]
  BY <1>5 DEF IsLoop
<1>7. \A i \in 1..n : f[i] = IF f[i - 1] = NULL THEN NULL ELSE next[i - 1][f[i - 1]]
  <2>. TAKE i \in 1..n
  <2>1. i - 1 \in Nat /\ i - 1 \in 0..n
    OBVIOUS
  <2>2. f[i - 1] \in V
    BY <1>6, <2>1
  <2>. HIDE DEF G, V
  <2>. QED
    BY <1>1, <1>6, <2>1, <2>2
<1>8. f = R(f)
  <2>1. \A d \in 0..n : f[d] = IF d = 0 THEN first
                               ELSE IF f[d - 1] = NULL THEN NULL ELSE next[d - 1][f[d - 1]]
    BY <1>6, <1>7
  <2>. HIDE DEF G, V
  <2>. QED
    BY <1>6, <2>1
<1>9. Walk(first, next, n) = at
  BY DEF Walk
<1>10. at = R(at)
  <2>. HIDE DEF R
  <2>. QED
    BY <1>8
<1>. HIDE DEF at, G
<1>11. \A d \in 0..n : at[d] = IF d = 0 THEN first
                               ELSE IF at[d - 1] = NULL THEN NULL ELSE next[d - 1][at[d - 1]]
  BY ONLY <1>10
<1>12. at = [d \in 0..n |-> at[d]]
  BY ONLY <1>10
<1>. HIDE DEF R
<1>. DEFINE P == {d \in 0..n : at[d] \in V}
<1>13. 0 \in P
  <2>1. 0 \in 0..n
    OBVIOUS
  <2>. QED
    BY <1>11, <1>4, <2>1
<1>14. ASSUME NEW d \in 1..n, d - 1 \in P PROVE d \in P
  <2>1. d \in 0..n /\ d # 0 /\ d - 1 \in 0..n /\ at[d - 1] \in V
    BY <1>14
  <2>2. at[d] = IF at[d - 1] = NULL THEN NULL ELSE next[d - 1][at[d - 1]]
    BY <1>11, <2>1
  <2>3. at[d] \in V
    BY <1>2, <2>1, <2>2
  <2>. QED
    BY <2>1, <2>3
<1>15. \A d \in 0..n : d \in P
  <2>. HIDE DEF P
  <2>. QED
    BY <1>13, <1>14, EachRound
<1>16. at \in [0..n -> V]
  <2>1. \A d \in 0..n : at[d] \in V
    BY <1>15
  <2>. HIDE DEF P, V
  <2>. QED
    BY <1>12, <2>1
<1>17. at[0] = first
  <2>1. 0 \in 0..n
    OBVIOUS
  <2>. QED
    BY <1>11, <2>1
<1>18. \A d \in 1..n : at[d] = IF at[d - 1] = NULL THEN NULL ELSE next[d - 1][at[d - 1]]
  <2>1. \A d \in 1..n : d \in 0..n /\ d # 0
    OBVIOUS
  <2>. QED
    BY <1>11, <2>1
<1>. HIDE DEF P
<1>. QED
  BY <1>9, <1>16, <1>17, <1>18 DEF IsWalk

\* Where a walk ends.
LEMMA EndOf ==
    ASSUME NEW S, NULL \notin S, NEW first \in S, NEW n \in Nat, NEW next, NEW at,
           IsWalk(at, S, first, next, n)
    PROVE  /\ End(at) \in 0..n /\ at[End(at)] \in S
           /\ End(at) < n => at[End(at) + 1] = NULL
           /\ \A d \in 0..End(at) : at[d] \in S
<1>1. DOMAIN at = 0..n /\ at[0] = first /\ \A d \in 0..n : at[d] \in S \cup {NULL}
  BY DEF IsWalk
<1>2. \A d \in 1..n : at[d - 1] = NULL => at[d] = NULL
  BY DEF IsWalk
<1>. DEFINE Ends(d) == at[d] # NULL /\ (d + 1 \in 0..n => at[d + 1] = NULL)
<1>3. \E d \in 0..n : Ends(d)
  <2>1. CASE \A d \in 0..n : at[d] # NULL
    <3>1. n \in 0..n /\ n + 1 \notin 0..n
      OBVIOUS
    <3>. QED
      BY <2>1, <3>1
  <2>2. CASE ~ \A d \in 0..n : at[d] # NULL
    <3>. DEFINE Out == {d \in 0..n : at[d] = NULL}
    <3>1. PICK o \in Out : TRUE
      BY <2>2
    <3>2. Out \in SUBSET Nat
      OBVIOUS
    <3>3. PICK k \in Out : \A y \in Out : k <= y
      <4>. HIDE DEF Out
      <4>. QED
        BY <3>1, <3>2, LeastExists
    <3>4. k \in 0..n /\ at[k] = NULL /\ k # 0
      BY <1>1, <3>3
    <3>5. k - 1 \in 0..n /\ (k - 1) + 1 = k /\ ~(k <= k - 1)
      BY <3>4
    <3>6. at[k - 1] # NULL
      BY <3>3, <3>5
    <3>. QED
      BY <3>4, <3>5, <3>6
  <2>. QED
    BY <2>1, <2>2
<1>4. End(at) \in 0..n /\ Ends(End(at))
  <2>1. End(at) = CHOOSE d \in 0..n : Ends(d)
    BY <1>1 DEF End
  <2>. HIDE DEF Ends
  <2>. QED
    BY <1>3, <2>1
<1>5. \A d \in 0..End(at) : at[d] # NULL
  <2>. DEFINE e == End(at)
              P == {k \in 0..e : at[e - k] # NULL}
  <2>0. e \in 0..n /\ at[e] # NULL
    BY <1>4
  <2>. HIDE DEF e
  <2>1. 0 \in P
    BY <2>0
  <2>2. ASSUME NEW k \in 1..e, k - 1 \in P PROVE k \in P
    <3>1. e - (k - 1) \in 1..n /\ (e - (k - 1)) - 1 = e - k /\ k \in 0..e
      BY <2>0
    <3>2. at[e - (k - 1)] # NULL
      BY <2>2
    <3>3. at[e - k] # NULL
      BY <1>2, <3>1, <3>2
    <3>. QED
      BY <3>1, <3>3
  <2>3. \A k \in 0..e : k \in P
    <3>. HIDE DEF P
    <3>. QED
      BY <2>0, <2>1, <2>2, EachRound
  <2>4. \A d \in 0..e : at[d] # NULL
    <3>. TAKE d \in 0..e
    <3>1. e - d \in 0..e /\ e - (e - d) = d
      BY <2>0
    <3>. QED
      BY <2>3, <3>1
  <2>. QED
    BY <2>4 DEF e
<1>6. \A d \in 0..End(at) : d \in 0..n
  BY <1>4
<1>7. End(at) < n => End(at) + 1 \in 0..n
  BY <1>4
<1>. QED
  BY <1>1, <1>4, <1>5, <1>6, <1>7

\* What a walk reaches.
LEMMA NodesOf ==
    ASSUME NEW S, NULL \notin S, NEW first, NEW n \in Nat, NEW next, NEW at,
           IsWalk(at, S, first, next, n)
    PROVE  Nodes(at) \subseteq S /\ \A t \in Nodes(at) : \E d \in 0..n : at[d] = t
BY DEF IsWalk, Nodes, Range

-----------------------------------------------------------------------------
(* The shape of the tries. *)

\* The type of a malloc_tree_chunk.
NodeRecords ==
    [size: LargeSizes, index: Bins, fd: Chunks, bk: Chunks,
     parent: Chunks \cup {NULL, BIN}, child: [{0, 1} -> Chunks \cup {NULL}]]

\* The chunks that are in bins, and those of them that are in tries.
Held(b) == DOMAIN b.node
Trie(b) == {t \in Held(b) : b.node[t].parent # NULL}

\* The type of the bins.
BinsOk(b) ==
    /\ b = [head |-> b.head, treemap |-> b.treemap, node |-> b.node, aborted |-> b.aborted]
    /\ b.head \in [Bins -> Chunks \cup {NULL}]
    /\ Held(b) \subseteq Chunks
    /\ b.node \in [Held(b) -> NodeRecords]
    /\ \A t \in Held(b) : b.node[t].index = TreeIndex(b.node[t].size)

\* The bits of a chunk's size to a depth, in its bin.
Bits(b, t, d) == Prefix(b.node[t].size, b.node[t].index, d)

\* The child that a chunk's size branches to.
Turn(b, t, d) == Branch(b.node[t].size, b.node[t].index, d)

\* A chunk of a trie T is a root, or hangs from its parent where its size says.
Hangs(b, T, dep, t) ==
    LET n == b.node[t] IN
      /\ dep[t] \in 0..Levels(n.index)
      /\ \/ n.parent = BIN /\ dep[t] = 0 /\ b.head[n.index] = t
         \/ /\ n.parent \in T
            /\ b.node[n.parent].index = n.index
            /\ dep[t] = dep[n.parent] + 1
            /\ b.node[n.parent].child[Turn(b, t, dep[n.parent])] = t
            /\ Bits(b, t, dep[n.parent]) = Bits(b, n.parent, dep[n.parent])

\* A child has its parent, and is the one its size branches to.
Holds(b, T, dep, t) ==
    \A d \in {0, 1} : b.node[t].child[d] # NULL =>
        /\ b.node[t].child[d] \in T
        /\ b.node[b.node[t].child[d]].parent = t
        /\ Turn(b, b.node[t].child[d], dep[t]) = d

\* The roots of the bins.
RootsOk(b, T, dep) ==
    /\ b.treemap = {i \in Bins : b.head[i] # NULL}
    /\ \A i \in b.treemap : /\ b.head[i] \in T
                            /\ b.node[b.head[i]].index = i
                            /\ b.node[b.head[i]].parent = BIN

\* A trie has a size once, and one chunk in a place.
SizesOnce(b, T) == \A t, u \in T : b.node[t].size = b.node[u].size => t = u

SamePlace(b, dep, t, u) ==
    b.node[t].index = b.node[u].index /\ dep[t] = dep[u] /\ Bits(b, t, dep[t]) = Bits(b, u, dep[t])

PlacesOnce(b, T, dep) == \A t, u \in T : SamePlace(b, dep, t, u) => t = u

\* The tries with the chunks T at their depths.
Tries(b, T, dep) ==
    /\ T \subseteq Held(b)
    /\ \A t \in T : Hangs(b, T, dep, t) /\ Holds(b, T, dep, t)
    /\ RootsOk(b, T, dep)
    /\ SizesOnce(b, T)
    /\ PlacesOnce(b, T, dep)

\* The other chunks are in rings only, and hold none.
Outside(b, T) ==
    \A t \in Held(b) \ T : b.node[t].child = NoChild

\* The rings of the chunks of a size.
Rings(b) ==
    \A t \in Held(b) :
      /\ b.node[t].fd \in Held(b) /\ b.node[t].bk \in Held(b)
      /\ b.node[b.node[t].fd].bk = t /\ b.node[b.node[t].bk].fd = t
      /\ b.node[b.node[t].fd].size = b.node[t].size

\* The inductive invariant.
TriesInv(b) ==
    /\ BinsOk(b)
    /\ b.aborted = FALSE
    /\ Rings(b)
    /\ Outside(b, Trie(b))
    /\ \E dep : Tries(b, Trie(b), dep)

-----------------------------------------------------------------------------
(* What follows from the shape. *)

\* NULL and BIN are no chunks.
LEMMA Names == NULL \notin Chunks /\ BIN \notin Chunks /\ BIN # NULL
BY ChunkSizesAssumption

\* The fields of a chunk in the bins have their types, and its index is that
\* of its size.
LEMMA NodeFacts ==
    ASSUME NEW b, BinsOk(b), NEW t \in Held(b)
    PROVE  /\ t \in Chunks
           /\ b.node[t] \in NodeRecords
           /\ b.node[t].size \in LargeSizes
           /\ b.node[t].index \in Bins /\ b.node[t].index = TreeIndex(b.node[t].size)
           /\ b.node[t].fd \in Chunks /\ b.node[t].bk \in Chunks
           /\ b.node[t].parent \in Chunks \cup {NULL, BIN}
           /\ b.node[t].child \in [{0, 1} -> Chunks \cup {NULL}]
           /\ b.node[t].child[0] \in Chunks \cup {NULL} /\ b.node[t].child[1] \in Chunks \cup {NULL}
<1>1. b.node[t] \in NodeRecords
  BY DEF BinsOk
<1>. QED
  BY <1>1 DEF BinsOk, NodeRecords

\* The bins with their tries.
Good(b, T, dep) == BinsOk(b) /\ Tries(b, T, dep) /\ Outside(b, T)

\* A chunk of a trie has its types, a depth within its bin's levels, and a
\* parent.
LEMMA InTrie ==
    ASSUME NEW b, NEW T, NEW dep, Good(b, T, dep), NEW t \in T
    PROVE  /\ t \in Held(b) /\ t \in Chunks
           /\ b.node[t].size \in LargeSizes /\ b.node[t].index \in Bins
           /\ b.node[t].index = TreeIndex(b.node[t].size)
           /\ dep[t] \in 0..Levels(b.node[t].index) /\ dep[t] \in Nat
           /\ Levels(b.node[t].index) \in 1..SizeBits
           /\ b.node[t].parent # NULL
<1>1. t \in Held(b) /\ Hangs(b, T, dep, t) /\ BinsOk(b) /\ T \subseteq Held(b)
  BY DEF Good, Tries
<1>2. b.node[t].index \in Bins /\ t \in Chunks
  BY <1>1, NodeFacts
<1>3. dep[t] \in 0..Levels(b.node[t].index) /\ (b.node[t].parent = BIN \/ b.node[t].parent \in T)
  BY <1>1 DEF Hangs
<1>4. Levels(b.node[t].index) \in 1..SizeBits
  BY <1>2, LevelsOf
<1>5. T \subseteq Chunks
  BY <1>1 DEF BinsOk
<1>6. b.node[t].parent # NULL
  BY <1>3, <1>5, Names
<1>7. dep[t] \in Nat
  BY <1>3, <1>4
<1>. QED
  BY <1>1, <1>2, <1>3, <1>4, <1>6, <1>7, NodeFacts

\* A chunk that hangs from another.
LEMMA HangsFrom ==
    ASSUME NEW b, NEW T, NEW dep, Good(b, T, dep), NEW t \in T, b.node[t].parent # BIN
    PROVE  LET p == b.node[t].parent IN
             /\ p \in T /\ b.node[p].index = b.node[t].index
             /\ dep[t] = dep[p] + 1
             /\ b.node[p].child[Turn(b, t, dep[p])] = t
             /\ Bits(b, t, dep[p]) = Bits(b, p, dep[p])
             /\ dep[p] \in 0..(Levels(b.node[t].index) - 1)
             /\ Turn(b, t, dep[p]) \in {0, 1}
             /\ Bits(b, t, dep[t]) = 2 * Bits(b, p, dep[p]) + Turn(b, t, dep[p])
<1>. DEFINE p == b.node[t].parent
            i == b.node[t].index
<1>1. /\ p \in T /\ b.node[p].index = i
      /\ dep[t] = dep[p] + 1
      /\ b.node[p].child[Turn(b, t, dep[p])] = t
      /\ Bits(b, t, dep[p]) = Bits(b, p, dep[p])
  BY DEF Good, Tries, Hangs
<1>2. dep[p] \in Nat /\ dep[t] \in 0..Levels(i) /\ Levels(i) \in 1..SizeBits
      /\ i \in Bins /\ b.node[t].size \in LargeSizes
  BY <1>1, InTrie
<1>3. dep[p] \in 0..(Levels(i) - 1)
  BY <1>1, <1>2
<1>4. /\ Prefix(b.node[t].size, i, dep[p] + 1)
           = 2 * Prefix(b.node[t].size, i, dep[p]) + Branch(b.node[t].size, i, dep[p])
      /\ Branch(b.node[t].size, i, dep[p]) \in {0, 1}
  <2>. DEFINE d == dep[p]
              s == b.node[t].size
  <2>1. d \in 0..(Levels(i) - 1) /\ s \in LargeSizes /\ i \in Bins
    BY <1>2, <1>3
  <2>. HIDE DEF d, s, i
  <2>2. /\ Prefix(s, i, d + 1) = 2 * Prefix(s, i, d) + Branch(s, i, d)
        /\ Branch(s, i, d) \in {0, 1}
    BY ONLY <2>1, PrefixStep
  <2>. QED
    BY <2>2 DEF d, s
<1>5. Turn(b, t, dep[p]) \in {0, 1}
  BY <1>4 DEF Turn
<1>6. Bits(b, t, dep[t]) = 2 * Bits(b, p, dep[p]) + Turn(b, t, dep[p])
  <2>1. Bits(b, t, dep[p] + 1) = 2 * Bits(b, t, dep[p]) + Turn(b, t, dep[p])
    BY <1>4 DEF Bits, Turn
  <2>. QED
    BY <1>1, <2>1
<1>. QED
  BY <1>1, <1>3, <1>5, <1>6

\* A chunk that has no other above it is the root of its bin.
LEMMA RootOf ==
    ASSUME NEW b, NEW T, NEW dep, Good(b, T, dep), NEW t \in T
    PROVE  /\ b.node[t].parent = BIN <=> dep[t] = 0
           /\ dep[t] = 0 => b.head[b.node[t].index] = t /\ b.node[t].index \in b.treemap
<1>1. Hangs(b, T, dep, t) /\ T \subseteq Chunks
  BY DEF Good, Tries, BinsOk
<1>2. b.node[t].parent # BIN => dep[t] # 0
  <2>. SUFFICES ASSUME b.node[t].parent # BIN PROVE dep[t] # 0
    OBVIOUS
  <2>. DEFINE p == b.node[t].parent
  <2>1. p \in T /\ dep[t] = dep[p] + 1
    BY HangsFrom
  <2>. HIDE DEF p
  <2>2. dep[p] \in Nat
    BY <2>1, InTrie
  <2>. QED
    BY <2>1, <2>2
<1>3. b.node[t].parent = BIN => dep[t] = 0 /\ b.head[b.node[t].index] = t
  BY <1>1, Names DEF Hangs
<1>4. b.head[b.node[t].index] = t => b.node[t].index \in b.treemap
  <2>1. b.node[t].index \in Bins /\ t # NULL
    BY InTrie, Names
  <2>. QED
    BY <2>1 DEF Good, Tries, RootsOk
<1>. QED
  BY <1>2, <1>3, <1>4

\* The root of a marked bin is in the trie, of its bin, and at depth 0.
LEMMA RootIn ==
    ASSUME NEW b, NEW T, NEW dep, Good(b, T, dep), NEW i \in b.treemap
    PROVE  /\ i \in Bins /\ b.head[i] \in T /\ b.head[i] # NULL
           /\ b.node[b.head[i]].index = i /\ b.node[b.head[i]].parent = BIN
           /\ dep[b.head[i]] = 0
<1>1. /\ i \in Bins /\ b.head[i] # NULL /\ b.head[i] \in T
      /\ b.node[b.head[i]].index = i /\ b.node[b.head[i]].parent = BIN
  BY DEF Good, Tries, RootsOk
<1>2. dep[b.head[i]] = 0
  BY <1>1, RootOf
<1>. QED
  BY <1>1, <1>2

\* A child of a chunk.
LEMMA ChildIn ==
    ASSUME NEW b, NEW T, NEW dep, Good(b, T, dep), NEW t \in T, NEW d \in {0, 1},
           b.node[t].child[d] # NULL
    PROVE  LET c == b.node[t].child[d] IN
             /\ c \in T /\ b.node[c].parent = t
             /\ Turn(b, c, dep[t]) = d
             /\ dep[c] = dep[t] + 1
             /\ b.node[c].index = b.node[t].index
             /\ dep[t] \in 0..(Levels(b.node[t].index) - 1)
             /\ Bits(b, c, dep[t]) = Bits(b, t, dep[t])
             /\ Bits(b, c, dep[c]) = 2 * Bits(b, t, dep[t]) + d
<1>. DEFINE c == b.node[t].child[d]
<1>1. c \in T /\ b.node[c].parent = t /\ Turn(b, c, dep[t]) = d
  BY DEF Good, Tries, Holds
<1>2. b.node[c].parent # BIN
  BY <1>1, InTrie, Names
<1>. HIDE DEF c
<1>3. LET p == b.node[c].parent IN
             /\ p \in T /\ b.node[p].index = b.node[c].index
             /\ dep[c] = dep[p] + 1
             /\ Bits(b, c, dep[p]) = Bits(b, p, dep[p])
             /\ dep[p] \in 0..(Levels(b.node[c].index) - 1)
             /\ Bits(b, c, dep[c]) = 2 * Bits(b, p, dep[p]) + Turn(b, c, dep[p])
  BY <1>1, <1>2, HangsFrom
<1>4. /\ c \in T /\ b.node[c].parent = t
      /\ Turn(b, c, dep[t]) = d
      /\ dep[c] = dep[t] + 1
      /\ b.node[c].index = b.node[t].index
      /\ dep[t] \in 0..(Levels(b.node[t].index) - 1)
      /\ Bits(b, c, dep[t]) = Bits(b, t, dep[t])
      /\ Bits(b, c, dep[c]) = 2 * Bits(b, t, dep[t]) + d
  BY <1>1, <1>3
<1>. QED
  BY <1>4 DEF c

\* The children of chunks in bins are in bins.
LEMMA ChildHeld ==
    ASSUME NEW b, NEW T, NEW dep, Good(b, T, dep), NEW t \in Held(b), NEW d \in {0, 1}
    PROVE  b.node[t].child[d] \in Held(b) \cup {NULL} /\ (t \notin T => b.node[t].child[d] = NULL)
<1>1. CASE t \in T
  BY <1>1 DEF Good, Tries, Holds
<1>2. CASE t \notin T
  BY <1>2 DEF Good, Outside, NoChild
<1>. QED
  BY <1>1, <1>2

\* Bits that agree agree above.
LEMMA BitsAbove ==
    ASSUME NEW b, NEW T, NEW dep, Good(b, T, dep), NEW t \in T, NEW u \in T,
           b.node[t].index = b.node[u].index, NEW d \in 0..Levels(b.node[t].index), NEW e \in 0..d,
           Bits(b, t, d) = Bits(b, u, d)
    PROVE  Bits(b, t, e) = Bits(b, u, e)
<1>1. b.node[t].size \in LargeSizes /\ b.node[u].size \in LargeSizes /\ b.node[t].index \in Bins
  BY InTrie
<1>. DEFINE s == b.node[t].size
            v == b.node[u].size
            i == b.node[t].index
<1>2. s \in LargeSizes /\ v \in LargeSizes /\ i \in Bins /\ d \in 0..Levels(i) /\ e \in 0..d
      /\ Prefix(s, i, d) = Prefix(v, i, d)
  BY <1>1 DEF Bits
<1>. HIDE DEF s, v, i
<1>3. Prefix(s, i, e) = Prefix(v, i, e)
  BY ONLY <1>2, PrefixAbove
<1>. QED
  BY <1>3 DEF s, v, i, Bits

\* A chunk has others above it at every depth.
LEMMA Ancestors ==
    ASSUME NEW b, NEW T, NEW dep, Good(b, T, dep), NEW t \in T, NEW d \in 0..dep[t]
    PROVE  \E u \in T : /\ b.node[u].index = b.node[t].index /\ dep[u] = d
                        /\ Bits(b, u, d) = Bits(b, t, d)
<1>. DEFINE Above(u, e) == /\ u \in T /\ b.node[u].index = b.node[t].index /\ dep[u] = e
                           /\ Bits(b, u, e) = Bits(b, t, e)
            n == dep[t]
            P == {k \in 0..n : \E u : Above(u, n - k)}
<1>0. n \in Nat /\ n \in 0..Levels(b.node[t].index) /\ Levels(b.node[t].index) \in 1..SizeBits
  BY InTrie
<1>1. 0 \in P
  <2>1. Above(t, n)
    OBVIOUS
  <2>2. n - 0 = n
    BY <1>0
  <2>. HIDE DEF Above
  <2>. QED
    BY <1>0, <2>1, <2>2
<1>2. ASSUME NEW k \in 1..n, k - 1 \in P PROVE k \in P
  <2>1. PICK u : Above(u, n - (k - 1))
    BY <1>2
  <2>. DEFINE e == n - (k - 1)
              p == b.node[u].parent
  <2>2. e \in 1..n /\ e - 1 = n - k /\ k \in 0..n /\ e - 1 \in 0..e
    BY <1>0
  <2>3. u \in T /\ dep[u] = e /\ b.node[u].index = b.node[t].index /\ Bits(b, u, e) = Bits(b, t, e)
    BY <2>1
  <2>. HIDE DEF e
  <2>4. b.node[u].parent # BIN
    BY <2>2, <2>3, RootOf
  <2>5. /\ p \in T /\ b.node[p].index = b.node[u].index
        /\ dep[u] = dep[p] + 1 /\ Bits(b, u, dep[p]) = Bits(b, p, dep[p])
    BY <2>3, <2>4, HangsFrom
  <2>. HIDE DEF p
  <2>6. dep[p] \in Nat
    BY <2>5, InTrie
  <2>7. dep[p] = e - 1
    BY <2>2, <2>3, <2>5, <2>6, <1>0
  <2>8. e \in 0..Levels(b.node[t].index)
    BY <1>0, <2>2
  <2>9. Bits(b, u, e - 1) = Bits(b, t, e - 1)
    BY <2>2, <2>3, <2>8, BitsAbove
  <2>10. Above(p, e - 1)
    BY <2>3, <2>5, <2>7, <2>9
  <2>. HIDE DEF Above
  <2>. QED
    BY <2>2, <2>10
<1>3. \A k \in 0..n : k \in P
  <2>. HIDE DEF P, n
  <2>. QED
    BY <1>0, <1>1, <1>2, EachRound
<1>4. n - d \in 0..n /\ n - (n - d) = d
  BY <1>0
<1>5. \E u : Above(u, d)
  <2>. HIDE DEF Above
  <2>. QED
    BY <1>3, <1>4
<1>. QED
  BY <1>5

\* A bin with chunks in its trie is marked.
LEMMA BinMarked ==
    ASSUME NEW b, NEW T, NEW dep, Good(b, T, dep), NEW t \in T
    PROVE  b.node[t].index \in b.treemap
<1>1. 0 \in 0..dep[t]
  BY InTrie
<1>2. PICK u \in T : b.node[u].index = b.node[t].index /\ dep[u] = 0
  BY <1>1, Ancestors
<1>. QED
  BY <1>2, RootOf

-----------------------------------------------------------------------------
(* Where walks in the tries lead. *)

\* Where to from a chunk, in a round.
NextTo(b, s, i) ==
    [d \in 0..SizeBits |-> [t \in DOMAIN b.node |->
        IF SizeOf(b, t) = s THEN NULL ELSE b.node[t].child[Branch(s, i, d)]]]

NextLeft(b) == [d \in 0..SizeBits |-> [t \in DOMAIN b.node |-> LeftmostChild(b, t)]]

NextRight(b) == [d \in 0..SizeBits |-> [t \in DOMAIN b.node |-> RightmostChild(b, t)]]

\* A branch is 0 or 1 at every depth.
LEMMA BranchBit ==
    ASSUME NEW s \in Words, NEW i \in Bins, NEW d \in Nat
    PROVE  Branch(s, i, d) \in {0, 1}
<1>. DEFINE k == LeftShift(i) + d
<1>1. LeftShift(i) = SizeBits - Levels(i) /\ Levels(i) \in 1..SizeBits /\ SizeBits \in Nat
  BY LevelsOf, Widths
<1>2. CASE k >= SizeBits
  BY <1>2 DEF Branch
<1>3. CASE ~(k >= SizeBits)
  <2>1. SizeBits - 1 - k \in 0..SizeBits
    BY <1>1, <1>3
  <2>2. Branch(s, i, d) = ShiftRight(s, SizeBits - 1 - k) % 2
    BY <1>3 DEF Branch, Bit
  <2>3. s \in Nat
    BY Sizes
  <2>. HIDE DEF k
  <2>4. ShiftRight(s, SizeBits - 1 - k) \in Nat
    BY <2>1, <2>3, Shifts
  <2>. QED
    BY <2>2, <2>4
<1>. QED
  BY <1>2, <1>3

\* The steps of the three walks lead from chunks in the bins to such chunks
\* or to none.
LEMMA NextTypes ==
    ASSUME NEW b, NEW T, NEW dep, Good(b, T, dep)
    PROVE  /\ \A s \in Words, i \in Bins : NextTo(b, s, i) \in [0..SizeBits -> [Held(b) -> Held(b) \cup {NULL}]]
           /\ NextLeft(b) \in [0..SizeBits -> [Held(b) -> Held(b) \cup {NULL}]]
           /\ NextRight(b) \in [0..SizeBits -> [Held(b) -> Held(b) \cup {NULL}]]
           /\ NULL \notin Held(b)
<1>1. \A t \in Held(b) : /\ LeftmostChild(b, t) \in Held(b) \cup {NULL}
                         /\ RightmostChild(b, t) \in Held(b) \cup {NULL}
                         /\ \A d \in {0, 1} : b.node[t].child[d] \in Held(b) \cup {NULL}
  <2>. TAKE t \in Held(b)
  <2>1. \A d \in {0, 1} : b.node[t].child[d] \in Held(b) \cup {NULL}
    BY ChildHeld
  <2>2. b.node[t].child[0] \in Held(b) \cup {NULL} /\ b.node[t].child[1] \in Held(b) \cup {NULL}
    BY <2>1
  <2>. QED
    BY <2>1, <2>2 DEF LeftmostChild, RightmostChild
<1>2. \A s \in Words, i \in Bins, d \in 0..SizeBits : Branch(s, i, d) \in {0, 1}
  <2>. TAKE s \in Words, i \in Bins, d \in 0..SizeBits
  <2>1. d \in Nat
    BY Widths
  <2>. QED
    BY <2>1, BranchBit
<1>3. NULL \notin Held(b)
  BY Names DEF Good, BinsOk
<1>4. NextLeft(b) \in [0..SizeBits -> [Held(b) -> Held(b) \cup {NULL}]]
  BY <1>1 DEF NextLeft, Held
<1>5. NextRight(b) \in [0..SizeBits -> [Held(b) -> Held(b) \cup {NULL}]]
  BY <1>1 DEF NextRight, Held
<1>6. ASSUME NEW s \in Words, NEW i \in Bins
      PROVE  NextTo(b, s, i) \in [0..SizeBits -> [Held(b) -> Held(b) \cup {NULL}]]
  <2>1. \A d \in 0..SizeBits, t \in Held(b) : b.node[t].child[Branch(s, i, d)] \in Held(b) \cup {NULL}
    BY <1>1, <1>2
  <2>. QED
    BY <2>1 DEF NextTo, Held
<1>. QED
  BY <1>3, <1>4, <1>5, <1>6

\* The path towards a size is a walk among the chunks in the bins.
LEMMA PathWalks ==
    ASSUME NEW b, NEW T, NEW dep, Good(b, T, dep), NEW s \in Words, NEW i \in Bins
    PROVE  /\ b.head[i] \in Held(b) \cup {NULL}
           /\ IsWalk(Path(b, i, s), Held(b), b.head[i], NextTo(b, s, i), SizeBits)
<1>. DEFINE next == NextTo(b, s, i)
            S == Held(b)
            first == b.head[i]
<1>1. first \in S \cup {NULL}
  <2>1. first # NULL => i \in b.treemap
    BY DEF Good, Tries, RootsOk
  <2>2. i \in b.treemap => first \in T
    BY RootIn
  <2>3. T \subseteq S
    BY DEF Good, Tries
  <2>. QED
    BY <2>1, <2>2, <2>3
<1>2. next \in [0..SizeBits -> [S -> S \cup {NULL}]] /\ NULL \notin S
  BY NextTypes
<1>3. Path(b, i, s) = Walk(first, next, SizeBits)
  BY DEF Path, NextTo
<1>4. SizeBits \in Nat
  BY Widths
<1>. HIDE DEF next, S, first
<1>5. IsWalk(Walk(first, next, SizeBits), S, first, next, SizeBits)
  BY ONLY <1>1, <1>2, <1>4, WalkOf
<1>. QED
  BY <1>1, <1>3, <1>5 DEF next, S, first

\* What the path towards a size is, round by round.
LEMMA PathRounds ==
    ASSUME NEW b, NEW T, NEW dep, Good(b, T, dep), NEW s \in LargeSizes, NEW i \in Bins,
           i = TreeIndex(s), NEW n \in 0..SizeBits, \A d \in 0..n : Path(b, i, s)[d] \in Held(b)
    PROVE  \A d \in 0..n : LET t == Path(b, i, s)[d] IN
             /\ t \in T /\ b.node[t].index = i /\ dep[t] = d
             /\ d \in 0..Levels(i) /\ Bits(b, t, d) = Prefix(s, i, d)
             /\ d < n => /\ b.node[t].size # s
                         /\ Path(b, i, s)[d + 1] = b.node[t].child[Branch(s, i, d)]
<1>. DEFINE at == Path(b, i, s)
            next == NextTo(b, s, i)
            On(d) == /\ at[d] \in T /\ b.node[at[d]].index = i /\ dep[at[d]] = d
                     /\ d \in 0..Levels(i) /\ Bits(b, at[d], d) = Prefix(s, i, d)
            P == {d \in 0..n : On(d)}
<1>1. s \in Words /\ SizeBits \in Nat /\ Levels(i) \in 1..SizeBits
  BY Sizes, Widths, LevelsOf
<1>2. IsWalk(at, Held(b), b.head[i], next, SizeBits)
  BY <1>1, PathWalks
<1>3. NULL \notin Held(b)
  BY NextTypes
<1>4. at[0] = b.head[i] /\ \A d \in 0..n : at[d] # NULL
  BY <1>2, <1>3 DEF IsWalk
<1>5. \A d \in 1..n : at[d] = next[d - 1][at[d - 1]] /\ at[d - 1] \in Held(b)
  <2>. TAKE d \in 1..n
  <2>1. d \in 1..SizeBits /\ d - 1 \in 0..n
    BY <1>1
  <2>. QED
    BY <1>2, <1>4, <2>1 DEF IsWalk
<1>6. \A d \in 1..n : b.node[at[d - 1]].size # s /\ at[d] = b.node[at[d - 1]].child[Branch(s, i, d - 1)]
  <2>. TAKE d \in 1..n
  <2>1. d - 1 \in 0..SizeBits /\ at[d - 1] \in DOMAIN b.node /\ d \in 0..n
    BY <1>1, <1>5 DEF Held
  <2>. DEFINE e == d - 1
              t == at[d - 1]
  <2>2. next[e][t] = IF SizeOf(b, t) = s THEN NULL ELSE b.node[t].child[Branch(s, i, e)]
    <3>. HIDE DEF e, t, at
    <3>1. e \in 0..SizeBits /\ t \in DOMAIN b.node
      BY <2>1 DEF e, t
    <3>. QED
      BY <3>1 DEF NextTo
  <2>. HIDE DEF next, at
  <2>. QED
    BY <1>4, <1>5, <2>1, <2>2 DEF SizeOf
<1>. HIDE DEF at, next
<1>7. 0 \in P
  <2>1. 0 \in 0..n /\ 0 \in 0..Levels(i)
    BY <1>1
  <2>2. b.head[i] # NULL
    BY <1>4, <2>1
  <2>3. i \in b.treemap
    BY <2>2 DEF Good, Tries, RootsOk
  <2>4. at[0] \in T /\ b.node[at[0]].index = i /\ dep[at[0]] = 0
    BY <1>4, <2>3, RootIn
  <2>5. Bits(b, at[0], 0) = Prefix(s, i, 0)
    <3>1. b.node[at[0]].size \in LargeSizes /\ TreeIndex(b.node[at[0]].size) = i
      BY <2>4, InTrie
    <3>. DEFINE u == b.node[at[0]].size
    <3>2. u \in LargeSizes /\ TreeIndex(s) = TreeIndex(u)
      BY <3>1
    <3>. HIDE DEF u
    <3>3. Prefix(s, TreeIndex(s), 0) = Prefix(u, TreeIndex(s), 0)
      BY <3>2, SameBin
    <3>. QED
      BY <2>4, <3>3 DEF u, Bits
  <2>. QED
    BY <2>1, <2>4, <2>5
<1>8. ASSUME NEW d \in 1..n, d - 1 \in P PROVE d \in P
  <2>. DEFINE t == at[d - 1]
              e == d - 1
              h == Branch(s, i, e)
              c == b.node[t].child[h]
  <2>1. e \in 0..n /\ d \in 0..n /\ d = e + 1
    BY <1>1
  <2>2. /\ t \in T /\ b.node[t].index = i /\ dep[t] = e
        /\ e \in 0..Levels(i) /\ Bits(b, t, e) = Prefix(s, i, e)
    BY <1>8
  <2>3. at[d] = c /\ c # NULL
    BY <1>4, <1>6, <2>1
  <2>4. h \in {0, 1}
    <3>1. e \in Nat
      BY <2>1
    <3>. HIDE DEF e
    <3>. QED
      BY <1>1, <3>1, BranchBit
  <2>. HIDE DEF t, e, h
  <2>5. /\ c \in T /\ dep[c] = dep[t] + 1 /\ b.node[c].index = b.node[t].index
        /\ dep[t] \in 0..(Levels(b.node[t].index) - 1)
        /\ Bits(b, c, dep[c]) = 2 * Bits(b, t, dep[t]) + h
    BY <2>2, <2>3, <2>4, ChildIn
  <2>6. e \in 0..(Levels(i) - 1)
    BY <2>2, <2>5
  <2>7. Prefix(s, i, e + 1) = 2 * Prefix(s, i, e) + Branch(s, i, e)
    BY <2>6, PrefixStep
  <2>8. Bits(b, c, d) = Prefix(s, i, d)
    BY <2>1, <2>2, <2>5, <2>7 DEF h
  <2>9. d \in 0..Levels(i)
    BY <1>1, <2>1, <2>6
  <2>. HIDE DEF c
  <2>. QED
    BY <2>1, <2>2, <2>3, <2>5, <2>8, <2>9
<1>9. \A d \in 0..n : d \in P
  <2>. HIDE DEF P
  <2>. QED
    BY <1>7, <1>8, EachRound
<1>10. \A d \in 0..n : d < n => /\ b.node[at[d]].size # s
                                /\ at[d + 1] = b.node[at[d]].child[Branch(s, i, d)]
  <2>. TAKE d \in 0..n
  <2>1. d < n => d + 1 \in 1..n /\ (d + 1) - 1 = d
    BY <1>1
  <2>. QED
    BY <1>6, <2>1
<1>11. \A d \in 0..n : On(d)
  BY <1>9
<1>. QED
  BY <1>10, <1>11 DEF at

\* A path ends at the size, or where its chunk will hang.
LEMMA PathFinds ==
    ASSUME NEW b, NEW T, NEW dep, Good(b, T, dep), NEW s \in LargeSizes, TreeIndex(s) \in b.treemap
    PROVE  LET i == TreeIndex(s)
               path == Path(b, i, s)
               e == End(path)
               t == path[e]
           IN /\ t \in T /\ b.node[t].index = i /\ dep[t] = e /\ e \in Nat
              /\ Bits(b, t, e) = Prefix(s, i, e)
              /\ b.node[t].size # s => /\ b.node[t].child[Branch(s, i, e)] = NULL
                                       /\ e \in 0..(Levels(i) - 1)
<1>. DEFINE i == TreeIndex(s)
            path == Path(b, i, s)
            e == End(path)
            t == path[e]
<1>1. s \in Words /\ SizeBits \in Nat /\ i \in Bins /\ b.head[i] \in Held(b)
  <2>1. b.head[i] \in T
    BY RootIn
  <2>. QED
    BY <2>1, Sizes, Widths, IndexOf, InTrie
<1>2. NULL \notin Held(b) /\ Levels(i) \in 1..SizeBits
  BY <1>1, NextTypes, LevelsOf
<1>3. IsWalk(path, Held(b), b.head[i], NextTo(b, s, i), SizeBits)
  BY <1>1, PathWalks
<1>4. /\ e \in 0..SizeBits
      /\ e < SizeBits => path[e + 1] = NULL
      /\ \A d \in 0..e : path[d] \in Held(b)
  <2>. DEFINE S == Held(b)
              first == b.head[i]
              next == NextTo(b, s, i)
              n == SizeBits
  <2>1. NULL \notin S /\ first \in S /\ n \in Nat /\ IsWalk(path, S, first, next, n)
    BY <1>1, <1>2, <1>3
  <2>. HIDE DEF S, first, next, n, path
  <2>2. /\ End(path) \in 0..n
        /\ End(path) < n => path[End(path) + 1] = NULL
        /\ \A d \in 0..End(path) : path[d] \in S
    BY ONLY <2>1, EndOf
  <2>. QED
    BY <2>2 DEF S, n
<1>. HIDE DEF e
<1>5. \A d \in 0..e : LET u == path[d] IN
             /\ u \in T /\ b.node[u].index = i /\ dep[u] = d
             /\ d \in 0..Levels(i) /\ Bits(b, u, d) = Prefix(s, i, d)
  <2>. HIDE DEF i
  <2>1. i = TreeIndex(s)
    BY DEF i
  <2>. QED
    BY <1>1, <1>4, <2>1, PathRounds
<1>6. e \in 0..e /\ e \in Nat
  BY <1>1, <1>4
<1>7. /\ t \in T /\ b.node[t].index = i /\ dep[t] = e
      /\ e \in 0..Levels(i) /\ Bits(b, t, e) = Prefix(s, i, e)
  BY <1>5, <1>6
<1>8. ASSUME b.node[t].size # s PROVE e \in 0..(Levels(i) - 1)
  <2>. SUFFICES ASSUME e = Levels(i) PROVE FALSE
    BY <1>2, <1>7
  <2>. DEFINE u == b.node[t].size
  <2>1. u \in LargeSizes
    BY <1>7, InTrie
  <2>2. Prefix(s, i, Levels(i)) = s
    BY <1>1, PrefixType
  <2>3. Prefix(u, i, Levels(i)) = u
    <3>. HIDE DEF u, i
    <3>. QED
      BY <1>1, <2>1, PrefixType
  <2>. QED
    BY <1>7, <1>8, <2>2, <2>3 DEF Bits
<1>9. ASSUME b.node[t].size # s PROVE b.node[t].child[Branch(s, i, e)] = NULL
  <2>1. e \in 0..(Levels(i) - 1)
    BY <1>8, <1>9
  <2>2. e < SizeBits /\ e + 1 \in 1..SizeBits /\ (e + 1) - 1 = e /\ e \in 0..SizeBits
    BY <1>1, <1>2, <2>1
  <2>3. path[e + 1] = NULL
    BY <1>4, <2>2
  <2>4. path[e + 1] = IF path[e] = NULL THEN NULL ELSE NextTo(b, s, i)[e][path[e]]
    BY <1>3, <2>2 DEF IsWalk
  <2>5. t \in DOMAIN b.node /\ t # NULL
    BY <1>2, <1>7, InTrie DEF Held
  <2>. HIDE DEF t
  <2>6. NextTo(b, s, i)[e][t] = IF SizeOf(b, t) = s THEN NULL ELSE b.node[t].child[Branch(s, i, e)]
    <3>. HIDE DEF i
    <3>. QED
      BY <2>2, <2>5 DEF NextTo
  <2>. QED
    BY <1>9, <2>3, <2>4, <2>5, <2>6 DEF t, SizeOf
<1>. HIDE DEF i, path, t
<1>10. /\ t \in T /\ b.node[t].index = i /\ dep[t] = e /\ e \in Nat
       /\ Bits(b, t, e) = Prefix(s, i, e)
       /\ b.node[t].size # s => /\ b.node[t].child[Branch(s, i, e)] = NULL
                                /\ e \in 0..(Levels(i) - 1)
  BY <1>6, <1>7, <1>8, <1>9
<1>. QED
  BY <1>10 DEF i, path, t, e

\* Rightmost, and then the end: a leaf below the chunk, or the chunk itself.
LEMMA RightmostFound ==
    ASSUME NEW b, NEW T, NEW dep, Good(b, T, dep), NEW x \in T
    PROVE  LET r == RightmostLeaf(b, x) IN
             /\ r \in T /\ b.node[r].child = NoChild
             /\ b.node[r].index = b.node[x].index
             /\ dep[x] <= dep[r]
             /\ Bits(b, r, dep[x]) = Bits(b, x, dep[x])
             /\ r = x <=> b.node[x].child = NoChild
<1>. DEFINE next == NextRight(b)
            at == Walk(x, next, SizeBits)
            e == End(at)
            r == at[e]
            i == b.node[x].index
            On(d) == /\ at[d] \in T /\ b.node[at[d]].index = i /\ dep[at[d]] = dep[x] + d
                     /\ Bits(b, at[d], dep[x]) = Bits(b, x, dep[x])
            P == {d \in 0..e : On(d)}
<1>1. RightmostLeaf(b, x) = r
  BY DEF RightmostLeaf, NextRight
<1>2. x \in Held(b) /\ SizeBits \in Nat /\ i \in Bins /\ Levels(i) \in 1..SizeBits /\ dep[x] \in Nat
      /\ dep[x] \in 0..Levels(i)
  BY InTrie, Widths
<1>3. next \in [0..SizeBits -> [Held(b) -> Held(b) \cup {NULL}]] /\ NULL \notin Held(b)
  BY NextTypes
<1>4. IsWalk(at, Held(b), x, next, SizeBits)
  <2>. DEFINE S == Held(b)
              n == SizeBits
  <2>1. x \in S \cup {NULL} /\ n \in Nat /\ next \in [0..n -> [S -> S \cup {NULL}]] /\ NULL \notin S
    BY <1>2, <1>3
  <2>. HIDE DEF S, n, next
  <2>2. IsWalk(Walk(x, next, n), S, x, next, n)
    BY ONLY <2>1, WalkOf
  <2>. QED
    BY <2>2 DEF S, n
<1>5. /\ e \in 0..SizeBits
      /\ e < SizeBits => at[e + 1] = NULL
      /\ \A d \in 0..e : at[d] \in Held(b)
  <2>. DEFINE S == Held(b)
              n == SizeBits
  <2>1. x \in S /\ n \in Nat /\ NULL \notin S /\ IsWalk(at, S, x, next, n)
    BY <1>2, <1>3, <1>4
  <2>. HIDE DEF S, n, next, at
  <2>2. /\ End(at) \in 0..n
        /\ End(at) < n => at[End(at) + 1] = NULL
        /\ \A d \in 0..End(at) : at[d] \in S
    BY ONLY <2>1, EndOf
  <2>. QED
    BY <2>2 DEF S, n
<1>6. \A d \in 0..SizeBits, t \in Held(b) : next[d][t] = RightmostChild(b, t)
  BY DEF NextRight, Held
<1>. HIDE DEF next, at, e
<1>7. at[0] = x
  BY <1>4 DEF IsWalk
<1>8. \A d \in 1..SizeBits : at[d - 1] \in Held(b) => at[d] = RightmostChild(b, at[d - 1])
  <2>. TAKE d \in 1..SizeBits
  <2>1. d - 1 \in 0..SizeBits
    BY <1>2
  <2>2. at[d] = IF at[d - 1] = NULL THEN NULL ELSE next[d - 1][at[d - 1]]
    BY <1>4 DEF IsWalk
  <2>. QED
    BY <1>3, <1>6, <2>1, <2>2
<1>9. \A t \in T : RightmostChild(b, t) # NULL =>
                     \E d \in {0, 1} : RightmostChild(b, t) = b.node[t].child[d]
  BY DEF RightmostChild
<1>10. 0 \in P
  BY <1>2, <1>5, <1>7
<1>11. ASSUME NEW d \in 1..e, d - 1 \in P PROVE d \in P
  <2>. DEFINE t == at[d - 1]
              c == at[d]
  <2>1. d \in 1..SizeBits /\ d - 1 \in 0..e /\ d \in 0..e
    BY <1>2, <1>5
  <2>2. /\ t \in T /\ b.node[t].index = i /\ dep[t] = dep[x] + (d - 1)
        /\ Bits(b, t, dep[x]) = Bits(b, x, dep[x])
    BY <1>11
  <2>3. t \in Held(b) /\ c # NULL /\ c = RightmostChild(b, t)
    BY <1>3, <1>5, <1>8, <2>1
  <2>4. PICK k \in {0, 1} : c = b.node[t].child[k]
    BY <1>9, <2>2, <2>3
  <2>. HIDE DEF t, c
  <2>5. /\ c \in T /\ dep[c] = dep[t] + 1 /\ b.node[c].index = b.node[t].index
        /\ dep[t] \in 0..(Levels(b.node[t].index) - 1)
        /\ Bits(b, c, dep[t]) = Bits(b, t, dep[t])
    BY <2>2, <2>3, <2>4, ChildIn
  <2>6. dep[t] \in 0..Levels(b.node[c].index) /\ dep[x] \in 0..dep[t]
    BY <1>2, <2>1, <2>2, <2>5
  <2>7. Bits(b, c, dep[x]) = Bits(b, t, dep[x])
    BY <2>2, <2>5, <2>6, BitsAbove
  <2>8. dep[c] = dep[x] + d
    BY <1>2, <2>1, <2>2, <2>5
  <2>. QED
    BY <2>1, <2>2, <2>5, <2>7, <2>8 DEF c
<1>12. \A d \in 0..e : d \in P
  <2>. HIDE DEF P
  <2>. QED
    BY <1>5, <1>10, <1>11, EachRound
<1>13. e \in 0..e /\ e \in Nat
  BY <1>2, <1>5
<1>14. On(e)
  BY <1>12, <1>13
<1>15. r \in T /\ b.node[r].index = i /\ dep[r] = dep[x] + e /\ Bits(b, r, dep[x]) = Bits(b, x, dep[x])
  BY <1>14
<1>16. RightmostChild(b, r) = NULL
  <2>1. CASE e < SizeBits
    <3>1. e + 1 \in 1..SizeBits /\ (e + 1) - 1 = e
      BY <1>2, <1>13, <2>1
    <3>2. at[e] \in Held(b)
      BY <1>5, <1>13
    <3>. QED
      BY <1>5, <1>8, <2>1, <3>1, <3>2
  <2>2. CASE ~(e < SizeBits)
    <3>. SUFFICES ASSUME RightmostChild(b, r) # NULL PROVE FALSE
      OBVIOUS
    <3>1. PICK k \in {0, 1} : RightmostChild(b, r) = b.node[r].child[k]
      BY <1>9, <1>15
    <3>. HIDE DEF r
    <3>2. dep[r] \in 0..(Levels(b.node[r].index) - 1)
      BY <1>15, <3>1, ChildIn
    <3>. QED
      BY <1>2, <1>5, <1>15, <2>2, <3>2
  <2>. QED
    BY <2>1, <2>2
<1>. HIDE DEF r
<1>17. \A t \in T : RightmostChild(b, t) = NULL <=> b.node[t].child = NoChild
  <2>. TAKE t \in T
  <2>1. b.node[t].child \in [{0, 1} -> Chunks \cup {NULL}]
    BY InTrie, NodeFacts DEF Good
  <2>2. b.node[t].child = NoChild <=> b.node[t].child[0] = NULL /\ b.node[t].child[1] = NULL
    BY <2>1 DEF NoChild
  <2>. QED
    BY <2>2 DEF RightmostChild
<1>18. b.node[r].child = NoChild
  BY <1>15, <1>16, <1>17
<1>19. b.node[x].child = NoChild => r = x
  <2>. SUFFICES ASSUME b.node[x].child = NoChild, e # 0 PROVE FALSE
    BY <1>7 DEF r
  <2>1. RightmostChild(b, x) = NULL
    BY <1>17
  <2>2. 1 \in 1..SizeBits /\ 1 - 1 = 0 /\ 1 \in 0..e
    BY <1>2, <1>5
  <2>3. at[1] = NULL
    BY <1>2, <1>7, <1>8, <2>1, <2>2
  <2>. QED
    BY <1>3, <1>5, <2>2, <2>3
<1>20. dep[x] <= dep[r]
  BY <1>2, <1>13, <1>15
<1>. QED
  BY <1>1, <1>15, <1>18, <1>19, <1>20

\* A chunk that is in a ring only has nothing below it.
LEMMA RightmostOutside ==
    ASSUME NEW b, NEW T, NEW dep, Good(b, T, dep), NEW x \in Held(b), x \notin T
    PROVE  RightmostLeaf(b, x) = x
<1>. DEFINE next == NextRight(b)
            at == Walk(x, next, SizeBits)
            e == End(at)
<1>1. RightmostLeaf(b, x) = at[e]
  BY DEF RightmostLeaf, NextRight
<1>2. SizeBits \in Nat /\ 1 \in 1..SizeBits /\ 1 - 1 = 0 /\ 0 \in 0..SizeBits
  BY Widths
<1>3. next \in [0..SizeBits -> [Held(b) -> Held(b) \cup {NULL}]] /\ NULL \notin Held(b)
  BY NextTypes
<1>4. IsWalk(at, Held(b), x, next, SizeBits)
  <2>. DEFINE S == Held(b)
              n == SizeBits
  <2>1. x \in S \cup {NULL} /\ n \in Nat /\ next \in [0..n -> [S -> S \cup {NULL}]] /\ NULL \notin S
    BY <1>2, <1>3
  <2>. HIDE DEF S, n, next
  <2>2. IsWalk(Walk(x, next, n), S, x, next, n)
    BY ONLY <2>1, WalkOf
  <2>. QED
    BY <2>2 DEF S, n
<1>5. e \in 0..SizeBits /\ \A d \in 0..e : at[d] \in Held(b)
  <2>. DEFINE S == Held(b)
              n == SizeBits
  <2>1. x \in S /\ n \in Nat /\ NULL \notin S /\ IsWalk(at, S, x, next, n)
    BY <1>2, <1>3, <1>4
  <2>. HIDE DEF S, n, next, at
  <2>2. End(at) \in 0..n /\ \A d \in 0..End(at) : at[d] \in S
    BY ONLY <2>1, EndOf
  <2>. QED
    BY <2>2 DEF S, n
<1>6. RightmostChild(b, x) = NULL
  BY DEF Good, Outside, NoChild, RightmostChild
<1>7. next[0][x] = RightmostChild(b, x)
  BY <1>2 DEF NextRight, Held
<1>. HIDE DEF next, at, e
<1>8. at[0] = x /\ at[1] = NULL
  <2>1. at[0] = x
    BY <1>4 DEF IsWalk
  <2>2. at[1] = IF at[1 - 1] = NULL THEN NULL ELSE next[1 - 1][at[1 - 1]]
    BY <1>2, <1>4 DEF IsWalk
  <2>. QED
    BY <1>2, <1>3, <1>6, <1>7, <2>1, <2>2
<1>9. e = 0
  <2>. SUFFICES ASSUME e # 0 PROVE FALSE
    OBVIOUS
  <2>1. 1 \in 0..e
    BY <1>2, <1>5
  <2>. QED
    BY <1>3, <1>5, <1>8, <2>1
<1>. QED
  BY <1>1, <1>8, <1>9

-----------------------------------------------------------------------------
(* The searches. *)

\* A nonempty set of numbers up to n has its Max as greatest element.
LEMMA GreatestOf ==
    ASSUME NEW n \in Nat, NEW S \in SUBSET (0..n), S # {}
    PROVE  Max(S) \in S /\ \A y \in S : y <= Max(S)
<1>. DEFINE D == {n - y : y \in S}
<1>1. PICK x \in S : TRUE
  OBVIOUS
<1>2. n - x \in D /\ D \in SUBSET Nat
  BY <1>1
<1>3. PICK k \in D : \A y \in D : k <= y
  <2>. HIDE DEF D
  <2>. QED
    BY <1>2, LeastExists
<1>4. PICK m \in S : k = n - m
  BY <1>3
<1>5. \A y \in S : m >= y
  <2>. TAKE y \in S
  <2>1. n - m <= n - y
    BY <1>3, <1>4
  <2>. QED
    BY <2>1
<1>6. \E z \in S : \A y \in S : z >= y
  BY <1>5
<1>7. Max(S) \in S /\ \A y \in S : Max(S) >= y
  BY <1>6 DEF Max
<1>8. \A y \in S : y \in Nat
  OBVIOUS
<1>. QED
  BY <1>7, <1>8

\* A nonempty set of numbers has its Min as least element.
LEMMA LeastOf ==
    ASSUME NEW S \in SUBSET Nat, S # {}
    PROVE  Min(S) \in S /\ \A y \in S : Min(S) <= y
<1>1. \E x \in S : \A y \in S : x <= y
  BY LeastExists
<1>. QED
  BY <1>1 DEF Min

\* A leftmost path is among the chunks in the bins and begins with its root.
LEMMA LeftmostNodes ==
    ASSUME NEW b, NEW T, NEW dep, Good(b, T, dep), NEW root \in Held(b) \cup {NULL}
    PROVE  Nodes(LeftmostPath(b, root)) \subseteq Held(b) /\ (root # NULL => root \in Nodes(LeftmostPath(b, root)))
<1>. DEFINE next == NextLeft(b)
            S == Held(b)
            n == SizeBits
            at == Walk(root, next, n)
<1>1. n \in Nat /\ next \in [0..n -> [S -> S \cup {NULL}]] /\ NULL \notin S /\ root \in S \cup {NULL}
  BY NextTypes, Widths
<1>2. LeftmostPath(b, root) = at
  BY DEF LeftmostPath, NextLeft
<1>. HIDE DEF next, S, n
<1>3. IsWalk(at, S, root, next, n)
  BY ONLY <1>1, WalkOf
<1>. HIDE DEF at
<1>4. Nodes(at) \subseteq S
  BY ONLY <1>1, <1>3, NodesOf
<1>5. 0 \in DOMAIN at /\ at[0] = root
  BY <1>1, <1>3 DEF IsWalk
<1>6. root # NULL => root \in Nodes(at)
  BY <1>5 DEF Nodes, Range
<1>. QED
  BY <1>2, <1>4, <1>6 DEF S

\* The path towards a size is among the chunks in the bins.
LEMMA PathNodes ==
    ASSUME NEW b, NEW T, NEW dep, Good(b, T, dep), NEW s \in Words, NEW i \in Bins
    PROVE  /\ Nodes(Path(b, i, s)) \subseteq Held(b)
           /\ \A d \in 0..SizeBits : Path(b, i, s)[d] \in Held(b) \cup {NULL}
           /\ Nodes(Path(b, i, s)) # {} => b.head[i] \in Held(b)
<1>. DEFINE at == Path(b, i, s)
            next == NextTo(b, s, i)
            S == Held(b)
            n == SizeBits
            first == b.head[i]
<1>1. n \in Nat /\ NULL \notin S /\ first \in S \cup {NULL} /\ IsWalk(at, S, first, next, n)
  BY NextTypes, Widths, PathWalks
<1>. HIDE DEF at, next, S, n, first
<1>2. Nodes(at) \subseteq S /\ \A t \in Nodes(at) : \E d \in 0..n : at[d] = t
  BY ONLY <1>1, NodesOf
<1>3. \A d \in 0..n : at[d] \in S \cup {NULL}
  BY <1>1 DEF IsWalk
<1>4. first = NULL => \A d \in 0..n : at[d] = NULL
  <2>. SUFFICES ASSUME first = NULL PROVE \A d \in 0..n : at[d] = NULL
    OBVIOUS
  <2>. DEFINE P == {d \in 0..n : at[d] = NULL}
  <2>1. 0 \in P
    BY <1>1 DEF IsWalk
  <2>2. ASSUME NEW d \in 1..n, d - 1 \in P PROVE d \in P
    <3>1. d \in 0..n /\ at[d - 1] = NULL
      BY <2>2, <1>1
    <3>. QED
      BY <1>1, <3>1 DEF IsWalk
  <2>3. \A d \in 0..n : d \in P
    <3>. HIDE DEF P
    <3>. QED
      BY <1>1, <2>1, <2>2, EachRound
  <2>. QED
    BY <2>3
<1>5. Nodes(at) # {} => first \in S
  BY <1>1, <1>2, <1>4
<1>. QED
  BY <1>2, <1>3, <1>5 DEF at, S, n, first

\* The remainder of a number that is less than twice the divisor.
LEMMA Remainder ==
    ASSUME NEW x \in Nat, NEW d \in Nat \ {0}
    PROVE  /\ x % d \in 0..(d - 1)
           /\ x < d => x % d = x
           /\ x >= d /\ x < 2 * d => x % d = x - d
  OBVIOUS

\* A difference of words.
LEMMA MinusOf ==
    ASSUME NEW s \in Words, NEW nb \in Words
    PROVE  /\ Minus(s, nb) = IF s >= nb THEN s - nb ELSE s + Pow2[SizeBits] - nb
           /\ Minus(s, nb) \in Words
<1>. DEFINE w == Pow2[SizeBits]
            x == s + w - nb
<1>1. w \in Nat \ {0} /\ s \in Nat /\ nb \in Nat /\ s < w /\ nb < w
  <2>1. SizeBits \in 0..SizeBits
    BY Widths
  <2>. QED
    BY <2>1, PowersPositive, Sizes
<1>2. Minus(s, nb) = x % w
  BY DEF Minus, Wrap
<1>. HIDE DEF w
<1>3. x \in Nat /\ x < 2 * w
  BY <1>1
<1>. HIDE DEF x
<1>4. /\ x % w \in 0..(w - 1)
      /\ x < w => x % w = x
      /\ x >= w => x % w = x - w
  BY ONLY <1>1, <1>3, Remainder
<1>5. x >= w <=> s >= nb
  BY <1>1 DEF x
<1>6. x - w = s - nb
  BY <1>1 DEF x
<1>7. x % w = IF s >= nb THEN s - nb ELSE x
  BY <1>1, <1>3, <1>4, <1>5, <1>6
<1>8. Minus(s, nb) \in Words
  BY <1>2, <1>4 DEF Words, w
<1>. QED
  BY <1>2, <1>7, <1>8 DEF x, w

\* The chunks of a search that a request fits in, and how much of them is left.
LEMMA FittingOf ==
    ASSUME NEW b, BinsOk(b), NEW seen \in SUBSET Held(b), NEW nb \in Words \ {0}
    PROVE  /\ Fitting(b, seen, nb) = {t \in seen : b.node[t].size >= nb}
           /\ \A t \in Fitting(b, seen, nb) : Rest(b, t, nb) = b.node[t].size - nb
<1>1. nb \in Words /\ nb \in Nat /\ 0 \in Words /\ nb >= 1 /\ 0 \in Nat
  <2>1. nb \in Words /\ nb \in Nat /\ nb # 0
    BY Sizes
  <2>2. SizeBits \in 0..SizeBits
    BY Widths
  <2>3. Pow2[SizeBits] \in Nat /\ Pow2[SizeBits] >= 1
    BY <2>2, PowersPositive
  <2>4. 0 \in Words
    BY <2>3 DEF Words
  <2>. QED
    BY <2>1, <2>4
<1>2. Minus(0, nb) = Pow2[SizeBits] - nb /\ Pow2[SizeBits] \in Nat
  <2>1. Minus(0, nb) = IF 0 >= nb THEN 0 - nb ELSE 0 + Pow2[SizeBits] - nb
    BY <1>1, MinusOf
  <2>2. SizeBits \in 0..SizeBits
    BY Widths
  <2>3. Pow2[SizeBits] \in Nat
    BY <2>2, Powers
  <2>. QED
    BY <1>1, <2>1, <2>3
<1>3. \A t \in seen : /\ b.node[t].size \in Nat /\ b.node[t].size < Pow2[SizeBits]
                      /\ Rest(b, t, nb) = IF b.node[t].size >= nb THEN b.node[t].size - nb
                                          ELSE b.node[t].size + Pow2[SizeBits] - nb
  <2>. TAKE t \in seen
  <2>1. b.node[t].size \in Words
    BY NodeFacts, Sizes
  <2>. DEFINE s == b.node[t].size
  <2>2. Rest(b, t, nb) = Minus(s, nb)
    BY DEF Rest, SizeOf
  <2>3. s \in Words
    BY <2>1
  <2>. HIDE DEF s
  <2>4. Minus(s, nb) = IF s >= nb THEN s - nb ELSE s + Pow2[SizeBits] - nb
    BY <1>1, <2>3, MinusOf
  <2>5. s \in Nat /\ s < Pow2[SizeBits]
    BY <2>3, Sizes
  <2>. QED
    BY <2>2, <2>4, <2>5 DEF s
<1>4. \A t \in seen : Rest(b, t, nb) < Minus(0, nb) <=> b.node[t].size >= nb
  BY <1>1, <1>2, <1>3
<1>5. Fitting(b, seen, nb) = {t \in seen : b.node[t].size >= nb}
  BY <1>4 DEF Fitting
<1>. QED
  BY <1>3, <1>5

\* What a search takes: of the chunks it has seen, the least that fits.
LEMMA SmallestOf ==
    ASSUME NEW b, BinsOk(b), NEW seen \in SUBSET Held(b), NEW nb \in Words \ {0}
    PROVE  LET v == Smallest(b, seen, nb) IN
             \/ v = NULL /\ \A t \in seen : b.node[t].size < nb
             \/ /\ v \in seen /\ b.node[v].size >= nb
                /\ \A t \in seen : b.node[t].size >= nb => b.node[v].size <= b.node[t].size
<1>. DEFINE F == Fitting(b, seen, nb)
            v == Smallest(b, seen, nb)
<1>1. F = {t \in seen : b.node[t].size >= nb} /\ \A t \in F : Rest(b, t, nb) = b.node[t].size - nb
  BY FittingOf
<1>2. nb \in Nat /\ \A t \in seen : b.node[t].size \in Nat
  <2>1. \A t \in seen : b.node[t].size \in Words
    BY NodeFacts, Sizes
  <2>. QED
    BY <2>1, Sizes
<1>3. v = IF F = {} THEN NULL
          ELSE CHOOSE t \in F : \A u \in F : Rest(b, t, nb) <= Rest(b, u, nb)
  BY DEF Smallest
<1>. HIDE DEF F, v
<1>4. CASE F = {}
  <2>1. \A t \in seen : b.node[t].size < nb
    BY <1>1, <1>2, <1>4
  <2>. QED
    BY <1>3, <1>4, <2>1 DEF v
<1>5. CASE F # {}
  <2>. DEFINE R == {Rest(b, t, nb) : t \in F}
  <2>1. R \in SUBSET Nat
    BY <1>1, <1>2
  <2>2. PICK x \in F : TRUE
    BY <1>5
  <2>3. Rest(b, x, nb) \in R
    BY <2>2
  <2>4. PICK k \in R : \A y \in R : k <= y
    <3>. HIDE DEF R
    <3>. QED
      BY <2>1, <2>3, LeastExists
  <2>5. PICK t \in F : k = Rest(b, t, nb)
    BY <2>4
  <2>6. \A u \in F : Rest(b, t, nb) <= Rest(b, u, nb)
    BY <2>4, <2>5
  <2>7. v \in F /\ \A u \in F : Rest(b, v, nb) <= Rest(b, u, nb)
    BY <1>3, <1>5, <2>5, <2>6
  <2>8. \A u \in F : b.node[v].size <= b.node[u].size
    <3>. TAKE u \in F
    <3>1. b.node[v].size - nb <= b.node[u].size - nb
      BY <1>1, <2>7
    <3>2. b.node[v].size \in Nat /\ b.node[u].size \in Nat
      BY <1>1, <1>2, <2>7
    <3>. QED
      BY <1>2, <3>1, <3>2
  <2>9. v \in seen /\ b.node[v].size >= nb
        /\ \A u \in seen : b.node[u].size >= nb => b.node[v].size <= b.node[u].size
    BY <1>1, <2>7, <2>8
  <2>. QED
    BY <2>9 DEF v
<1>. QED
  BY <1>4, <1>5

\* The right child of the deepest chunk of a path that went left.
LEMMA UntakenIn ==
    ASSUME NEW b, NEW T, NEW dep, Good(b, T, dep), NEW nb \in Words, NEW i \in Bins
    PROVE  DeepestUntaken(b, Path(b, i, nb), i, nb) \in Held(b) \cup {NULL}
<1>. DEFINE path == Path(b, i, nb)
            left == {d \in 0..SizeBits :
                       path[d] # NULL /\ Branch(nb, i, d) = 0 /\ b.node[path[d]].child[1] # NULL}
<1>1. \A d \in 0..SizeBits : path[d] \in Held(b) \cup {NULL}
  BY PathNodes
<1>2. left \in SUBSET (0..SizeBits) /\ SizeBits \in Nat
  BY Widths
<1>3. DeepestUntaken(b, path, i, nb) = IF left = {} THEN NULL ELSE b.node[path[Max(left)]].child[1]
  BY DEF DeepestUntaken
<1>4. left # {} => Max(left) \in left
  <2>. HIDE DEF left
  <2>. QED
    BY <1>2, GreatestOf
<1>5. CASE left = {}
  <2>. HIDE DEF left
  <2>. QED
    BY <1>3, <1>5
<1>6. CASE left # {}
  <2>. DEFINE m == Max(left)
  <2>1. m \in 0..SizeBits /\ path[m] # NULL
    BY <1>4, <1>6
  <2>. HIDE DEF left, m
  <2>2. path[m] \in Held(b)
    BY <1>1, <2>1
  <2>3. b.node[path[m]].child[1] \in Held(b) \cup {NULL}
    BY <2>2, ChildHeld
  <2>. QED
    BY <1>3, <1>6, <2>3 DEF m
<1>. QED
  BY <1>5, <1>6

\* The first root of marked bins is a chunk in the bins, if any bin is
\* marked.
LEMMA FirstRootIn ==
    ASSUME NEW b, NEW T, NEW dep, Good(b, T, dep), NEW I \in SUBSET b.treemap
    PROVE  /\ FirstRoot(b, I) \in Held(b) \cup {NULL}
           /\ I # {} => FirstRoot(b, I) # NULL
<1>1. CASE I = {}
  BY <1>1 DEF FirstRoot
<1>2. CASE I # {}
  <2>1. I \in SUBSET Nat
    <3>1. b.treemap \subseteq Bins
      BY DEF Good, Tries, RootsOk
    <3>. QED
      BY <3>1 DEF Bins
  <2>2. Min(I) \in I
    BY <1>2, <2>1, LeastOf
  <2>. DEFINE m == Min(I)
  <2>3. m \in b.treemap
    BY <2>2
  <2>. HIDE DEF m
  <2>4. b.head[m] \in T /\ b.head[m] # NULL
    BY <2>3, RootIn
  <2>5. b.head[m] \in Held(b)
    BY <2>4, InTrie
  <2>. QED
    BY <1>2, <2>4, <2>5 DEF FirstRoot, m
<1>. QED
  BY <1>1, <1>2

\* The searches find chunks of the bins.
LEMMA BestLargeIn ==
    ASSUME NEW b, NEW T, NEW dep, Good(b, T, dep), NEW nb \in LargeSizes
    PROVE  BestLarge(b, nb) \in Held(b) \cup {NULL}
<1>. DEFINE i == TreeIndex(nb)
            path == Path(b, i, nb)
            exact == Nodes(path) # {} /\ SizeOf(b, path[End(path)]) = nb
            rst == DeepestUntaken(b, path, i, nb)
            I == {j \in b.treemap : j > i}
            t == IF exact THEN path[End(path)]
                 ELSE IF rst = NULL /\ Smallest(b, Nodes(path), nb) = NULL
                 THEN FirstRoot(b, I)
                 ELSE rst
            seen == Nodes(path) \cup Nodes(LeftmostPath(b, t))
<1>1. BestLarge(b, nb) = Smallest(b, seen, nb)
  BY DEF BestLarge
<1>2. i \in Bins /\ nb \in Words \ {0} /\ BinsOk(b)
  BY IndexOf, Sizes DEF Good
<1>3. Nodes(path) \subseteq Held(b) /\ (Nodes(path) # {} => b.head[i] \in Held(b))
  BY <1>2, PathNodes
<1>4. rst \in Held(b) \cup {NULL}
  BY <1>2, UntakenIn
<1>5. FirstRoot(b, I) \in Held(b) \cup {NULL}
  BY FirstRootIn
<1>6. exact => path[End(path)] \in Held(b)
  <2>. SUFFICES ASSUME exact PROVE path[End(path)] \in Held(b)
    OBVIOUS
  <2>1. b.head[i] # NULL
    BY <1>3, NextTypes
  <2>2. i \in b.treemap
    BY <1>2, <2>1 DEF Good, Tries, RootsOk
  <2>3. path[End(path)] \in T
    BY <2>2, PathFinds
  <2>. QED
    BY <2>3, InTrie
<1>. HIDE DEF i, path, rst, I
<1>7. t \in Held(b) \cup {NULL}
  <2>. HIDE DEF exact
  <2>. QED
    BY <1>4, <1>5, <1>6
<1>. HIDE DEF t, exact
<1>8. Nodes(LeftmostPath(b, t)) \subseteq Held(b)
  BY <1>7, LeftmostNodes
<1>9. seen \in SUBSET Held(b)
  BY <1>3, <1>8
<1>. HIDE DEF seen
<1>10. Smallest(b, seen, nb) = NULL \/ Smallest(b, seen, nb) \in seen
  BY <1>2, <1>9, SmallestOf
<1>. QED
  BY <1>1, <1>9, <1>10

\* tmalloc_small finds a chunk if any bin is marked.
LEMMA BestSmallIn ==
    ASSUME NEW b, NEW T, NEW dep, Good(b, T, dep), NEW nb \in Words \ {0}, nb < MinLarge, b.treemap # {}
    PROVE  BestSmall(b, nb) \in Held(b)
<1>. DEFINE root == FirstRoot(b, b.treemap)
            seen == Nodes(LeftmostPath(b, root))
<1>1. BestSmall(b, nb) = Smallest(b, seen, nb)
  BY DEF BestSmall
<1>2. root \in Held(b) \cup {NULL} /\ root # NULL /\ BinsOk(b)
  BY FirstRootIn DEF Good
<1>. HIDE DEF root
<1>3. seen \in SUBSET Held(b) /\ root \in seen
  BY <1>2, LeftmostNodes
<1>. HIDE DEF seen
<1>4. b.node[root].size \in LargeSizes
  BY <1>2, NodeFacts
<1>5. ~(b.node[root].size < nb)
  <2>1. b.node[root].size \in Nat /\ b.node[root].size >= MinLarge /\ MinLarge \in Nat /\ nb \in Nat
    BY <1>4, Sizes DEF LargeSizes
  <2>. QED
    BY <2>1
<1>6. Smallest(b, seen, nb) \in seen
  BY <1>2, <1>3, <1>5, SmallestOf
<1>. QED
  BY <1>1, <1>3, <1>6

-----------------------------------------------------------------------------
(* Changes of the pointers. *)

\* The chunks are those they were, with their sizes and rings.
SameChunks(b, c) ==
    /\ Held(c) = Held(b)
    /\ \A t \in Held(b) : /\ c.node[t].size = b.node[t].size /\ c.node[t].index = b.node[t].index
                          /\ c.node[t].fd = b.node[t].fd /\ c.node[t].bk = b.node[t].bk
    /\ c.aborted = b.aborted

\* What points to x points to r instead.
Redirected(b, c, dep, x, r) ==
    LET i == b.node[x].index
        p == b.node[x].parent
    IN /\ BinsOk(c) /\ SameChunks(b, c)
       /\ \A t \in Held(b) : c.node[t].parent = b.node[t].parent
       /\ \A j \in Bins : c.head[j] = IF dep[x] = 0 /\ j = i THEN r ELSE b.head[j]
       /\ c.treemap = IF dep[x] = 0 /\ r = NULL THEN b.treemap \ {i} ELSE b.treemap
       /\ \A t \in Held(b), d \in {0, 1} :
            c.node[t].child[d] = IF dep[x] # 0 /\ t = p /\ d = Turn(b, x, dep[p])
                                 THEN r ELSE b.node[t].child[d]

\* Redirect changes the one pointer to a chunk of a trie, and nothing else.
LEMMA RedirectIs ==
    ASSUME NEW b, NEW T, NEW dep, Good(b, T, dep), NEW x \in T, NEW r \in Chunks \cup {NULL}
    PROVE  Redirected(b, Redirect(b, x, r), dep, x, r)
<1>. DEFINE i == b.node[x].index
            p == b.node[x].parent
            c == Redirect(b, x, r)
            M == IF r = NULL THEN b.treemap \ {i} ELSE b.treemap
            k == IF b.node[p].child[0] = x THEN 0 ELSE 1
<1>1. BinsOk(b) /\ i \in Bins /\ x \in Held(b)
  BY InTrie DEF Good
<1>2. b = [head |-> b.head, treemap |-> b.treemap, node |-> b.node, aborted |-> b.aborted]
      /\ b.head \in [Bins -> Chunks \cup {NULL}]
      /\ Held(b) \subseteq Chunks /\ b.node \in [Held(b) -> NodeRecords]
      /\ \A t \in Held(b) : b.node[t].index = TreeIndex(b.node[t].size)
  BY <1>1 DEF BinsOk
<1>3. dep[x] = 0 <=> b.head[i] = x
  <2>1. dep[x] = 0 => b.head[i] = x
    BY RootOf
  <2>2. ASSUME b.head[i] = x PROVE dep[x] = 0
    <3>1. i \in b.treemap
      BY <1>1, <2>2, InTrie, Names DEF Good, Tries, RootsOk
    <3>. QED
      BY <2>2, <3>1, RootIn
  <2>. QED
    BY <2>1, <2>2
<1>4. CASE dep[x] = 0
  <2>1. c = [b EXCEPT !.head[i] = r, !.treemap = M]
    BY <1>3, <1>4 DEF Redirect
  <2>. DEFINE h == [b.head EXCEPT ![i] = r]
  <2>2. c = [head |-> h, treemap |-> M, node |-> b.node, aborted |-> b.aborted]
    <3>. HIDE DEF M, i
    <3>. QED
      BY <1>2, <2>1
  <2>3. h \in [Bins -> Chunks \cup {NULL}] /\ \A j \in Bins : h[j] = IF j = i THEN r ELSE b.head[j]
    BY <1>1, <1>2
  <2>. HIDE DEF h, M, c
  <2>4. c.head = h /\ c.treemap = M /\ c.node = b.node /\ c.aborted = b.aborted
    BY <2>2
  <2>5. BinsOk(c) /\ SameChunks(b, c)
    BY <1>2, <2>2, <2>3, <2>4 DEF BinsOk, SameChunks, Held
  <2>6. c.treemap = IF dep[x] = 0 /\ r = NULL THEN b.treemap \ {i} ELSE b.treemap
    BY <1>4, <2>4 DEF M
  <2>7. \A t \in Held(b) : c.node[t].parent = b.node[t].parent
    BY <2>4
  <2>8. \A j \in Bins : c.head[j] = IF dep[x] = 0 /\ j = i THEN r ELSE b.head[j]
    BY <1>4, <2>3, <2>4
  <2>9. \A t \in Held(b), d \in {0, 1} :
            c.node[t].child[d] = IF dep[x] # 0 /\ t = p /\ d = Turn(b, x, dep[p])
                                 THEN r ELSE b.node[t].child[d]
    BY <1>4, <2>4
  <2>. QED
    BY <2>5, <2>6, <2>7, <2>8, <2>9 DEF Redirected, c
<1>5. CASE dep[x] # 0
  <2>0. b.node[x].parent # BIN
    BY <1>5, RootOf
  <2>1. p \in T /\ p \in Held(b) /\ b.node[p].child[Turn(b, x, dep[p])] = x
        /\ Turn(b, x, dep[p]) \in {0, 1}
    BY <2>0, HangsFrom, InTrie
  <2>2. k = Turn(b, x, dep[p]) /\ k \in {0, 1}
    <3>1. CASE b.node[p].child[0] = x
      <4>1. x # NULL
        BY InTrie, Names
      <4>. DEFINE q == p
      <4>2. q \in T /\ b.node[q].child[0] # NULL
        BY <2>1, <3>1, <4>1
      <4>. HIDE DEF q
      <4>3. Turn(b, b.node[q].child[0], dep[q]) = 0
        BY <4>2, ChildIn
      <4>. QED
        BY <3>1, <4>3 DEF q
    <3>2. CASE b.node[p].child[0] # x
      <4>1. Turn(b, x, dep[p]) # 0
        BY <2>1, <3>2
      <4>. QED
        BY <2>1, <3>2, <4>1
    <3>. QED
      BY <3>1, <3>2
  <2>3. c = [b EXCEPT !.node[p].child[k] = r]
    BY <1>3, <1>5 DEF Redirect
  <2>. HIDE DEF k, p, i, c
  <2>. DEFINE N == [b.node EXCEPT ![p].child[k] = r]
  <2>4. c = [head |-> b.head, treemap |-> b.treemap, node |-> N, aborted |-> b.aborted]
    BY <1>2, <2>3
  <2>5. DOMAIN N = Held(b) /\ \A t \in Held(b) : t # p => N[t] = b.node[t]
    BY <1>2, <2>1
  <2>6. N[p] = [b.node[p] EXCEPT !.child[k] = r]
    BY <1>2, <2>1
  <2>7. b.node[p] \in NodeRecords
    BY <1>2, <2>1
  <2>. HIDE DEF N
  <2>8. /\ N[p] \in NodeRecords
        /\ N[p].size = b.node[p].size /\ N[p].index = b.node[p].index
        /\ N[p].fd = b.node[p].fd /\ N[p].bk = b.node[p].bk /\ N[p].parent = b.node[p].parent
        /\ N[p].child = [b.node[p].child EXCEPT ![k] = r]
    BY <2>2, <2>6, <2>7 DEF NodeRecords
  <2>9. \A d \in {0, 1} : N[p].child[d] = IF d = k THEN r ELSE b.node[p].child[d]
    <3>1. b.node[p].child \in [{0, 1} -> Chunks \cup {NULL}]
      BY <2>7 DEF NodeRecords
    <3>. QED
      BY <2>2, <2>8, <3>1
  <2>10. c.head = b.head /\ c.treemap = b.treemap /\ c.node = N /\ c.aborted = b.aborted
    BY <2>4
  <2>11. Held(c) = Held(b)
    BY <2>5, <2>10 DEF Held
  <2>12. N \in [Held(b) -> NodeRecords]
    <3>1. \A t \in Held(b) : N[t] \in NodeRecords
      BY <1>2, <2>5, <2>8
    <3>2. N = [t \in DOMAIN N |-> N[t]]
      BY <1>2, <2>1 DEF N
    <3>. QED
      BY <2>5, <3>1, <3>2
  <2>13. \A t \in Held(b) : /\ N[t].size = b.node[t].size /\ N[t].index = b.node[t].index
                            /\ N[t].fd = b.node[t].fd /\ N[t].bk = b.node[t].bk
                            /\ N[t].parent = b.node[t].parent
    BY <2>5, <2>8
  <2>14. SameChunks(b, c)
    BY <2>10, <2>11, <2>13 DEF SameChunks
  <2>15. BinsOk(c)
    <3>1. \A t \in Held(b) : N[t].index = TreeIndex(N[t].size)
      BY <1>2, <2>13
    <3>. QED
      BY <1>2, <2>4, <2>10, <2>11, <2>12, <3>1 DEF BinsOk
  <2>16. \A t \in Held(b), d \in {0, 1} :
            c.node[t].child[d] = IF dep[x] # 0 /\ t = p /\ d = Turn(b, x, dep[p])
                                 THEN r ELSE b.node[t].child[d]
    BY <1>5, <2>2, <2>5, <2>9, <2>10
  <2>17. c.treemap = IF dep[x] = 0 /\ r = NULL THEN b.treemap \ {i} ELSE b.treemap
    BY <1>5, <2>10
  <2>18. \A j \in Bins : c.head[j] = IF dep[x] = 0 /\ j = i THEN r ELSE b.head[j]
    BY <1>5, <2>10
  <2>19. \A t \in Held(b) : c.node[t].parent = b.node[t].parent
    BY <2>10, <2>13
  <2>. QED
    BY <2>14, <2>15, <2>16, <2>17, <2>18, <2>19 DEF Redirected, c, p, i
<1>. QED
  BY <1>4, <1>5

\* What is said of sizes is said of the same chunks.
LEMMA SameBits ==
    ASSUME NEW b, NEW c, SameChunks(b, c), NEW t \in Held(b)
    PROVE  \A d : Bits(c, t, d) = Bits(b, t, d) /\ Turn(c, t, d) = Turn(b, t, d)
BY DEF SameChunks, Bits, Turn

-----------------------------------------------------------------------------
(* A leaf is taken off its trie. *)

\* The tries without a leaf are tries.
LEMMA LeafGone ==
    ASSUME NEW b, NEW T, NEW dep, Good(b, T, dep), NEW r \in T, b.node[r].child = NoChild,
           NEW c, Redirected(b, c, dep, r, NULL)
    PROVE  Good(c, T \ {r}, dep)
<1>. DEFINE i == b.node[r].index
            p == b.node[r].parent
            U == T \ {r}
<1>1. BinsOk(c) /\ SameChunks(b, c) /\ Held(c) = Held(b) /\ T \subseteq Held(b)
      /\ \A t \in Held(b) : c.node[t].parent = b.node[t].parent
  BY DEF Redirected, SameChunks, Good, Tries
<1>2. /\ \A j \in Bins : c.head[j] = IF dep[r] = 0 /\ j = i THEN NULL ELSE b.head[j]
      /\ c.treemap = IF dep[r] = 0 THEN b.treemap \ {i} ELSE b.treemap
      /\ \A t \in Held(b), d \in {0, 1} :
            c.node[t].child[d] = IF dep[r] # 0 /\ t = p /\ d = Turn(b, r, dep[p])
                                 THEN NULL ELSE b.node[t].child[d]
  BY DEF Redirected
<1>3. \A t \in T : /\ c.node[t].size = b.node[t].size /\ c.node[t].index = b.node[t].index
                   /\ \A d : Bits(c, t, d) = Bits(b, t, d) /\ Turn(c, t, d) = Turn(b, t, d)
  <2>. TAKE t \in T
  <2>1. t \in Held(b)
    BY <1>1
  <2>. QED
    BY <1>1, <2>1, SameBits DEF SameChunks
<1>4. \A d \in {0, 1} : b.node[r].child[d] = NULL
  BY DEF NoChild
<1>5. ASSUME NEW t \in U PROVE Hangs(c, U, dep, t)
  <2>1. t \in T /\ t # r /\ dep[t] \in 0..Levels(c.node[t].index)
    BY <1>3, InTrie
  <2>2. CASE b.node[t].parent = BIN
    <3>1. dep[t] = 0 /\ b.head[b.node[t].index] = t /\ b.node[t].index \in Bins
      BY <2>1, <2>2, RootOf, InTrie
    <3>2. ~(dep[r] = 0 /\ b.node[t].index = i)
      <4>1. dep[r] = 0 => b.head[i] = r
        BY RootOf
      <4>. QED
        BY <2>1, <3>1, <4>1
    <3>3. c.head[b.node[t].index] = t
      BY <1>2, <3>1, <3>2
    <3>. QED
      BY <1>1, <1>3, <2>1, <2>2, <3>1, <3>3 DEF Hangs
  <2>3. CASE b.node[t].parent # BIN
    <3>. DEFINE q == b.node[t].parent
                k == Turn(b, t, dep[q])
    <3>1. /\ q \in T /\ b.node[q].index = b.node[t].index
          /\ dep[t] = dep[q] + 1
          /\ b.node[q].child[k] = t
          /\ Bits(b, t, dep[q]) = Bits(b, q, dep[q])
          /\ k \in {0, 1}
      BY <2>1, <2>3, HangsFrom
    <3>. HIDE DEF k
    <3>2. t # NULL /\ t \in Held(b)
      BY <2>1, InTrie, Names
    <3>3. q # r
      BY <1>4, <3>1, <3>2
    <3>4. c.node[q].child[k] = t
      <4>1. q \in Held(b)
        BY <1>1, <3>1
      <4>2. dep[r] # 0 /\ q = p => b.node[q].child[Turn(b, r, dep[p])] = r
        <5>1. dep[r] # 0 => b.node[r].parent # BIN
          BY RootOf
        <5>. QED
          BY <5>1, HangsFrom
      <4>3. ~(dep[r] # 0 /\ q = p /\ k = Turn(b, r, dep[p]))
        BY <2>1, <3>1, <4>2
      <4>. QED
        BY <1>2, <3>1, <4>1, <4>3
    <3>5. c.node[t].parent = q /\ Turn(c, t, dep[q]) = k
      BY <1>1, <1>3, <2>1, <3>2 DEF k
    <3>6. /\ c.node[q].index = c.node[t].index
          /\ Bits(c, t, dep[q]) = Bits(c, q, dep[q])
      BY <1>3, <2>1, <3>1
    <3>. HIDE DEF q
    <3>. QED
      BY <2>1, <3>1, <3>3, <3>4, <3>5, <3>6 DEF Hangs
  <2>. QED
    BY <2>2, <2>3
<1>6. ASSUME NEW t \in U PROVE Holds(c, U, dep, t)
  <2>1. t \in T /\ t \in Held(b)
    BY <1>1
  <2>2. ASSUME NEW d \in {0, 1}, c.node[t].child[d] # NULL
        PROVE  /\ c.node[t].child[d] \in U
               /\ c.node[c.node[t].child[d]].parent = t
               /\ Turn(c, c.node[t].child[d], dep[t]) = d
    <3>. DEFINE h == b.node[t].child[d]
    <3>1. c.node[t].child[d] = h /\ ~(dep[r] # 0 /\ t = p /\ d = Turn(b, r, dep[p])) /\ h # NULL
      BY <1>2, <2>1, <2>2
    <3>2. h \in T /\ b.node[h].parent = t /\ Turn(b, h, dep[t]) = d
      BY <2>1, <3>1, ChildIn
    <3>. HIDE DEF h
    <3>3. h # r
      <4>. SUFFICES ASSUME h = r PROVE FALSE
        OBVIOUS
      <4>1. p = t /\ Turn(b, r, dep[p]) = d
        BY <3>2
      <4>2. dep[r] # 0
        <5>1. b.node[r].parent # BIN
          BY <2>1, <3>2, InTrie, Names
        <5>. QED
          BY <5>1, RootOf
      <4>. QED
        BY <3>1, <4>1, <4>2
    <3>4. h \in Held(b)
      BY <1>1, <3>2
    <3>. QED
      BY <1>1, <1>3, <3>1, <3>2, <3>3, <3>4
  <2>. QED
    BY <2>2 DEF Holds
<1>7. RootsOk(c, U, dep)
  <2>1. c.treemap = {j \in Bins : c.head[j] # NULL}
    <3>1. b.treemap = {j \in Bins : b.head[j] # NULL}
      BY DEF Good, Tries, RootsOk
    <3>. QED
      BY <1>2, <3>1
  <2>2. ASSUME NEW j \in c.treemap
        PROVE  c.head[j] \in U /\ c.node[c.head[j]].index = j /\ c.node[c.head[j]].parent = BIN
    <3>1. j \in Bins /\ c.head[j] = b.head[j] /\ j \in b.treemap /\ ~(dep[r] = 0 /\ j = i)
      <4>1. j \in Bins /\ c.head[j] # NULL
        BY <2>1, <2>2
      <4>. QED
        BY <1>2, <2>2, <4>1
    <3>2. b.head[j] \in T /\ b.node[b.head[j]].index = j /\ b.node[b.head[j]].parent = BIN
          /\ dep[b.head[j]] = 0
      BY <3>1, RootIn
    <3>3. b.head[j] # r
      BY <3>1, <3>2
    <3>4. b.head[j] \in Held(b)
      BY <1>1, <3>2
    <3>. QED
      BY <1>1, <1>3, <3>1, <3>2, <3>3, <3>4
  <2>. QED
    BY <2>1, <2>2 DEF RootsOk
<1>8. SizesOnce(c, U)
  BY <1>3 DEF SizesOnce, Good, Tries
<1>9. PlacesOnce(c, U, dep)
  <2>1. PlacesOnce(b, T, dep)
    BY DEF Good, Tries
  <2>. QED
    BY <1>3, <2>1 DEF PlacesOnce, SamePlace
<1>10. Outside(c, U)
  <2>. SUFFICES ASSUME NEW t \in Held(c) \ U PROVE c.node[t].child = NoChild
    BY DEF Outside
  <2>1. t \in Held(b) /\ b.node[t].child = NoChild
    BY <1>1 DEF Good, Outside
  <2>2. \A d \in {0, 1} : c.node[t].child[d] = NULL
    BY <1>2, <2>1 DEF NoChild
  <2>3. c.node[t].child \in [{0, 1} -> Chunks \cup {NULL}]
    BY <1>1, <2>1, NodeFacts
  <2>. QED
    BY <2>2, <2>3 DEF NoChild
<1>11. U \subseteq Held(c)
  BY <1>1
<1>. HIDE DEF U
<1>12. Tries(c, U, dep)
  BY <1>5, <1>6, <1>7, <1>8, <1>9, <1>11 DEF Tries
<1>13. Good(c, U, dep)
  BY <1>1, <1>10, <1>12 DEF Good
<1>. QED
  BY <1>13 DEF U

-----------------------------------------------------------------------------
(* A chunk comes in another's place. *)

\* The children of x become those of r.
Adopted(b, c, x, r) ==
    /\ BinsOk(c) /\ SameChunks(b, c)
    /\ c.head = b.head /\ c.treemap = b.treemap
    /\ \A t \in Held(b) :
         c.node[t].parent = IF t = r THEN b.node[x].parent
                            ELSE IF \E d \in {0, 1} : b.node[x].child[d] = t THEN r
                            ELSE b.node[t].parent
    /\ \A t \in Held(b), d \in {0, 1} :
         c.node[t].child[d] = IF t = r THEN b.node[x].child[d] ELSE b.node[t].child[d]

\* Adopt gives the parent and the children of x to r, and changes nothing
\* else.
LEMMA AdoptIs ==
    ASSUME NEW b, BinsOk(b), NEW x \in Held(b), NEW r \in Held(b)
    PROVE  Adopted(b, Adopt(b, x, r), x, r)
<1>. DEFINE c == Adopt(b, x, r)
            K == Range(b.node[x].child)
            N == [t \in Held(b) |->
                    IF t = r THEN [b.node[r] EXCEPT !.parent = b.node[x].parent, !.child = b.node[x].child]
                    ELSE IF t \in K THEN [b.node[t] EXCEPT !.parent = r]
                    ELSE b.node[t]]
<1>1. b = [head |-> b.head, treemap |-> b.treemap, node |-> b.node, aborted |-> b.aborted]
      /\ b.head \in [Bins -> Chunks \cup {NULL}]
      /\ Held(b) \subseteq Chunks /\ b.node \in [Held(b) -> NodeRecords]
      /\ \A t \in Held(b) : b.node[t].index = TreeIndex(b.node[t].size)
  BY DEF BinsOk
<1>2. c = [b EXCEPT !.node = N]
  BY DEF Adopt, Held
<1>3. \A t : t \in K <=> \E d \in {0, 1} : b.node[x].child[d] = t
  <2>1. b.node[x].child \in [{0, 1} -> Chunks \cup {NULL}]
    BY NodeFacts
  <2>. QED
    BY <2>1 DEF Range
<1>4. DOMAIN N = Held(b)
  OBVIOUS
<1>5. N[r] = [b.node[r] EXCEPT !.parent = b.node[x].parent, !.child = b.node[x].child]
  OBVIOUS
<1>6. \A t \in Held(b) : t # r /\ t \in K => N[t] = [b.node[t] EXCEPT !.parent = r]
  OBVIOUS
<1>7. \A t \in Held(b) : t # r /\ t \notin K => N[t] = b.node[t]
  OBVIOUS
<1>8. N = [t \in Held(b) |-> N[t]]
  OBVIOUS
<1>. HIDE DEF N, K, c
<1>9. c = [head |-> b.head, treemap |-> b.treemap, node |-> N, aborted |-> b.aborted]
  BY <1>1, <1>2
<1>10. c.head = b.head /\ c.treemap = b.treemap /\ c.node = N /\ c.aborted = b.aborted
  BY <1>9
<1>11. r \in Chunks /\ b.node[x].parent \in Chunks \cup {NULL, BIN}
       /\ b.node[x].child \in [{0, 1} -> Chunks \cup {NULL}]
  BY <1>1, NodeFacts
<1>12. ASSUME NEW t \in Held(b)
       PROVE  /\ N[t] \in NodeRecords
              /\ N[t].size = b.node[t].size /\ N[t].index = b.node[t].index
              /\ N[t].fd = b.node[t].fd /\ N[t].bk = b.node[t].bk
              /\ N[t].parent = IF t = r THEN b.node[x].parent ELSE IF t \in K THEN r ELSE b.node[t].parent
              /\ N[t].child = IF t = r THEN b.node[x].child ELSE b.node[t].child
  <2>1. b.node[t] \in NodeRecords
    BY <1>1
  <2>2. CASE t = r
    BY <1>5, <1>11, <2>1, <2>2 DEF NodeRecords
  <2>3. CASE t # r /\ t \in K
    BY <1>6, <1>11, <2>1, <2>3 DEF NodeRecords
  <2>4. CASE t # r /\ t \notin K
    BY <1>7, <2>1, <2>4
  <2>. QED
    BY <2>2, <2>3, <2>4
<1>13. Held(c) = Held(b)
  BY <1>4, <1>10 DEF Held
<1>14. N \in [Held(b) -> NodeRecords]
  BY <1>8, <1>12
<1>15. SameChunks(b, c)
  BY <1>10, <1>12, <1>13 DEF SameChunks
<1>16. BinsOk(c)
  <2>1. \A t \in Held(b) : N[t].index = TreeIndex(N[t].size)
    BY <1>1, <1>12
  <2>. QED
    BY <1>1, <1>9, <1>10, <1>13, <1>14, <2>1 DEF BinsOk
<1>17. \A t \in Held(b) :
         c.node[t].parent = IF t = r THEN b.node[x].parent
                            ELSE IF \E d \in {0, 1} : b.node[x].child[d] = t THEN r
                            ELSE b.node[t].parent
  BY <1>3, <1>10, <1>12
<1>18. \A t \in Held(b), d \in {0, 1} :
         c.node[t].child[d] = IF t = r THEN b.node[x].child[d] ELSE b.node[t].child[d]
  BY <1>10, <1>12
<1>19. Adopted(b, c, x, r)
  BY <1>10, <1>15, <1>16, <1>17, <1>18 DEF Adopted
<1>. QED
  BY <1>19 DEF c

\* Chunk r, which is in no trie, fits in the place of x.
Fits(b, T, dep, x, r) ==
    /\ Good(b, T, dep) /\ x \in T /\ r \in Held(b) \ T
    /\ b.node[r].index = b.node[x].index
    /\ Bits(b, r, dep[x]) = Bits(b, x, dep[x])
    /\ \A t \in T \ {x} : b.node[t].size # b.node[r].size

\* What the pointers are when r is in the place of x.
Swapped(b, c, T, dep, x, r) ==
    LET i == b.node[x].index
        p == b.node[x].parent
    IN /\ BinsOk(c) /\ SameChunks(b, c)
       /\ \A j \in Bins : c.head[j] = IF dep[x] = 0 /\ j = i THEN r ELSE b.head[j]
       /\ c.treemap = b.treemap
       /\ \A t \in Held(b) :
            c.node[t].parent = IF t = r THEN p
                               ELSE IF t \in T /\ b.node[t].parent = x THEN r
                               ELSE b.node[t].parent
       /\ \A t \in Held(b), d \in {0, 1} :
            c.node[t].child[d] = IF t = r THEN b.node[x].child[d]
                                 ELSE IF dep[x] # 0 /\ t = p /\ d = Turn(b, x, dep[p]) THEN r
                                 ELSE b.node[t].child[d]

\* Redirect and then Adopt put r in the place of x.
LEMMA SwapIs ==
    ASSUME NEW b, NEW T, NEW dep, NEW x, NEW r, Fits(b, T, dep, x, r),
           NEW m, Redirected(b, m, dep, x, r), NEW c, Adopted(m, c, x, r)
    PROVE  Swapped(b, c, T, dep, x, r)
<1>. DEFINE i == b.node[x].index
            p == b.node[x].parent
            k == Turn(b, x, dep[p])
<1>1. Good(b, T, dep) /\ x \in T /\ r \in Held(b) /\ r \notin T /\ T \subseteq Held(b) /\ x \in Held(b)
      /\ Held(b) \subseteq Chunks
  BY DEF Fits, Good, Tries, BinsOk
<1>2. r # NULL
  BY <1>1, Names
<1>3. SameChunks(b, m) /\ Held(m) = Held(b)
      /\ \A t \in Held(b) : m.node[t].parent = b.node[t].parent
  BY DEF Redirected, SameChunks
<1>4. /\ \A j \in Bins : m.head[j] = IF dep[x] = 0 /\ j = i THEN r ELSE b.head[j]
      /\ m.treemap = b.treemap
      /\ \A t \in Held(b), d \in {0, 1} :
            m.node[t].child[d] = IF dep[x] # 0 /\ t = p /\ d = k THEN r ELSE b.node[t].child[d]
  BY <1>2 DEF Redirected
<1>5. BinsOk(c) /\ SameChunks(m, c) /\ c.head = m.head /\ c.treemap = m.treemap
  BY DEF Adopted
<1>6. \A t \in Held(b) :
         c.node[t].parent = IF t = r THEN m.node[x].parent
                            ELSE IF \E d \in {0, 1} : m.node[x].child[d] = t THEN r
                            ELSE m.node[t].parent
  BY <1>3 DEF Adopted
<1>7. \A t \in Held(b), d \in {0, 1} :
         c.node[t].child[d] = IF t = r THEN m.node[x].child[d] ELSE m.node[t].child[d]
  BY <1>3 DEF Adopted
<1>8. dep[x] # 0 => p # x
  <2>. SUFFICES ASSUME dep[x] # 0, p = x PROVE FALSE
    OBVIOUS
  <2>1. b.node[x].parent # BIN
    BY <1>1, RootOf
  <2>2. dep[x] = dep[p] + 1
    BY <1>1, <2>1, HangsFrom
  <2>3. dep[x] \in Nat
    BY <1>1, InTrie
  <2>. QED
    BY <2>2, <2>3
<1>9. \A d \in {0, 1} : m.node[x].child[d] = b.node[x].child[d]
  BY <1>1, <1>4, <1>8
<1>10. \A t \in Held(b) : (\E d \in {0, 1} : b.node[x].child[d] = t) <=> t \in T /\ b.node[t].parent = x
  <2>. TAKE t \in Held(b)
  <2>1. ASSUME NEW d \in {0, 1}, b.node[x].child[d] = t PROVE t \in T /\ b.node[t].parent = x
    <3>1. t # NULL
      BY <1>1, Names
    <3>. QED
      BY <1>1, <2>1, <3>1, ChildIn
  <2>2. ASSUME t \in T, b.node[t].parent = x PROVE \E d \in {0, 1} : b.node[x].child[d] = t
    <3>1. b.node[t].parent # BIN
      BY <1>1, <2>2, Names
    <3>. QED
      BY <1>1, <2>2, <3>1, HangsFrom
  <2>. QED
    BY <2>1, <2>2
<1>11. SameChunks(b, c)
  BY <1>3, <1>5 DEF SameChunks
<1>12. \A j \in Bins : c.head[j] = IF dep[x] = 0 /\ j = i THEN r ELSE b.head[j]
  BY <1>4, <1>5
<1>13. \A t \in Held(b) :
            c.node[t].parent = IF t = r THEN p
                               ELSE IF t \in T /\ b.node[t].parent = x THEN r
                               ELSE b.node[t].parent
  BY <1>1, <1>3, <1>6, <1>9, <1>10
<1>14. \A t \in Held(b), d \in {0, 1} :
            c.node[t].child[d] = IF t = r THEN b.node[x].child[d]
                                 ELSE IF dep[x] # 0 /\ t = p /\ d = k THEN r
                                 ELSE b.node[t].child[d]
  BY <1>4, <1>7, <1>9
<1>. QED
  BY <1>4, <1>5, <1>11, <1>12, <1>13, <1>14 DEF Swapped

\* The depths when r is in the place of x.
Moved(T, dep, x, r) == [t \in (T \ {x}) \cup {r} |-> IF t = r THEN dep[x] ELSE dep[t]]

\* Sizes with the same bits to a depth branch the same way above.
LEMMA SameTurn ==
    ASSUME NEW b, BinsOk(b), NEW t \in Held(b), NEW u \in Held(b), b.node[t].index = b.node[u].index,
           NEW d \in 1..Levels(b.node[t].index), Bits(b, t, d) = Bits(b, u, d),
           NEW e \in 0..(d - 1)
    PROVE  Turn(b, t, e) = Turn(b, u, e) /\ Bits(b, t, e) = Bits(b, u, e)
<1>. DEFINE s == b.node[t].size
            v == b.node[u].size
            i == b.node[t].index
            D == Levels(i)
<1>1. s \in LargeSizes /\ v \in LargeSizes /\ i \in Bins
  BY NodeFacts
<1>2. D \in 1..SizeBits /\ SizeBits \in Nat
  BY <1>1, LevelsOf, Widths
<1>3. Prefix(s, i, d) = Prefix(v, i, d) /\ d \in 1..D
  BY DEF Bits
<1>. SUFFICES Branch(s, i, e) = Branch(v, i, e) /\ Prefix(s, i, e) = Prefix(v, i, e)
  BY DEF Bits, Turn
<1>. HIDE DEF s, v, i
<1>4. d \in 0..D /\ e + 1 \in 0..d /\ e \in 0..d /\ e \in 0..(D - 1) /\ e \in 0..D /\ e + 1 \in 0..D
  BY <1>2, <1>3
<1>5. Prefix(s, i, e) = Prefix(v, i, e) /\ Prefix(s, i, e + 1) = Prefix(v, i, e + 1)
  BY <1>1, <1>3, <1>4, PrefixAbove
<1>6. /\ Prefix(s, i, e + 1) = 2 * Prefix(s, i, e) + Branch(s, i, e)
      /\ Branch(s, i, e) \in {0, 1}
  BY <1>1, <1>4, PrefixStep
<1>7. /\ Prefix(v, i, e + 1) = 2 * Prefix(v, i, e) + Branch(v, i, e)
      /\ Branch(v, i, e) \in {0, 1}
  BY <1>1, <1>4, PrefixStep
<1>8. Prefix(s, i, e) \in Nat
  BY <1>1, <1>4, PrefixType
<1>. QED
  BY <1>5, <1>6, <1>7, <1>8

\* The tries with r in the place of x are tries.
LEMMA SwapTries ==
    ASSUME NEW b, NEW T, NEW dep, NEW x, NEW r, Fits(b, T, dep, x, r),
           NEW c, Swapped(b, c, T, dep, x, r)
    PROVE  Tries(c, (T \ {x}) \cup {r}, Moved(T, dep, x, r))
<1>. DEFINE i == b.node[x].index
            p == b.node[x].parent
            k == Turn(b, x, dep[p])
            U == (T \ {x}) \cup {r}
            new == Moved(T, dep, x, r)
<1>1. Good(b, T, dep) /\ x \in T /\ r \in Held(b) /\ r \notin T /\ T \subseteq Held(b) /\ x \in Held(b)
      /\ Held(b) \subseteq Chunks /\ BinsOk(b)
  BY DEF Fits, Good, Tries, BinsOk
<1>2. b.node[r].index = i /\ Bits(b, r, dep[x]) = Bits(b, x, dep[x])
      /\ \A t \in T \ {x} : b.node[t].size # b.node[r].size
  BY DEF Fits
<1>3. r # NULL /\ r # x /\ r # BIN /\ x # NULL /\ x # BIN
  BY <1>1, Names
<1>4. BinsOk(c) /\ SameChunks(b, c) /\ Held(c) = Held(b)
  BY DEF Swapped, SameChunks
<1>5. /\ \A j \in Bins : c.head[j] = IF dep[x] = 0 /\ j = i THEN r ELSE b.head[j]
      /\ c.treemap = b.treemap
      /\ \A t \in Held(b) :
            c.node[t].parent = IF t = r THEN p
                               ELSE IF t \in T /\ b.node[t].parent = x THEN r
                               ELSE b.node[t].parent
      /\ \A t \in Held(b), d \in {0, 1} :
            c.node[t].child[d] = IF t = r THEN b.node[x].child[d]
                                 ELSE IF dep[x] # 0 /\ t = p /\ d = k THEN r
                                 ELSE b.node[t].child[d]
  BY DEF Swapped
<1>6. \A t \in Held(b) : /\ c.node[t].size = b.node[t].size /\ c.node[t].index = b.node[t].index
                         /\ \A d : Bits(c, t, d) = Bits(b, t, d) /\ Turn(c, t, d) = Turn(b, t, d)
  BY <1>4, SameBits DEF SameChunks
<1>7. new[r] = dep[x] /\ \A t \in T : t # x => new[t] = dep[t]
  BY <1>1 DEF Moved
<1>8. dep[x] \in Nat /\ dep[x] \in 0..Levels(i) /\ Levels(i) \in 1..SizeBits /\ i \in Bins
  BY <1>1, InTrie
<1>9. dep[x] = 0 <=> p = BIN
  BY <1>1, RootOf
<1>10. p # BIN => /\ p \in T /\ b.node[p].index = i /\ dep[x] = dep[p] + 1 /\ dep[p] \in Nat
                  /\ b.node[p].child[k] = x /\ k \in {0, 1}
                  /\ Bits(b, x, dep[p]) = Bits(b, p, dep[p])
                  /\ Turn(b, r, dep[p]) = k /\ Bits(b, r, dep[p]) = Bits(b, x, dep[p])
                  /\ p # x
  <2>. SUFFICES ASSUME p # BIN
                PROVE  /\ p \in T /\ b.node[p].index = i /\ dep[x] = dep[p] + 1 /\ dep[p] \in Nat
                       /\ b.node[p].child[k] = x /\ k \in {0, 1}
                       /\ Bits(b, x, dep[p]) = Bits(b, p, dep[p])
                       /\ Turn(b, r, dep[p]) = k /\ Bits(b, r, dep[p]) = Bits(b, x, dep[p])
                       /\ p # x
    OBVIOUS
  <2>1. /\ p \in T /\ b.node[p].index = i /\ dep[x] = dep[p] + 1
        /\ b.node[p].child[k] = x /\ k \in {0, 1}
        /\ Bits(b, x, dep[p]) = Bits(b, p, dep[p])
    BY <1>1, HangsFrom
  <2>. HIDE DEF p
  <2>2. dep[p] \in Nat
    BY <1>1, <2>1, InTrie
  <2>. DEFINE d == dep[x]
              e == dep[p]
  <2>3. d \in 1..Levels(i) /\ e \in 0..(d - 1)
    BY <1>8, <2>1, <2>2
  <2>4. Bits(b, r, d) = Bits(b, x, d) /\ d \in 1..Levels(b.node[r].index)
    BY <1>2, <2>3
  <2>. HIDE DEF d, e
  <2>5. Turn(b, r, e) = Turn(b, x, e) /\ Bits(b, r, e) = Bits(b, x, e)
    BY <1>1, <1>2, <2>3, <2>4, SameTurn
  <2>6. p # x
    <3>. SUFFICES ASSUME p = x PROVE FALSE
      OBVIOUS
    <3>. QED
      BY <2>1, <2>2
  <2>. QED
    BY <2>1, <2>2, <2>5, <2>6 DEF e
\* The children of x.
<1>11. \A d \in {0, 1} : b.node[x].child[d] # NULL =>
          LET h == b.node[x].child[d] IN
            /\ h \in T /\ h # x /\ h # p /\ b.node[h].parent = x
            /\ Turn(b, h, dep[x]) = d /\ dep[h] = dep[x] + 1
  <2>. SUFFICES ASSUME NEW d \in {0, 1}, NEW h, h = b.node[x].child[d], h # NULL
                PROVE  /\ h \in T /\ h # x /\ h # p /\ b.node[h].parent = x
                       /\ Turn(b, h, dep[x]) = d /\ dep[h] = dep[x] + 1
    OBVIOUS
  <2>1. h \in T /\ b.node[h].parent = x /\ Turn(b, h, dep[x]) = d /\ dep[h] = dep[x] + 1
    BY <1>1, ChildIn
  <2>2. h # x
    BY <1>8, <2>1
  <2>3. h # p
    <3>. SUFFICES ASSUME h = p PROVE FALSE
      OBVIOUS
    <3>1. p # BIN
      BY <1>1, <2>1, Names
    <3>. QED
      BY <1>8, <1>10, <2>1, <3>1
  <2>. QED
    BY <2>1, <2>2, <2>3
<1>12. ASSUME NEW t \in U PROVE Hangs(c, U, new, t)
  <2>1. CASE t = r
    <3>1. c.node[r].parent = p /\ c.node[r].index = i /\ new[r] \in 0..Levels(i)
      BY <1>1, <1>2, <1>5, <1>6, <1>7, <1>8
    <3>2. CASE p = BIN
      <4>1. dep[x] = 0 /\ c.head[i] = r
        BY <1>5, <1>8, <1>9, <3>2
      <4>. QED
        BY <1>7, <2>1, <3>1, <3>2, <4>1 DEF Hangs
    <3>3. CASE p # BIN
      <4>1. /\ p \in T /\ b.node[p].index = i /\ dep[x] = dep[p] + 1
            /\ k \in {0, 1} /\ p # x /\ p \in Held(b) /\ p # r
            /\ Bits(b, r, dep[p]) = Bits(b, p, dep[p]) /\ Turn(b, r, dep[p]) = k
        BY <1>1, <1>10, <3>3
      <4>2. p \in U /\ new[p] = dep[p]
        BY <1>7, <4>1
      <4>3. c.node[p].child[k] = r
        BY <1>5, <1>9, <3>3, <4>1
      <4>4. c.node[p].index = c.node[r].index /\ Turn(c, r, dep[p]) = k
            /\ Bits(c, r, dep[p]) = Bits(c, p, dep[p])
        BY <1>1, <1>6, <3>1, <4>1
      <4>5. new[r] = new[p] + 1
        BY <1>7, <4>1, <4>2
      <4>. HIDE DEF p, k, U, new
      <4>. QED
        BY <2>1, <3>1, <4>2, <4>3, <4>4, <4>5 DEF Hangs
    <3>. QED
      BY <3>2, <3>3
  <2>2. CASE t # r
    <3>1. t \in T /\ t # x /\ t \in Held(b) /\ new[t] = dep[t]
      BY <1>1, <1>7, <2>2
    <3>2. dep[t] \in 0..Levels(c.node[t].index) /\ dep[t] \in Nat
      BY <1>1, <1>6, <3>1, InTrie
    <3>3. CASE b.node[t].parent = BIN
      <4>1. dep[t] = 0 /\ b.head[b.node[t].index] = t /\ b.node[t].index \in Bins
        BY <1>1, <3>1, <3>3, RootOf, InTrie
      <4>2. ~(dep[x] = 0 /\ b.node[t].index = i)
        <5>1. dep[x] = 0 => b.head[i] = x
          BY <1>1, RootOf
        <5>. QED
          BY <3>1, <4>1, <5>1
      <4>3. c.head[b.node[t].index] = t
        BY <1>5, <4>1, <4>2
      <4>4. c.node[t].parent = BIN
        BY <1>3, <1>5, <2>2, <3>1, <3>3
      <4>. HIDE DEF new
      <4>. QED
        BY <1>6, <3>1, <3>2, <4>1, <4>3, <4>4 DEF Hangs
    <3>4. CASE b.node[t].parent = x
      <4>. DEFINE j == Turn(b, t, dep[x])
      <4>0. b.node[t].parent # BIN
        BY <1>3, <3>4
      <4>1. /\ b.node[x].index = b.node[t].index
            /\ dep[t] = dep[x] + 1
            /\ b.node[x].child[j] = t
            /\ Bits(b, t, dep[x]) = Bits(b, x, dep[x])
            /\ j \in {0, 1}
        BY <1>1, <3>1, <3>4, <4>0, HangsFrom
      <4>2. c.node[t].parent = r
        BY <1>5, <2>2, <3>1, <3>4
      <4>. HIDE DEF j
      <4>3. c.node[r].child[j] = t
        BY <1>1, <1>5, <4>1
      <4>4. c.node[r].index = c.node[t].index /\ Turn(c, t, dep[x]) = j
            /\ Bits(c, t, dep[x]) = Bits(c, r, dep[x])
        BY <1>1, <1>2, <1>6, <3>1, <4>1 DEF j
      <4>5. r \in U /\ new[t] = new[r] + 1 /\ new[r] = dep[x]
        BY <1>7, <3>1, <4>1
      <4>. HIDE DEF U, new
      <4>. QED
        BY <3>1, <3>2, <4>2, <4>3, <4>4, <4>5 DEF Hangs
    <3>5. CASE b.node[t].parent # BIN /\ b.node[t].parent # x
      <4>. DEFINE q == b.node[t].parent
                  j == Turn(b, t, dep[q])
      <4>1. /\ q \in T /\ b.node[q].index = b.node[t].index
            /\ dep[t] = dep[q] + 1
            /\ b.node[q].child[j] = t
            /\ Bits(b, t, dep[q]) = Bits(b, q, dep[q])
            /\ j \in {0, 1}
        BY <1>1, <3>1, <3>5, HangsFrom
      <4>2. c.node[t].parent = q
        BY <1>5, <2>2, <3>1, <3>5
      <4>3. q # x /\ q # r /\ q \in Held(b) /\ q \in U /\ new[q] = dep[q]
        BY <1>1, <1>7, <3>5, <4>1
      <4>4. ~(dep[x] # 0 /\ q = p /\ j = k)
        BY <1>9, <1>10, <3>1, <4>1
      <4>. HIDE DEF j, q
      <4>5. c.node[q].child[j] = t
        BY <1>5, <4>1, <4>3, <4>4
      <4>6. c.node[q].index = c.node[t].index /\ Turn(c, t, dep[q]) = j
            /\ Bits(c, t, dep[q]) = Bits(c, q, dep[q])
        BY <1>6, <3>1, <4>1, <4>3 DEF j
      <4>7. new[t] = new[q] + 1
        BY <3>1, <4>1, <4>3
      <4>. HIDE DEF U, new
      <4>. QED
        BY <3>1, <3>2, <4>2, <4>3, <4>5, <4>6, <4>7 DEF Hangs
    <3>. QED
      BY <3>3, <3>4, <3>5
  <2>. QED
    BY <2>1, <2>2
<1>13. ASSUME NEW t \in U PROVE Holds(c, U, new, t)
  <2>. SUFFICES ASSUME NEW d \in {0, 1}, NEW h, h = c.node[t].child[d], h # NULL
                PROVE  h \in U /\ c.node[h].parent = t /\ Turn(c, h, new[t]) = d
    BY DEF Holds
  <2>0. t \in Held(b)
    BY <1>1
  <2>1. CASE t = r
    <3>1. h = b.node[x].child[d]
      BY <1>5, <2>0, <2>1
    <3>2. h \in T /\ h # x /\ b.node[h].parent = x /\ Turn(b, h, dep[x]) = d
      BY <1>11, <3>1
    <3>3. h \in Held(b) /\ h # r
      BY <1>1, <3>2
    <3>4. c.node[h].parent = r
      BY <1>5, <3>2, <3>3
    <3>5. Turn(c, h, new[r]) = d
      BY <1>6, <1>7, <3>2, <3>3
    <3>. QED
      BY <2>1, <3>2, <3>4, <3>5
  <2>2. CASE t # r /\ dep[x] # 0 /\ t = p /\ d = k
    <3>1. h = r
      BY <1>5, <2>0, <2>2
    <3>2. c.node[r].parent = t
      BY <1>1, <1>5, <2>2
    <3>3. new[t] = dep[t]
      BY <1>7, <1>9, <1>10, <2>2
    <3>4. Turn(c, r, dep[t]) = d
      BY <1>1, <1>6, <1>9, <1>10, <2>2
    <3>. QED
      BY <3>1, <3>2, <3>3, <3>4
  <2>3. CASE t # r /\ ~(dep[x] # 0 /\ t = p /\ d = k)
    <3>1. h = b.node[t].child[d] /\ t \in T /\ t # x
      BY <1>5, <2>0, <2>3
    <3>2. h \in T /\ b.node[h].parent = t /\ Turn(b, h, dep[t]) = d
      BY <1>1, <3>1, ChildIn
    <3>3. h # x
      <4>. SUFFICES ASSUME h = x PROVE FALSE
        OBVIOUS
      <4>1. p = t /\ Turn(b, x, dep[t]) = d
        BY <3>2
      <4>2. t # BIN
        BY <1>1, <3>1, Names
      <4>. QED
        BY <1>9, <2>3, <4>1, <4>2
    <3>4. h \in Held(b) /\ h # r /\ h \in U
      BY <1>1, <3>2, <3>3
    <3>5. c.node[h].parent = t
      BY <1>5, <3>1, <3>2, <3>4
    <3>6. Turn(c, h, new[t]) = d
      BY <1>6, <1>7, <3>1, <3>2, <3>4
    <3>. QED
      BY <3>4, <3>5, <3>6
  <2>. QED
    BY <2>1, <2>2, <2>3
<1>14. RootsOk(c, U, new)
  <2>1. b.treemap = {j \in Bins : b.head[j] # NULL}
    BY <1>1 DEF Good, Tries, RootsOk
  <2>2. dep[x] = 0 => i \in b.treemap
    BY <1>1, RootOf
  <2>3. c.treemap = {j \in Bins : c.head[j] # NULL}
    BY <1>3, <1>5, <2>1, <2>2
  <2>4. ASSUME NEW j \in c.treemap
        PROVE  c.head[j] \in U /\ c.node[c.head[j]].index = j /\ c.node[c.head[j]].parent = BIN
    <3>1. j \in Bins /\ j \in b.treemap
      BY <1>5, <2>1, <2>4
    <3>2. CASE dep[x] = 0 /\ j = i
      <4>1. c.head[j] = r /\ c.node[r].index = i /\ c.node[r].parent = BIN
        BY <1>1, <1>2, <1>5, <1>6, <1>9, <3>1, <3>2
      <4>. QED
        BY <3>2, <4>1
    <3>3. CASE ~(dep[x] = 0 /\ j = i)
      <4>. DEFINE h == b.head[j]
      <4>1. h \in T /\ b.node[h].index = j /\ b.node[h].parent = BIN /\ dep[h] = 0
        BY <1>1, <3>1, RootIn
      <4>2. c.head[j] = h
        BY <1>5, <3>1, <3>3
      <4>. HIDE DEF h
      <4>3. h # x /\ h # r /\ h \in Held(b)
        BY <1>1, <3>3, <4>1
      <4>4. c.node[h].parent = BIN /\ c.node[h].index = j
        BY <1>3, <1>5, <1>6, <4>1, <4>3
      <4>. QED
        BY <4>1, <4>2, <4>3, <4>4
    <3>. QED
      BY <3>2, <3>3
  <2>. QED
    BY <2>3, <2>4 DEF RootsOk
<1>15. SizesOnce(c, U)
  <2>1. SizesOnce(b, T)
    BY <1>1 DEF Good, Tries
  <2>2. \A t \in U : c.node[t].size = b.node[t].size
    BY <1>1, <1>6
  <2>. SUFFICES ASSUME NEW t \in U, NEW u \in U, b.node[t].size = b.node[u].size PROVE t = u
    BY <2>2 DEF SizesOnce
  <2>. QED
    BY <1>2, <2>1 DEF SizesOnce
<1>16. PlacesOnce(c, U, new)
  <2>1. PlacesOnce(b, T, dep)
    BY <1>1 DEF Good, Tries
  <2>. DEFINE old(t) == IF t = r THEN x ELSE t
  <2>2. \A t \in U : /\ old(t) \in T /\ new[t] = dep[old(t)]
                     /\ c.node[t].index = b.node[old(t)].index
                     /\ Bits(c, t, new[t]) = Bits(b, old(t), dep[old(t)])
    <3>. TAKE t \in U
    <3>1. CASE t = r
      BY <1>1, <1>2, <1>6, <1>7, <3>1
    <3>2. CASE t # r
      BY <1>1, <1>6, <1>7, <3>2
    <3>. QED
      BY <3>1, <3>2
  <2>3. \A t, u \in U : old(t) = old(u) => t = u
    OBVIOUS
  <2>. HIDE DEF old, U, new
  <2>4. ASSUME NEW t \in U, NEW u \in U, SamePlace(c, new, t, u) PROVE t = u
    <3>1. c.node[t].index = c.node[u].index /\ new[t] = new[u] /\ Bits(c, t, new[t]) = Bits(c, u, new[t])
      BY <2>4 DEF SamePlace
    <3>2. SamePlace(b, dep, old(t), old(u))
      BY <2>2, <3>1 DEF SamePlace
    <3>3. old(t) = old(u)
      BY <2>1, <2>2, <3>2 DEF PlacesOnce
    <3>. QED
      BY <2>3, <3>3
  <2>. QED
    BY <2>4 DEF PlacesOnce
<1>17. U \subseteq Held(c)
  BY <1>1, <1>4
<1>. HIDE DEF U, new
<1>18. Tries(c, U, new)
  BY <1>12, <1>13, <1>14, <1>15, <1>16, <1>17 DEF Tries
<1>. QED
  BY <1>18 DEF U, new

-----------------------------------------------------------------------------
(* Changes that leave the tries alone. *)

\* The tries with the chunks T are in c what they are in b.
SameTries(b, c, T) ==
    /\ T \subseteq Held(c)
    /\ c.head = b.head /\ c.treemap = b.treemap
    /\ \A t \in T : /\ c.node[t].size = b.node[t].size /\ c.node[t].index = b.node[t].index
                    /\ c.node[t].parent = b.node[t].parent /\ c.node[t].child = b.node[t].child

\* Tries stay tries if their chunks and the bins are the same.
LEMMA TriesKept ==
    ASSUME NEW b, NEW c, NEW T, NEW dep, Tries(b, T, dep), SameTries(b, c, T)
    PROVE  Tries(c, T, dep)
<1>1. /\ T \subseteq Held(c) /\ c.head = b.head /\ c.treemap = b.treemap
      /\ \A t \in T : /\ c.node[t].size = b.node[t].size /\ c.node[t].index = b.node[t].index
                      /\ c.node[t].parent = b.node[t].parent /\ c.node[t].child = b.node[t].child
  BY DEF SameTries
<1>2. \A t \in T : Hangs(b, T, dep, t) /\ Holds(b, T, dep, t)
  BY DEF Tries
<1>3. \A t \in T : \A d : Bits(c, t, d) = Bits(b, t, d) /\ Turn(c, t, d) = Turn(b, t, d)
  BY <1>1 DEF Bits, Turn
<1>4. ASSUME NEW t \in T PROVE Hangs(c, T, dep, t)
  <2>1. Hangs(b, T, dep, t)
    BY <1>2
  <2>2. CASE b.node[t].parent = BIN /\ dep[t] = 0 /\ b.head[b.node[t].index] = t
    BY <1>1, <2>1, <2>2 DEF Hangs
  <2>3. CASE ~(b.node[t].parent = BIN /\ dep[t] = 0 /\ b.head[b.node[t].index] = t)
    <3>. DEFINE q == b.node[t].parent
    <3>1. /\ dep[t] \in 0..Levels(b.node[t].index)
          /\ q \in T /\ b.node[q].index = b.node[t].index
          /\ dep[t] = dep[q] + 1
          /\ b.node[q].child[Turn(b, t, dep[q])] = t
          /\ Bits(b, t, dep[q]) = Bits(b, q, dep[q])
      BY <2>1, <2>3 DEF Hangs
    <3>2. c.node[t].parent = q
      BY <1>1
    <3>. HIDE DEF q
    <3>3. /\ dep[t] \in 0..Levels(c.node[t].index)
          /\ c.node[q].index = c.node[t].index
          /\ c.node[q].child[Turn(c, t, dep[q])] = t
          /\ Bits(c, t, dep[q]) = Bits(c, q, dep[q])
      BY <1>1, <1>3, <3>1
    <3>. QED
      BY <3>1, <3>2, <3>3 DEF Hangs
  <2>. QED
    BY <2>2, <2>3
<1>5. ASSUME NEW t \in T PROVE Holds(c, T, dep, t)
  <2>1. Holds(b, T, dep, t) /\ c.node[t].child = b.node[t].child
    BY <1>1, <1>2
  <2>2. ASSUME NEW d \in {0, 1}, NEW h, h = c.node[t].child[d], h # NULL
        PROVE  h \in T /\ c.node[h].parent = t /\ Turn(c, h, dep[t]) = d
    <3>1. h \in T /\ b.node[h].parent = t /\ Turn(b, h, dep[t]) = d
      BY <2>1, <2>2 DEF Holds
    <3>. QED
      BY <1>1, <1>3, <3>1
  <2>. QED
    BY <2>2 DEF Holds
<1>6. RootsOk(c, T, dep)
  <2>1. RootsOk(b, T, dep)
    BY DEF Tries
  <2>. QED
    BY <1>1, <2>1 DEF RootsOk
<1>7. SizesOnce(c, T)
  BY <1>1 DEF Tries, SizesOnce
<1>8. PlacesOnce(c, T, dep)
  <2>1. PlacesOnce(b, T, dep)
    BY DEF Tries
  <2>. QED
    BY <1>1, <1>3, <2>1 DEF PlacesOnce, SamePlace
<1>. QED
  BY <1>1, <1>4, <1>5, <1>6, <1>7, <1>8 DEF Tries

\* Chunk x is out of the bins.
Drop(b, x) == [b EXCEPT !.node = Restrict(@, DOMAIN @ \ {x})]

\* What is left of the pointers then.
Dropped(b, c, x) ==
    /\ BinsOk(c) /\ Held(c) = Held(b) \ {x}
    /\ c.head = b.head /\ c.treemap = b.treemap /\ c.aborted = b.aborted
    /\ \A t \in Held(c) : c.node[t] = b.node[t]

\* Drop takes x out of the bins, and changes nothing else.
LEMMA DropIs ==
    ASSUME NEW b, BinsOk(b), NEW x
    PROVE  Dropped(b, Drop(b, x), x)
<1>. DEFINE D == Held(b) \ {x}
            N == [t \in D |-> b.node[t]]
            c == Drop(b, x)
<1>1. b = [head |-> b.head, treemap |-> b.treemap, node |-> b.node, aborted |-> b.aborted]
      /\ b.head \in [Bins -> Chunks \cup {NULL}]
      /\ Held(b) \subseteq Chunks /\ b.node \in [Held(b) -> NodeRecords]
      /\ \A t \in Held(b) : b.node[t].index = TreeIndex(b.node[t].size)
  BY DEF BinsOk
<1>2. c = [b EXCEPT !.node = N]
  BY DEF Drop, Restrict, Held, D
<1>0. D \subseteq Held(b)
  OBVIOUS
<1>. HIDE DEF D
<1>3. DOMAIN N = D /\ N \in [D -> NodeRecords] /\ \A t \in D : N[t] = b.node[t]
  BY <1>0, <1>1
<1>. HIDE DEF N, c
<1>4. c = [head |-> b.head, treemap |-> b.treemap, node |-> N, aborted |-> b.aborted]
  BY <1>1, <1>2
<1>5. c.head = b.head /\ c.treemap = b.treemap /\ c.node = N /\ c.aborted = b.aborted
  BY <1>4
<1>6. Held(c) = D
  BY <1>3, <1>5 DEF Held
<1>7. BinsOk(c)
  <2>1. \A t \in Held(c) : c.node[t].index = TreeIndex(c.node[t].size)
    BY <1>0, <1>1, <1>3, <1>5, <1>6
  <2>2. c.node \in [Held(c) -> NodeRecords]
    BY <1>3, <1>5, <1>6
  <2>3. c = [head |-> c.head, treemap |-> c.treemap, node |-> c.node, aborted |-> c.aborted]
    BY <1>4, <1>5
  <2>4. c.head \in [Bins -> Chunks \cup {NULL}] /\ Held(c) \subseteq Chunks
    BY <1>0, <1>1, <1>5, <1>6
  <2>. QED
    BY ONLY <2>1, <2>2, <2>3, <2>4 DEF BinsOk
<1>8. Dropped(b, c, x)
  BY <1>3, <1>5, <1>6, <1>7 DEF Dropped, D
<1>. QED
  BY <1>8 DEF c

-----------------------------------------------------------------------------
(* A chunk leaves its ring. *)

\* The rings without chunk x.
RingsBut(b, x) ==
    \A t \in Held(b) \ {x} :
      /\ b.node[t].fd \in Held(b) \ {x} /\ b.node[t].bk \in Held(b) \ {x}
      /\ b.node[b.node[t].fd].bk = t /\ b.node[b.node[t].bk].fd = t
      /\ b.node[b.node[t].fd].size = b.node[t].size

\* The neighbours of x point to each other.
Unring(b, x) ==
    LET r == b.node[x].bk
        fd == b.node[x].fd
    IN [b EXCEPT !.node[fd].bk = r, !.node[r].fd = fd,
                 !.aborted = @ \/ b.node[fd].bk # x \/ b.node[r].fd # x]

\* Only neighbours in rings have changed.
SameButRings(b, c) ==
    /\ BinsOk(c) /\ Held(c) = Held(b)
    /\ c.head = b.head /\ c.treemap = b.treemap
    /\ \A t \in Held(b) : /\ c.node[t].size = b.node[t].size /\ c.node[t].index = b.node[t].index
                          /\ c.node[t].parent = b.node[t].parent /\ c.node[t].child = b.node[t].child

\* The neighbours of x find each other: the rings are whole without x, and no
\* check of unlink_large_chunk fails.
LEMMA UnringIs ==
    ASSUME NEW b, BinsOk(b), Rings(b), b.aborted = FALSE, NEW x \in Held(b), b.node[x].bk # x
    PROVE  /\ SameButRings(b, Unring(b, x))
           /\ Unring(b, x).aborted = FALSE
           /\ RingsBut(Unring(b, x), x)
           /\ \A t \in Held(b) : Unring(b, x).node[t].bk =
                IF t = b.node[x].fd THEN b.node[x].bk ELSE b.node[t].bk
<1>. DEFINE r == b.node[x].bk
            fd == b.node[x].fd
            ab == b.aborted \/ b.node[fd].bk # x \/ b.node[r].fd # x
            M == [b.node EXCEPT ![fd].bk = r]
            N == [M EXCEPT ![r].fd = fd]
            c == Unring(b, x)
<1>1. b = [head |-> b.head, treemap |-> b.treemap, node |-> b.node, aborted |-> b.aborted]
      /\ b.head \in [Bins -> Chunks \cup {NULL}]
      /\ Held(b) \subseteq Chunks /\ b.node \in [Held(b) -> NodeRecords]
      /\ \A t \in Held(b) : b.node[t].index = TreeIndex(b.node[t].size)
  BY DEF BinsOk
<1>2. \A t \in Held(b) :
        /\ b.node[t].fd \in Held(b) /\ b.node[t].bk \in Held(b)
        /\ b.node[b.node[t].fd].bk = t /\ b.node[b.node[t].bk].fd = t
        /\ b.node[b.node[t].fd].size = b.node[t].size
  BY DEF Rings
<1>3. r \in Held(b) /\ fd \in Held(b) /\ b.node[fd].bk = x /\ b.node[r].fd = x /\ r # x /\ fd # x
      /\ b.node[r].size = b.node[x].size /\ b.node[fd].size = b.node[x].size
  <2>1. r \in Held(b) /\ fd \in Held(b) /\ b.node[fd].bk = x /\ b.node[r].fd = x /\ r # x
        /\ b.node[fd].size = b.node[x].size
    BY <1>2
  <2>2. fd # x
    BY <2>1
  <2>3. b.node[r].size = b.node[x].size
    BY <1>2, <2>1
  <2>. QED
    BY <2>1, <2>2, <2>3
<1>4. ab = FALSE
  BY <1>3
<1>5. c = [b EXCEPT !.node[fd].bk = r, !.node[r].fd = fd, !.aborted = ab]
  BY DEF Unring
<1>. HIDE DEF ab, c
<1>6. c = [head |-> b.head, treemap |-> b.treemap, node |-> N, aborted |-> ab]
  <2>. HIDE DEF r, fd
  <2>. QED
    BY <1>1, <1>5
<1>7. /\ DOMAIN M = Held(b) /\ M[fd] = [b.node[fd] EXCEPT !.bk = r]
      /\ \A t \in Held(b) : t # fd => M[t] = b.node[t]
  BY <1>1, <1>3
<1>8. /\ DOMAIN N = Held(b) /\ N[r] = [M[r] EXCEPT !.fd = fd]
      /\ \A t \in Held(b) : t # r => N[t] = M[t]
  <2>. HIDE DEF r, fd, M
  <2>. QED
    BY <1>3, <1>7
<1>9. N = [t \in DOMAIN N |-> N[t]]
  OBVIOUS
<1>. HIDE DEF r, fd, M, N
<1>10. ASSUME NEW t \in Held(b)
       PROVE  /\ M[t] \in NodeRecords
              /\ M[t].size = b.node[t].size /\ M[t].index = b.node[t].index
              /\ M[t].parent = b.node[t].parent /\ M[t].child = b.node[t].child
              /\ M[t].fd = b.node[t].fd
              /\ M[t].bk = IF t = fd THEN r ELSE b.node[t].bk
  <2>1. b.node[t] \in NodeRecords /\ r \in Chunks
    BY <1>1, <1>3
  <2>2. CASE t = fd
    BY <1>7, <2>1, <2>2 DEF NodeRecords
  <2>3. CASE t # fd
    BY <1>7, <2>1, <2>3
  <2>. QED
    BY <2>2, <2>3
<1>11. ASSUME NEW t \in Held(b)
       PROVE  /\ N[t] \in NodeRecords
              /\ N[t].size = b.node[t].size /\ N[t].index = b.node[t].index
              /\ N[t].parent = b.node[t].parent /\ N[t].child = b.node[t].child
              /\ N[t].fd = IF t = r THEN fd ELSE b.node[t].fd
              /\ N[t].bk = IF t = fd THEN r ELSE b.node[t].bk
  <2>1. M[t] \in NodeRecords /\ fd \in Chunks
    BY <1>1, <1>3, <1>10
  <2>2. CASE t = r
    <3>1. /\ N[t] \in NodeRecords
          /\ N[t].size = M[t].size /\ N[t].index = M[t].index
          /\ N[t].parent = M[t].parent /\ N[t].child = M[t].child
          /\ N[t].fd = fd /\ N[t].bk = M[t].bk
      BY <1>8, <2>1, <2>2 DEF NodeRecords
    <3>. QED
      BY <1>10, <2>2, <3>1
  <2>3. CASE t # r
    BY <1>8, <1>10, <2>3
  <2>. QED
    BY <2>2, <2>3
<1>12. c.head = b.head /\ c.treemap = b.treemap /\ c.node = N /\ c.aborted = FALSE
  BY <1>4, <1>6
<1>13. Held(c) = Held(b)
  BY <1>8, <1>12 DEF Held
<1>14. BinsOk(c)
  <2>1. N \in [Held(b) -> NodeRecords]
    BY <1>8, <1>9, <1>11
  <2>2. c.node \in [Held(c) -> NodeRecords]
    BY <1>12, <1>13, <2>1
  <2>3. \A t \in Held(c) : c.node[t].index = TreeIndex(c.node[t].size)
    BY <1>1, <1>11, <1>12, <1>13
  <2>4. c = [head |-> c.head, treemap |-> c.treemap, node |-> c.node, aborted |-> c.aborted]
    BY <1>6
  <2>5. c.head \in [Bins -> Chunks \cup {NULL}] /\ Held(c) \subseteq Chunks
    BY <1>1, <1>12, <1>13
  <2>. QED
    BY ONLY <2>2, <2>3, <2>4, <2>5 DEF BinsOk
<1>15. SameButRings(b, c)
  BY <1>11, <1>12, <1>13, <1>14 DEF SameButRings
<1>16. RingsBut(c, x)
  <2>. SUFFICES ASSUME NEW t \in Held(b), t # x
                PROVE  /\ N[t].fd \in Held(b) \ {x} /\ N[t].bk \in Held(b) \ {x}
                       /\ N[N[t].fd].bk = t /\ N[N[t].bk].fd = t
                       /\ N[N[t].fd].size = N[t].size
    BY <1>12, <1>13 DEF RingsBut
  <2>1. b.node[t].fd = x => t = r
    BY <1>2 DEF r
  <2>2. b.node[t].bk = x => t = fd
    BY <1>2 DEF fd
  <2>3. N[t].fd \in Held(b) /\ N[t].fd # x /\ N[t].bk \in Held(b) /\ N[t].bk # x
    BY <1>2, <1>3, <1>11, <2>1, <2>2
  <2>4. N[N[t].fd].bk = t
    <3>1. CASE t = r
      BY <1>3, <1>11, <3>1
    <3>2. CASE t # r
      <4>1. N[t].fd = b.node[t].fd /\ b.node[b.node[t].fd].bk = t /\ b.node[t].fd \in Held(b)
        BY <1>2, <1>11, <3>2
      <4>2. b.node[t].fd # fd
        BY <1>3, <4>1
      <4>. QED
        BY <1>11, <4>1, <4>2
    <3>. QED
      BY <3>1, <3>2
  <2>5. N[N[t].bk].fd = t
    <3>1. CASE t = fd
      BY <1>3, <1>11, <3>1
    <3>2. CASE t # fd
      <4>1. N[t].bk = b.node[t].bk /\ b.node[b.node[t].bk].fd = t /\ b.node[t].bk \in Held(b)
        BY <1>2, <1>11, <3>2
      <4>2. b.node[t].bk # r
        BY <1>3, <4>1
      <4>. QED
        BY <1>11, <4>1, <4>2
    <3>. QED
      BY <3>1, <3>2
  <2>6. N[N[t].fd].size = N[t].size
    <3>1. CASE t = r
      BY <1>3, <1>11, <3>1
    <3>2. CASE t # r
      BY <1>2, <1>11, <3>2
    <3>. QED
      BY <3>1, <3>2
  <2>. QED
    BY <2>3, <2>4, <2>5, <2>6
<1>17. \A t \in Held(b) : c.node[t].bk = IF t = fd THEN r ELSE b.node[t].bk
  BY <1>11, <1>12
<1>. QED
  BY <1>12, <1>15, <1>16, <1>17 DEF c, r, fd

-----------------------------------------------------------------------------
(* A chunk leaves the bins. *)

\* Nothing but chunk x itself knows of x any more.
Ready(b, m, x, U, new) ==
    /\ BinsOk(m) /\ m.aborted = FALSE
    /\ Held(m) = Held(b) /\ \A t \in Held(b) : m.node[t].size = b.node[t].size
    /\ Tries(m, U, new) /\ x \notin U
    /\ \A t \in Held(b) \ {x} : t \in U <=> m.node[t].parent # NULL
    /\ \A t \in Held(b) \ {x} : t \notin U => m.node[t].child = NoChild
    /\ RingsBut(m, x)

\* The bins are b without x.
Left(b, c, x) ==
    /\ TriesInv(c) /\ Held(c) = Held(b) \ {x}
    /\ \A t \in Held(c) : c.node[t].size = b.node[t].size

\* The bins keep the invariant when a chunk that nothing knows of is dropped.
LEMMA ReadyDropped ==
    ASSUME NEW b, NEW m, NEW x, NEW U, NEW new, Ready(b, m, x, U, new)
    PROVE  Left(b, Drop(m, x), x)
<1>. DEFINE c == Drop(m, x)
<1>1. /\ BinsOk(m) /\ m.aborted = FALSE
      /\ Held(m) = Held(b) /\ \A t \in Held(b) : m.node[t].size = b.node[t].size
  BY DEF Ready
<1>2. Dropped(m, c, x)
  BY <1>1, DropIs
<1>. HIDE DEF c
<1>3. /\ BinsOk(c) /\ Held(c) = Held(m) \ {x}
      /\ c.head = m.head /\ c.treemap = m.treemap /\ c.aborted = FALSE
      /\ \A t \in Held(c) : c.node[t] = m.node[t]
  BY <1>1, <1>2 DEF Dropped
<1>4. Tries(m, U, new) /\ x \notin U /\ U \subseteq Held(m)
  BY DEF Ready, Tries
<1>5. SameTries(m, c, U)
  BY <1>3, <1>4 DEF SameTries
<1>6. Tries(c, U, new)
  BY <1>4, <1>5, TriesKept
<1>7. U = Trie(c)
  <2>1. \A t \in Held(c) : t \in U <=> c.node[t].parent # NULL
    BY <1>1, <1>3 DEF Ready
  <2>2. U \subseteq Held(c)
    BY <1>3, <1>4
  <2>. QED
    BY <2>1, <2>2 DEF Trie
<1>8. Outside(c, U)
  BY <1>1, <1>3 DEF Ready, Outside
<1>9. Rings(c)
  <2>. SUFFICES ASSUME NEW t \in Held(c)
                PROVE  /\ c.node[t].fd \in Held(c) /\ c.node[t].bk \in Held(c)
                       /\ c.node[c.node[t].fd].bk = t /\ c.node[c.node[t].bk].fd = t
                       /\ c.node[c.node[t].fd].size = c.node[t].size
    BY DEF Rings
  <2>1. t \in Held(m) \ {x} /\ c.node[t] = m.node[t]
    BY <1>3
  <2>2. RingsBut(m, x)
    BY DEF Ready
  <2>3. /\ m.node[t].fd \in Held(c) /\ m.node[t].bk \in Held(c)
        /\ m.node[m.node[t].fd].bk = t /\ m.node[m.node[t].bk].fd = t
        /\ m.node[m.node[t].fd].size = m.node[t].size
    BY <1>3, <2>1, <2>2 DEF RingsBut
  <2>. QED
    BY <1>3, <2>1, <2>3
<1>10. TriesInv(c)
  BY <1>3, <1>6, <1>7, <1>8, <1>9 DEF TriesInv
<1>11. Left(b, c, x)
  BY <1>1, <1>3, <1>10 DEF Left
<1>. QED
  BY <1>11 DEF c

\* Chunk r in the place of x makes x ready.
LEMMA SwapReady ==
    ASSUME NEW b, NEW f, NEW T, NEW dep, NEW x, NEW r, Fits(f, T, dep, x, r),
           Held(f) = Held(b), \A t \in Held(b) : f.node[t].size = b.node[t].size,
           f.aborted = FALSE, RingsBut(f, x),
           \A t \in Held(b) : t \notin T /\ t # r => f.node[t].parent = NULL
    PROVE  Ready(b, Adopt(Redirect(f, x, r), x, r), x, (T \ {x}) \cup {r}, Moved(T, dep, x, r))
<1>. DEFINE m == Redirect(f, x, r)
            c == Adopt(m, x, r)
            U == (T \ {x}) \cup {r}
            new == Moved(T, dep, x, r)
            p == f.node[x].parent
            k == Turn(f, x, dep[p])
<1>1. /\ Good(f, T, dep) /\ x \in T /\ r \in Held(f) /\ r \notin T /\ T \subseteq Held(f)
      /\ x \in Held(f) /\ Held(f) \subseteq Chunks
  BY DEF Fits, Good, Tries, BinsOk
<1>2. Redirected(f, m, dep, x, r)
  BY <1>1, RedirectIs
<1>. HIDE DEF m
<1>3. BinsOk(m) /\ Held(m) = Held(f)
  BY <1>2 DEF Redirected, SameChunks
<1>4. Adopted(m, c, x, r)
  BY <1>1, <1>3, AdoptIs
<1>. HIDE DEF c
<1>5. Swapped(f, c, T, dep, x, r)
  BY <1>2, <1>4, SwapIs
<1>6. Tries(c, U, new)
  BY <1>5, SwapTries
<1>7. BinsOk(c) /\ SameChunks(f, c) /\ Held(c) = Held(b) /\ c.aborted = FALSE
  BY <1>5 DEF Swapped, SameChunks
<1>8. \A t \in Held(b) : c.node[t].size = b.node[t].size
  BY <1>7 DEF SameChunks
<1>9. /\ \A t \in Held(b) :
            c.node[t].parent = IF t = r THEN p
                               ELSE IF t \in T /\ f.node[t].parent = x THEN r
                               ELSE f.node[t].parent
      /\ \A t \in Held(b), d \in {0, 1} :
            c.node[t].child[d] = IF t = r THEN f.node[x].child[d]
                                 ELSE IF dep[x] # 0 /\ t = p /\ d = k THEN r
                                 ELSE f.node[t].child[d]
  BY <1>5 DEF Swapped
<1>10. r # NULL /\ r # x /\ x \notin U
  BY <1>1, Names
<1>11. p # NULL /\ (dep[x] # 0 => p \in T) /\ \A t \in T : f.node[t].parent # NULL
  <2>1. dep[x] # 0 => p \in T
    BY <1>1, RootOf, HangsFrom
  <2>. QED
    BY <1>1, <2>1, InTrie
<1>12. ASSUME NEW t \in Held(b) \ {x} PROVE t \in U <=> c.node[t].parent # NULL
  <2>1. CASE t \in U
    BY <1>9, <1>10, <1>11, <2>1
  <2>2. CASE t \notin U
    <3>1. t \notin T /\ t # r
      BY <2>2
    <3>. QED
      BY <1>9, <2>2, <3>1
  <2>. QED
    BY <2>1, <2>2
<1>13. ASSUME NEW t \in Held(b) \ {x}, t \notin U PROVE c.node[t].child = NoChild
  <2>1. t \notin T /\ t # r /\ t \in Held(f)
    BY <1>13
  <2>2. f.node[t].child = NoChild
    BY <1>1, <2>1 DEF Good, Outside
  <2>3. \A d \in {0, 1} : c.node[t].child[d] = NULL
    BY <1>9, <1>11, <2>1, <2>2 DEF NoChild
  <2>4. c.node[t].child \in [{0, 1} -> Chunks \cup {NULL}]
    BY <1>7, <2>1, NodeFacts
  <2>. QED
    BY <2>3, <2>4 DEF NoChild
<1>14. RingsBut(c, x)
  BY <1>7 DEF SameChunks, RingsBut
<1>. HIDE DEF U, new
<1>15. Ready(b, c, x, U, new)
  BY <1>6, <1>7, <1>8, <1>10, <1>12, <1>13, <1>14 DEF Ready
<1>. QED
  BY <1>15 DEF c, m, U, new

\* unlink_large_chunk, by its cases.
Freed(b, x) ==
    IF b.node[x].bk # x THEN Unring(b, x)
    ELSE IF Replacement(b, x) # NULL THEN Redirect(b, Replacement(b, x), NULL) ELSE b

\* The pointers when the chunks about x are linked past it.
Relinked(b, x) ==
    LET r == Replacement(b, x) IN
      IF b.node[x].parent = NULL THEN Freed(b, x)
      ELSE IF r # NULL THEN Adopt(Redirect(Freed(b, x), x, r), x, r)
      ELSE Redirect(Freed(b, x), x, r)

\* unlink_large_chunk is its relinking and the drop of the chunk.
LEMMA UnlinkIs ==
    ASSUME NEW b, NEW x
    PROVE  UnlinkLargeChunk(b, x) = Drop(Relinked(b, x), x)
<1>. DEFINE r == Replacement(b, x)
            fd == b.node[x].fd
            freed ==
              IF b.node[x].bk # x
              THEN [b EXCEPT !.node[fd].bk = r, !.node[r].fd = fd,
                             !.aborted = @ \/ b.node[fd].bk # x \/ b.node[r].fd # x]
              ELSE IF r # NULL THEN Redirect(b, r, NULL) ELSE b
            relinked ==
              IF b.node[x].parent = NULL THEN freed
              ELSE LET moved == Redirect(freed, x, r) IN IF r # NULL THEN Adopt(moved, x, r) ELSE moved
<1>1. UnlinkLargeChunk(b, x) = Drop(relinked, x)
  <2>1. UnlinkLargeChunk(b, x) = [relinked EXCEPT !.node = Restrict(@, DOMAIN @ \ {x})]
    BY Zenon DEF UnlinkLargeChunk
  <2>. QED
    BY <2>1, Zenon DEF Drop
<1>2. freed = Freed(b, x)
  <2>1. CASE b.node[x].bk # x
    <3>1. r = b.node[x].bk
      BY <2>1 DEF Replacement
    <3>. HIDE DEF r
    <3>2. freed = Unring(b, x)
      BY <2>1, <3>1, Zenon DEF Unring
    <3>. QED
      BY <2>1, <3>2, Zenon DEF Freed
  <2>2. CASE ~(b.node[x].bk # x)
    BY <2>2, Zenon DEF Freed
  <2>. QED
    BY <2>1, <2>2
<1>. HIDE DEF freed, r
<1>3. relinked = Relinked(b, x)
  BY <1>2, Zenon DEF Relinked, r
<1>. QED
  BY <1>1, <1>3, Zenon

\* What the invariant says of a chunk that leaves.
Leaving(b, T, dep, x) ==
    /\ Good(b, T, dep) /\ x \in Held(b) /\ b.aborted = FALSE /\ Rings(b)
    /\ \A t \in Held(b) : t \in T <=> b.node[t].parent # NULL

\* A chunk of a ring is not in the trie if another of its ring is.
LEMMA InRing ==
    ASSUME NEW b, NEW T, NEW dep, NEW x, Leaving(b, T, dep, x), b.node[x].bk # x
    PROVE  \E m, U, new : m = Relinked(b, x) /\ Ready(b, m, x, U, new)
<1>. DEFINE r == b.node[x].bk
            f == Unring(b, x)
<1>1. /\ Good(b, T, dep) /\ x \in Held(b) /\ b.aborted = FALSE /\ Rings(b)
      /\ BinsOk(b) /\ Tries(b, T, dep) /\ T \subseteq Held(b)
  BY DEF Leaving, Good, Tries
<1>2. \A t \in Held(b) : t \in T <=> b.node[t].parent # NULL
  BY DEF Leaving
<1>3. SameButRings(b, f) /\ f.aborted = FALSE /\ RingsBut(f, x)
  BY <1>1, UnringIs
<1>4. Freed(b, x) = f /\ Replacement(b, x) = r
  BY DEF Freed, Replacement
<1>5. r \in Held(b) /\ b.node[r].size = b.node[x].size /\ r # x
  BY <1>1 DEF Rings
<1>. HIDE DEF f, r
<1>6. /\ BinsOk(f) /\ Held(f) = Held(b) /\ f.head = b.head /\ f.treemap = b.treemap
      /\ \A t \in Held(b) :
           /\ f.node[t].size = b.node[t].size /\ f.node[t].index = b.node[t].index
           /\ f.node[t].parent = b.node[t].parent /\ f.node[t].child = b.node[t].child
  BY <1>3 DEF SameButRings
<1>7. SameTries(b, f, T)
  BY <1>1, <1>6 DEF SameTries
<1>8. Tries(f, T, dep)
  BY <1>1, <1>7, TriesKept
<1>9. Outside(f, T)
  BY <1>1, <1>6 DEF Good, Outside
<1>10. CASE x \notin T
  <2>1. Relinked(b, x) = f
    BY <1>1, <1>2, <1>4, <1>10 DEF Relinked
  <2>2. \A t \in Held(b) \ {x} : t \in T <=> f.node[t].parent # NULL
    BY <1>2, <1>6
  <2>3. \A t \in Held(b) \ {x} : t \notin T => f.node[t].child = NoChild
    BY <1>6, <1>9 DEF Outside
  <2>4. Ready(b, f, x, T, dep)
    BY <1>3, <1>6, <1>8, <1>10, <2>2, <2>3 DEF Ready
  <2>. QED
    BY <2>1, <2>4
<1>11. CASE x \in T
  <2>1. r \notin T
    BY <1>1, <1>5, <1>11 DEF Tries, SizesOnce
  <2>2. Good(f, T, dep)
    BY <1>6, <1>8, <1>9 DEF Good
  <2>3. Fits(f, T, dep, x, r)
    <3>1. f.node[r].size = f.node[x].size /\ r \in Held(f) \ T
      BY <1>1, <1>5, <1>6, <2>1
    <3>2. f.node[r].index = f.node[x].index
      BY <1>1, <1>6, <3>1, NodeFacts
    <3>3. Bits(f, r, dep[x]) = Bits(f, x, dep[x])
      BY <3>1, <3>2 DEF Bits
    <3>4. \A t \in T \ {x} : f.node[t].size # f.node[r].size
      BY <1>8, <1>11, <3>1 DEF Tries, SizesOnce
    <3>. QED
      BY <1>11, <2>2, <3>1, <3>2, <3>3, <3>4 DEF Fits
  <2>4. \A t \in Held(b) : t \notin T /\ t # r => f.node[t].parent = NULL
    BY <1>2, <1>6
  <2>5. \A t \in Held(b) : f.node[t].size = b.node[t].size
    BY <1>6
  <2>. DEFINE m == Adopt(Redirect(f, x, r), x, r)
              U == (T \ {x}) \cup {r}
              new == Moved(T, dep, x, r)
  <2>6. Ready(b, m, x, U, new)
    BY <1>3, <1>6, <2>3, <2>4, <2>5, SwapReady
  <2>7. Relinked(b, x) = m
    <3>1. r # NULL /\ b.node[x].parent # NULL
      BY <1>1, <1>2, <1>5, <1>11, Names DEF BinsOk
    <3>. QED
      BY <1>4, <3>1 DEF Relinked
  <2>. HIDE DEF m, U, new
  <2>. QED
    BY <2>6, <2>7
<1>. QED
  BY <1>10, <1>11

\* A chunk that is alone is not in other rings.
LEMMA RingsAlone ==
    ASSUME NEW b, Rings(b), NEW x \in Held(b), b.node[x].bk = x
    PROVE  RingsBut(b, x)
<1>1. b.node[x].fd = x
  BY DEF Rings
<1>. SUFFICES ASSUME NEW t \in Held(b) \ {x}
              PROVE  /\ b.node[t].fd \in Held(b) \ {x} /\ b.node[t].bk \in Held(b) \ {x}
                     /\ b.node[b.node[t].fd].bk = t /\ b.node[b.node[t].bk].fd = t
                     /\ b.node[b.node[t].fd].size = b.node[t].size
  BY DEF RingsBut
<1>2. /\ b.node[t].fd \in Held(b) /\ b.node[t].bk \in Held(b)
      /\ b.node[b.node[t].fd].bk = t /\ b.node[b.node[t].bk].fd = t
      /\ b.node[b.node[t].fd].size = b.node[t].size
  BY DEF Rings
<1>3. b.node[t].fd # x /\ b.node[t].bk # x
  BY <1>1, <1>2
<1>. QED
  BY <1>2, <1>3

\* A chunk that is alone is replaced by a leaf below it, if there is one.
LEMMA Alone ==
    ASSUME NEW b, NEW T, NEW dep, NEW x, Leaving(b, T, dep, x), b.node[x].bk = x
    PROVE  \E m, U, new : m = Relinked(b, x) /\ Ready(b, m, x, U, new)
<1>. DEFINE r == RightmostLeaf(b, x)
<1>1. /\ Good(b, T, dep) /\ x \in Held(b) /\ b.aborted = FALSE /\ Rings(b)
      /\ BinsOk(b) /\ Tries(b, T, dep) /\ T \subseteq Held(b)
  BY DEF Leaving, Good, Tries
<1>2. \A t \in Held(b) : t \in T <=> b.node[t].parent # NULL
  BY DEF Leaving
<1>3. RingsBut(b, x)
  BY <1>1, RingsAlone
<1>4. Replacement(b, x) = IF r = x THEN NULL ELSE r
  BY DEF Replacement
<1>. HIDE DEF r
<1>5. CASE x \notin T
  <2>1. r = x
    BY <1>1, <1>5, RightmostOutside DEF r
  <2>2. Relinked(b, x) = b
    BY <1>1, <1>2, <1>4, <1>5, <2>1 DEF Relinked, Freed
  <2>3. \A t \in Held(b) \ {x} : t \notin T => b.node[t].child = NoChild
    BY <1>1 DEF Good, Outside
  <2>4. Ready(b, b, x, T, dep)
    BY <1>1, <1>2, <1>3, <1>5, <2>3 DEF Ready
  <2>. QED
    BY <2>2, <2>4
<1>6. CASE x \in T /\ r = x
  <2>. DEFINE m == Redirect(b, x, NULL)
              U == T \ {x}
  <2>1. b.node[x].child = NoChild
    BY <1>1, <1>6, RightmostFound DEF r
  <2>2. Redirected(b, m, dep, x, NULL)
    BY <1>1, <1>6, RedirectIs
  <2>3. Relinked(b, x) = m
    <3>1. b.node[x].parent # NULL
      BY <1>1, <1>2, <1>6
    <3>. QED
      BY <1>4, <1>6, <3>1 DEF Relinked, Freed
  <2>. HIDE DEF m
  <2>4. Good(m, U, dep)
    BY <1>1, <1>6, <2>1, <2>2, LeafGone
  <2>5. /\ Held(m) = Held(b) /\ m.aborted = FALSE /\ BinsOk(m) /\ Tries(m, U, dep)
        /\ \A t \in Held(b) : m.node[t].size = b.node[t].size
    BY <1>1, <2>2, <2>4 DEF Redirected, SameChunks, Good
  <2>6. \A t \in Held(b) \ {x} : t \in U <=> m.node[t].parent # NULL
    BY <1>2, <2>2 DEF Redirected
  <2>7. \A t \in Held(b) \ {x} : t \notin U => m.node[t].child = NoChild
    BY <2>4, <2>5 DEF Good, Outside
  <2>8. RingsBut(m, x)
    BY <1>3, <2>2 DEF Redirected, SameChunks, RingsBut
  <2>9. Ready(b, m, x, U, dep)
    BY <2>5, <2>6, <2>7, <2>8 DEF Ready
  <2>. HIDE DEF U
  <2>. QED
    BY <2>3, <2>9
<1>7. CASE x \in T /\ r # x
  <2>. DEFINE f == Redirect(b, r, NULL)
              S == T \ {r}
  <2>1. /\ r \in T /\ b.node[r].child = NoChild /\ b.node[r].index = b.node[x].index
        /\ Bits(b, r, dep[x]) = Bits(b, x, dep[x])
    BY <1>1, <1>7, RightmostFound DEF r
  <2>2. Redirected(b, f, dep, r, NULL)
    BY <1>1, <2>1, RedirectIs
  <2>3. Freed(b, x) = f /\ Replacement(b, x) = r /\ r # NULL /\ b.node[x].parent # NULL
    <3>1. r # NULL /\ b.node[x].parent # NULL
      BY <1>1, <1>2, <1>7, <2>1, Names DEF BinsOk
    <3>. QED
      BY <1>4, <1>7, <3>1 DEF Freed
  <2>. HIDE DEF f
  <2>4. Good(f, S, dep)
    BY <1>1, <2>1, <2>2, LeafGone
  <2>5. SameChunks(b, f) /\ Held(f) = Held(b) /\ f.aborted = FALSE
        /\ \A t \in Held(b) : f.node[t].size = b.node[t].size
    BY <1>1, <2>2 DEF Redirected, SameChunks
  <2>6. Fits(f, S, dep, x, r)
    <3>1. x \in S /\ r \in Held(f) \ S
      BY <1>1, <1>7, <2>1, <2>5
    <3>2. f.node[r].index = f.node[x].index
      BY <1>1, <2>1, <2>5 DEF SameChunks
    <3>3. Bits(f, r, dep[x]) = Bits(f, x, dep[x])
      BY <1>1, <2>1, <2>5, SameBits
    <3>4. \A t \in S \ {x} : f.node[t].size # f.node[r].size
      BY <1>1, <2>1, <2>5 DEF Tries, SizesOnce
    <3>. QED
      BY <2>4, <3>1, <3>2, <3>3, <3>4 DEF Fits
  <2>7. \A t \in Held(b) : t \notin S /\ t # r => f.node[t].parent = NULL
    BY <1>2, <2>2 DEF Redirected
  <2>8. RingsBut(f, x)
    <3>1. \A t \in Held(b) : f.node[t].fd = b.node[t].fd /\ f.node[t].bk = b.node[t].bk
      BY <2>5 DEF SameChunks
    <3>. QED
      BY <1>3, <2>5, <3>1 DEF RingsBut
  <2>9. \A t \in Held(b) : f.node[t].size = b.node[t].size
    BY <2>5
  <2>10. Held(f) = Held(b) /\ f.aborted = FALSE
    BY <2>5
  <2>. DEFINE m == Adopt(Redirect(f, x, r), x, r)
              U == (S \ {x}) \cup {r}
              new == Moved(S, dep, x, r)
  <2>. HIDE DEF S
  <2>11. Ready(b, m, x, U, new)
    BY <2>6, <2>7, <2>8, <2>9, <2>10, SwapReady
  <2>12. Relinked(b, x) = m
    BY <2>3 DEF Relinked
  <2>. HIDE DEF m, U, new
  <2>. QED
    BY <2>11, <2>12
<1>. QED
  BY <1>5, <1>6, <1>7

\* unlink_large_chunk takes one chunk out of the bins and keeps the
\* invariant.
LEMMA Unlinked ==
    ASSUME NEW b, TriesInv(b), NEW x \in Held(b)
    PROVE  Left(b, UnlinkLargeChunk(b, x), x)
<1>1. PICK dep : Tries(b, Trie(b), dep)
  BY DEF TriesInv
<1>. DEFINE T == Trie(b)
<1>2. BinsOk(b) /\ Outside(b, T) /\ Tries(b, T, dep) /\ b.aborted = FALSE /\ Rings(b)
  BY <1>1 DEF TriesInv
<1>3. \A t \in Held(b) : t \in T <=> b.node[t].parent # NULL
  BY DEF Trie
<1>. HIDE DEF T
<1>4. Leaving(b, T, dep, x)
  BY <1>2, <1>3 DEF Leaving, Good
<1>5. \E m, U, new : m = Relinked(b, x) /\ Ready(b, m, x, U, new)
  BY <1>4, InRing, Alone
<1>6. Left(b, Drop(Relinked(b, x), x), x)
  BY <1>5, ReadyDropped
<1>. QED
  BY <1>6, UnlinkIs

-----------------------------------------------------------------------------
(* A chunk comes into the bins. *)

\* The bins are b with a node x as well.
Added(b, c, x, n) ==
    /\ BinsOk(c) /\ Held(c) = Held(b) \cup {x}
    /\ c.head = b.head /\ c.treemap = b.treemap /\ c.aborted = b.aborted
    /\ c.node[x] = n
    /\ \A t \in Held(b) : c.node[t] = b.node[t]

\* AddNode adds a chunk, and changes no other.
LEMMA AddIs ==
    ASSUME NEW b, BinsOk(b), NEW x \in Chunks, x \notin Held(b),
           NEW n \in NodeRecords, n.index = TreeIndex(n.size)
    PROVE  Added(b, AddNode(b, x, n), x, n)
<1>. DEFINE D == Held(b) \cup {x}
            N == [y \in D |-> IF y = x THEN n ELSE b.node[y]]
            c == AddNode(b, x, n)
<1>1. b = [head |-> b.head, treemap |-> b.treemap, node |-> b.node, aborted |-> b.aborted]
      /\ b.head \in [Bins -> Chunks \cup {NULL}]
      /\ Held(b) \subseteq Chunks /\ b.node \in [Held(b) -> NodeRecords]
      /\ \A t \in Held(b) : b.node[t].index = TreeIndex(b.node[t].size)
  BY DEF BinsOk
<1>2. c = [b EXCEPT !.node = N]
  BY DEF AddNode, Held
<1>3. D \subseteq Chunks /\ x \in D /\ \A y \in D : y # x => y \in Held(b)
  BY <1>1
<1>4. Held(b) \subseteq D
  OBVIOUS
<1>. HIDE DEF D
<1>5. DOMAIN N = D /\ N[x] = n /\ \A t \in D : t # x => N[t] = b.node[t]
  BY <1>3
<1>6. N \in [D -> NodeRecords]
  BY <1>1, <1>3
<1>. HIDE DEF N, c
<1>7. c = [head |-> b.head, treemap |-> b.treemap, node |-> N, aborted |-> b.aborted]
  BY <1>1, <1>2
<1>8. c.head = b.head /\ c.treemap = b.treemap /\ c.node = N /\ c.aborted = b.aborted
  BY <1>7
<1>9. Held(c) = D
  BY <1>5, <1>8 DEF Held
<1>10. \A t \in Held(b) : t # x /\ c.node[t] = b.node[t]
  BY <1>4, <1>5, <1>8
<1>11. BinsOk(c)
  <2>1. \A t \in Held(c) : c.node[t].index = TreeIndex(c.node[t].size)
    <3>. TAKE t \in Held(c)
    <3>1. CASE t = x
      BY <1>5, <1>8, <3>1
    <3>2. CASE t # x
      BY <1>1, <1>3, <1>9, <1>10, <3>2
    <3>. QED
      BY <3>1, <3>2
  <2>2. c.node \in [Held(c) -> NodeRecords]
    BY <1>6, <1>8, <1>9
  <2>3. c = [head |-> c.head, treemap |-> c.treemap, node |-> c.node, aborted |-> c.aborted]
    BY <1>7, <1>8
  <2>4. c.head \in [Bins -> Chunks \cup {NULL}] /\ Held(c) \subseteq Chunks
    BY <1>1, <1>3, <1>8, <1>9
  <2>. QED
    BY ONLY <2>1, <2>2, <2>3, <2>4 DEF BinsOk
<1>12. c.node[x] = n
  BY <1>5, <1>8
<1>13. Added(b, c, x, n)
  BY <1>8, <1>9, <1>10, <1>11, <1>12 DEF Added, D
<1>. QED
  BY <1>13 DEF c

\* The fields of a new node.
LEMMA NodeIs ==
    ASSUME NEW s \in LargeSizes, NEW fd \in Chunks, NEW bk \in Chunks, NEW p \in Chunks \cup {NULL, BIN}
    PROVE  /\ Node(s, fd, bk, p) \in NodeRecords
           /\ Node(s, fd, bk, p).size = s /\ Node(s, fd, bk, p).index = TreeIndex(s)
           /\ Node(s, fd, bk, p).fd = fd /\ Node(s, fd, bk, p).bk = bk
           /\ Node(s, fd, bk, p).parent = p /\ Node(s, fd, bk, p).child = NoChild
<1>1. TreeIndex(s) \in Bins
  BY IndexOf
<1>2. NoChild \in [{0, 1} -> Chunks \cup {NULL}]
  BY DEF NoChild
<1>. QED
  BY <1>1, <1>2 DEF Node, NodeRecords

\* Nothing is yet where a chunk will hang.
LEMMA NewPlace ==
    ASSUME NEW b, NEW T, NEW dep, Good(b, T, dep), NEW s \in LargeSizes, NEW i, i = TreeIndex(s),
           NEW p \in T, b.node[p].index = i, NEW e, e = dep[p], e \in 0..(Levels(i) - 1),
           Bits(b, p, e) = Prefix(s, i, e), b.node[p].child[Branch(s, i, e)] = NULL,
           NEW t \in T, b.node[t].index = i, dep[t] = e + 1
    PROVE  Bits(b, t, e + 1) # Prefix(s, i, e + 1)
<1>. SUFFICES ASSUME Bits(b, t, e + 1) = Prefix(s, i, e + 1) PROVE FALSE
  OBVIOUS
<1>1. i \in Bins /\ Levels(i) \in 1..SizeBits /\ b.node[t].size \in LargeSizes /\ e \in Nat
      /\ Tries(b, T, dep)
  BY InTrie DEF Good
<1>2. b.node[t].parent # BIN
  BY <1>1, RootOf
<1>. DEFINE q == b.node[t].parent
<1>3. /\ q \in T /\ b.node[q].index = i
      /\ dep[t] = dep[q] + 1
      /\ b.node[q].child[Turn(b, t, dep[q])] = t
      /\ Bits(b, t, dep[q]) = Bits(b, q, dep[q])
  BY <1>2, HangsFrom
<1>. HIDE DEF q
<1>4. dep[q] \in Nat
  BY <1>3, InTrie
<1>5. dep[q] = e
  BY <1>1, <1>3, <1>4
<1>6. /\ Prefix(s, i, e + 1) = 2 * Prefix(s, i, e) + Branch(s, i, e)
      /\ Prefix(s, i, e) = Prefix(s, i, e + 1) \div 2
      /\ Branch(s, i, e) \in {0, 1}
  BY <1>1, PrefixStep
<1>. DEFINE u == b.node[t].size
<1>7. u \in LargeSizes
  BY <1>1
<1>. HIDE DEF u
<1>8. /\ Prefix(u, i, e + 1) = 2 * Prefix(u, i, e) + Branch(u, i, e)
      /\ Prefix(u, i, e) = Prefix(u, i, e + 1) \div 2
      /\ Branch(u, i, e) \in {0, 1}
  BY <1>1, <1>7, PrefixStep
<1>9. Prefix(u, i, e) \in Nat /\ e \in 0..Levels(i)
  BY <1>1, <1>7, PrefixType
<1>10. Prefix(u, i, e + 1) = Prefix(s, i, e + 1)
  BY DEF Bits, u
<1>11. Prefix(u, i, e) = Prefix(s, i, e)
  BY <1>6, <1>8, <1>10
<1>12. Branch(u, i, e) = Branch(s, i, e)
  BY <1>6, <1>8, <1>9, <1>10, <1>11
<1>13. Bits(b, t, e) = Prefix(u, i, e) /\ Turn(b, t, e) = Branch(u, i, e)
  BY DEF Bits, Turn, u
<1>14. q = p
  <2>1. SamePlace(b, dep, q, p)
    BY <1>3, <1>5, <1>11, <1>13 DEF SamePlace
  <2>. QED
    BY <1>1, <1>3, <2>1 DEF Tries, PlacesOnce
<1>15. b.node[p].child[Branch(s, i, e)] = t
  BY <1>3, <1>5, <1>12, <1>13, <1>14
<1>16. t # NULL
  BY InTrie, Names
<1>. QED
  BY <1>15, <1>16

\* The chunks of the path towards a size.
LEMMA PathBefore ==
    ASSUME NEW b, NEW T, NEW dep, Good(b, T, dep), NEW s \in LargeSizes, NEW i, i = TreeIndex(s), i \in b.treemap,
           NEW d \in Nat, d < End(Path(b, i, s))
    PROVE  LET t == Path(b, i, s)[d] IN
             /\ t \in T /\ b.node[t].index = i /\ dep[t] = d
             /\ Bits(b, t, d) = Prefix(s, i, d) /\ b.node[t].size # s
<1>. DEFINE at == Path(b, i, s)
            next == NextTo(b, s, i)
            S == Held(b)
            n == SizeBits
            first == b.head[i]
            e == End(at)
<1>1. s \in Words /\ n \in Nat /\ i \in Bins /\ first \in S /\ NULL \notin S
  BY RootIn, Sizes, Widths, NextTypes DEF Good, Tries
<1>2. IsWalk(at, S, first, next, n)
  BY <1>1, PathWalks
<1>. HIDE DEF at, next, S, n, first
<1>3. /\ End(at) \in 0..n /\ at[End(at)] \in S
      /\ \A j \in 0..End(at) : at[j] \in S
  BY ONLY <1>1, <1>2, EndOf
<1>4. e \in 0..SizeBits /\ \A j \in 0..e : Path(b, i, s)[j] \in Held(b)
  BY <1>3 DEF S, n, at
<1>5. d \in 0..e /\ d < e
  BY <1>4, Widths DEF at
<1>. HIDE DEF e
<1>6. \A j \in 0..e : LET t == Path(b, i, s)[j] IN
             /\ t \in T /\ b.node[t].index = i /\ dep[t] = j
             /\ j \in 0..Levels(i) /\ Bits(b, t, j) = Prefix(s, i, j)
             /\ j < e => /\ b.node[t].size # s
                         /\ Path(b, i, s)[j + 1] = b.node[t].child[Branch(s, i, j)]
  BY <1>1, <1>4, PathRounds
<1>. QED
  BY <1>5, <1>6

\* A size that its path does not find is not in the trie.
LEMMA NewSize ==
    ASSUME NEW b, NEW T, NEW dep, Good(b, T, dep), NEW s \in LargeSizes, NEW i, i = TreeIndex(s), i \in b.treemap,
           NEW e, e = End(Path(b, i, s)), NEW p, p = Path(b, i, s)[e], b.node[p].size # s,
           NEW u \in T
    PROVE  b.node[u].size # s
<1>. SUFFICES ASSUME b.node[u].size = s PROVE FALSE
  OBVIOUS
<1>1. /\ p \in T /\ b.node[p].index = i /\ dep[p] = e /\ e \in Nat
      /\ Bits(b, p, e) = Prefix(s, i, e)
      /\ b.node[p].child[Branch(s, i, e)] = NULL
      /\ e \in 0..(Levels(i) - 1)
  BY PathFinds
<1>2. b.node[u].index = i /\ i \in Bins /\ dep[u] \in Nat /\ Tries(b, T, dep)
      /\ \A d : Bits(b, u, d) = Prefix(s, i, d)
  <2>1. b.node[u].index = i /\ i \in Bins /\ dep[u] \in Nat /\ Tries(b, T, dep)
    BY InTrie DEF Good
  <2>. QED
    BY <2>1 DEF Bits
<1>3. CASE dep[u] < e
  <2>. DEFINE d == dep[u]
              t == Path(b, i, s)[d]
  <2>1. /\ t \in T /\ b.node[t].index = i /\ dep[t] = d
        /\ Bits(b, t, d) = Prefix(s, i, d) /\ b.node[t].size # s
    BY <1>2, <1>3, PathBefore
  <2>. HIDE DEF t
  <2>2. SamePlace(b, dep, t, u)
    BY <1>2, <2>1 DEF SamePlace
  <2>3. t = u
    BY <1>2, <2>1, <2>2 DEF Tries, PlacesOnce
  <2>. QED
    BY <2>1, <2>3
<1>4. CASE dep[u] = e
  <2>1. SamePlace(b, dep, u, p)
    BY <1>1, <1>2, <1>4 DEF SamePlace
  <2>2. u = p
    BY <1>1, <1>2, <2>1 DEF Tries, PlacesOnce
  <2>. QED
    BY <2>2
<1>5. CASE dep[u] > e
  <2>1. e + 1 \in 0..dep[u]
    BY <1>1, <1>2, <1>5
  <2>2. PICK t \in T : b.node[t].index = b.node[u].index /\ dep[t] = e + 1
                       /\ Bits(b, t, e + 1) = Bits(b, u, e + 1)
    BY <2>1, Ancestors
  <2>3. b.node[t].index = i /\ Bits(b, t, e + 1) = Prefix(s, i, e + 1)
    BY <1>2, <2>2
  <2>. QED
    BY <1>1, <2>2, <2>3, NewPlace
<1>. QED
  BY <1>1, <1>2, <1>3, <1>4, <1>5

\* Chunk x may hang from p, or be the root of its bin, at depth d.
Comes(b, T, dep, x, s, p, d) ==
    LET i == TreeIndex(s) IN
      /\ Good(b, T, dep) /\ x \in Chunks /\ x \notin Held(b) /\ s \in LargeSizes
      /\ \A u \in T : b.node[u].size # s
      /\ \A t \in T : b.node[t].index = i /\ dep[t] = d => Bits(b, t, d) # Prefix(s, i, d)
      /\ d \in 0..Levels(i)
      /\ \/ p = BIN /\ d = 0 /\ i \notin b.treemap
         \/ /\ p \in T /\ b.node[p].index = i /\ d = dep[p] + 1
            /\ Bits(b, p, dep[p]) = Prefix(s, i, dep[p])
            /\ b.node[p].child[Branch(s, i, dep[p])] = NULL

\* What the pointers are then.
Hung(b, c, dep, x, s, p) ==
    LET i == TreeIndex(s) IN
      /\ BinsOk(c) /\ Held(c) = Held(b) \cup {x}
      /\ \A j \in Bins : c.head[j] = IF p = BIN /\ j = i THEN x ELSE b.head[j]
      /\ c.treemap = IF p = BIN THEN b.treemap \cup {i} ELSE b.treemap
      /\ \A t \in Held(b) : /\ c.node[t].size = b.node[t].size /\ c.node[t].index = b.node[t].index
                            /\ c.node[t].fd = b.node[t].fd /\ c.node[t].bk = b.node[t].bk
                            /\ c.node[t].parent = b.node[t].parent
      /\ \A t \in Held(b), e \in {0, 1} :
           c.node[t].child[e] = IF p # BIN /\ t = p /\ e = Branch(s, i, dep[p]) THEN x
                                ELSE b.node[t].child[e]
      /\ c.node[x] = Node(s, x, x, p)
      /\ c.aborted = b.aborted

\* The depths with chunk x.
Deeper(T, dep, x, d) == [t \in T \cup {x} |-> IF t = x THEN d ELSE dep[t]]

\* The tries with a chunk hung where its size belongs are tries.
LEMMA HungTries ==
    ASSUME NEW b, NEW T, NEW dep, NEW x, NEW s, NEW p, NEW d, Comes(b, T, dep, x, s, p, d),
           NEW c, Hung(b, c, dep, x, s, p)
    PROVE  Tries(c, T \cup {x}, Deeper(T, dep, x, d))
<1>. DEFINE i == TreeIndex(s)
            U == T \cup {x}
            new == Deeper(T, dep, x, d)
            k == Branch(s, i, dep[p])
<1>1. /\ Good(b, T, dep) /\ x \in Chunks /\ x \notin Held(b) /\ s \in LargeSizes
      /\ Tries(b, T, dep) /\ BinsOk(b) /\ T \subseteq Held(b) /\ x \notin T /\ Held(b) \subseteq Chunks
  BY DEF Comes, Good, Tries, BinsOk
<1>2. /\ \A u \in T : b.node[u].size # s
      /\ \A t \in T : b.node[t].index = i /\ dep[t] = d => Bits(b, t, d) # Prefix(s, i, d)
      /\ d \in 0..Levels(i)
  BY DEF Comes
<1>3. i \in Bins /\ x # NULL /\ x # BIN
  BY <1>1, IndexOf, Names
<1>4. p = BIN => d = 0 /\ i \notin b.treemap
  BY <1>1, Names DEF Comes
<1>5. p # BIN => /\ p \in T /\ b.node[p].index = i /\ d = dep[p] + 1
                 /\ Bits(b, p, dep[p]) = Prefix(s, i, dep[p])
                 /\ b.node[p].child[k] = NULL
                 /\ p \in Held(b) /\ p # x /\ dep[p] \in Nat /\ k \in {0, 1}
  <2>. SUFFICES ASSUME p # BIN
                PROVE  /\ p \in T /\ b.node[p].index = i /\ d = dep[p] + 1
                       /\ Bits(b, p, dep[p]) = Prefix(s, i, dep[p])
                       /\ b.node[p].child[k] = NULL
                       /\ p \in Held(b) /\ p # x /\ dep[p] \in Nat /\ k \in {0, 1}
    OBVIOUS
  <2>1. /\ p \in T /\ b.node[p].index = i /\ d = dep[p] + 1
        /\ Bits(b, p, dep[p]) = Prefix(s, i, dep[p])
        /\ b.node[p].child[k] = NULL
    BY DEF Comes
  <2>2. dep[p] \in Nat
    BY <1>1, <2>1, InTrie
  <2>3. k \in {0, 1}
    BY <1>1, <1>3, <2>2, Sizes, BranchBit
  <2>. QED
    BY <1>1, <2>1, <2>2, <2>3
<1>6. /\ BinsOk(c) /\ Held(c) = Held(b) \cup {x}
      /\ c.treemap = IF p = BIN THEN b.treemap \cup {i} ELSE b.treemap
      /\ \A j \in Bins : c.head[j] = IF p = BIN /\ j = i THEN x ELSE b.head[j]
  BY DEF Hung
<1>7. /\ \A t \in Held(b) : /\ c.node[t].size = b.node[t].size /\ c.node[t].index = b.node[t].index
                            /\ c.node[t].parent = b.node[t].parent
      /\ \A t \in Held(b), e \in {0, 1} :
           c.node[t].child[e] = IF p # BIN /\ t = p /\ e = k THEN x ELSE b.node[t].child[e]
  BY DEF Hung
<1>8. c.node[x].size = s /\ c.node[x].index = i /\ c.node[x].parent = p /\ c.node[x].child = NoChild
  <2>1. c.node[x] = Node(s, x, x, p)
    BY DEF Hung
  <2>2. p \in Chunks \cup {NULL, BIN}
    BY <1>1, <1>5
  <2>. QED
    BY <1>1, <2>1, <2>2, NodeIs
<1>9. \A t \in Held(b) : \A e : Bits(c, t, e) = Bits(b, t, e) /\ Turn(c, t, e) = Turn(b, t, e)
  BY <1>7 DEF Bits, Turn
<1>10. \A e : Bits(c, x, e) = Prefix(s, i, e) /\ Turn(c, x, e) = Branch(s, i, e)
  BY <1>8 DEF Bits, Turn
<1>11. new[x] = d /\ \A t \in T : t # x /\ new[t] = dep[t]
  BY <1>1 DEF Deeper
<1>12. ASSUME NEW t \in U PROVE Hangs(c, U, new, t)
  <2>1. CASE t = x
    <3>1. new[x] \in 0..Levels(c.node[x].index)
      BY <1>2, <1>8, <1>11
    <3>2. CASE p = BIN
      <4>1. new[x] = 0 /\ c.head[c.node[x].index] = x /\ c.node[x].parent = BIN
        BY <1>3, <1>4, <1>6, <1>8, <1>11, <3>2
      <4>. QED
        BY <2>1, <3>1, <4>1 DEF Hangs
    <3>3. CASE p # BIN
      <4>1. p \in U /\ c.node[p].index = c.node[x].index /\ new[x] = new[p] + 1 /\ new[p] = dep[p]
            /\ c.node[x].parent = p
        BY <1>5, <1>7, <1>8, <1>11, <3>3
      <4>2. c.node[p].child[Turn(c, x, dep[p])] = x
        BY <1>5, <1>7, <1>10, <3>3
      <4>3. Bits(c, x, dep[p]) = Bits(c, p, dep[p])
        BY <1>5, <1>9, <1>10, <3>3
      <4>. HIDE DEF U, new
      <4>. QED
        BY <2>1, <3>1, <4>1, <4>2, <4>3 DEF Hangs
    <3>. QED
      BY <3>2, <3>3
  <2>2. CASE t \in T
    <3>1. t \in Held(b) /\ new[t] = dep[t] /\ c.node[t].parent = b.node[t].parent
          /\ dep[t] \in 0..Levels(c.node[t].index)
      BY <1>1, <1>7, <1>11, <2>2, InTrie
    <3>2. CASE b.node[t].parent = BIN
      <4>1. dep[t] = 0 /\ b.head[b.node[t].index] = t /\ b.node[t].index \in b.treemap
            /\ b.node[t].index \in Bins
        BY <1>1, <2>2, <3>2, RootOf, InTrie
      <4>2. c.head[c.node[t].index] = t
        BY <1>4, <1>6, <1>7, <3>1, <4>1
      <4>. HIDE DEF U, new
      <4>. QED
        BY <3>1, <3>2, <4>1, <4>2 DEF Hangs
    <3>3. CASE b.node[t].parent # BIN
      <4>. DEFINE q == b.node[t].parent
                  j == Turn(b, t, dep[q])
      <4>1. /\ q \in T /\ b.node[q].index = b.node[t].index
            /\ dep[t] = dep[q] + 1
            /\ b.node[q].child[j] = t
            /\ Bits(b, t, dep[q]) = Bits(b, q, dep[q])
            /\ j \in {0, 1}
        BY <1>1, <2>2, <3>3, HangsFrom
      <4>. HIDE DEF q
      <4>2. Turn(c, t, dep[q]) = j
        BY <1>9, <3>1
      <4>. HIDE DEF j
      <4>3. q \in Held(b) /\ q \in U /\ new[q] = dep[q] /\ t # NULL
        BY <1>1, <1>11, <3>1, <4>1, Names
      <4>4. c.node[q].child[j] = t
        BY <1>5, <1>7, <4>1, <4>3
      <4>5. c.node[q].index = c.node[t].index /\ Bits(c, t, dep[q]) = Bits(c, q, dep[q])
            /\ c.node[t].parent = q
        BY <1>7, <1>9, <3>1, <4>1, <4>3 DEF q
      <4>. HIDE DEF U, new
      <4>. QED
        BY <3>1, <4>1, <4>2, <4>3, <4>4, <4>5 DEF Hangs
    <3>. QED
      BY <3>2, <3>3
  <2>. QED
    BY <2>1, <2>2
<1>13. ASSUME NEW t \in U PROVE Holds(c, U, new, t)
  <2>. SUFFICES ASSUME NEW e \in {0, 1}, NEW h, h = c.node[t].child[e], h # NULL
                PROVE  h \in U /\ c.node[h].parent = t /\ Turn(c, h, new[t]) = e
    BY DEF Holds
  <2>1. t # x
    BY <1>8 DEF NoChild
  <2>2. t \in T /\ t \in Held(b) /\ new[t] = dep[t]
    BY <1>1, <1>11, <2>1
  <2>3. CASE p # BIN /\ t = p /\ e = k
    <3>1. h = x
      BY <1>7, <2>2, <2>3
    <3>. QED
      BY <1>8, <1>10, <2>2, <2>3, <3>1
  <2>4. CASE ~(p # BIN /\ t = p /\ e = k)
    <3>1. h = b.node[t].child[e]
      BY <1>7, <2>2, <2>4
    <3>2. h \in T /\ b.node[h].parent = t /\ Turn(b, h, dep[t]) = e
      BY <1>1, <2>2, <3>1, ChildIn
    <3>3. h \in Held(b)
      BY <1>1, <3>2
    <3>. QED
      BY <1>7, <1>9, <2>2, <3>2, <3>3
  <2>. QED
    BY <2>3, <2>4
<1>14. RootsOk(c, U, new)
  <2>1. b.treemap = {j \in Bins : b.head[j] # NULL}
    BY <1>1 DEF Tries, RootsOk
  <2>2. c.treemap = {j \in Bins : c.head[j] # NULL}
    BY <1>3, <1>6, <2>1
  <2>3. ASSUME NEW j \in c.treemap
        PROVE  c.head[j] \in U /\ c.node[c.head[j]].index = j /\ c.node[c.head[j]].parent = BIN
    <3>1. CASE p = BIN /\ j = i
      BY <1>3, <1>6, <1>8, <3>1
    <3>2. CASE ~(p = BIN /\ j = i)
      <4>. DEFINE h == b.head[j]
      <4>1. j \in Bins /\ j \in b.treemap
        BY <1>6, <2>2, <2>3, <3>2
      <4>2. h \in T /\ b.node[h].index = j /\ b.node[h].parent = BIN
        BY <1>1, <4>1, RootIn
      <4>3. c.head[j] = h
        BY <1>6, <3>2, <4>1
      <4>. HIDE DEF h
      <4>4. h \in Held(b)
        BY <1>1, <4>2
      <4>. QED
        BY <1>7, <4>2, <4>3, <4>4
    <3>. QED
      BY <3>1, <3>2
  <2>. QED
    BY <2>2, <2>3 DEF RootsOk
<1>15. SizesOnce(c, U)
  <2>1. SizesOnce(b, T)
    BY <1>1 DEF Tries
  <2>2. \A t \in T : c.node[t].size = b.node[t].size /\ b.node[t].size # s
    BY <1>1, <1>2, <1>7
  <2>. QED
    BY <1>8, <2>1, <2>2 DEF SizesOnce
<1>16. PlacesOnce(c, U, new)
  <2>1. PlacesOnce(b, T, dep)
    BY <1>1 DEF Tries
  <2>2. \A t \in T : /\ c.node[t].index = b.node[t].index /\ new[t] = dep[t] /\ t # x
                     /\ \A e : Bits(c, t, e) = Bits(b, t, e)
    BY <1>1, <1>7, <1>9, <1>11
  <2>. HIDE DEF new
  <2>3. ASSUME NEW t \in U, NEW u \in U, SamePlace(c, new, t, u) PROVE t = u
    <3>1. c.node[t].index = c.node[u].index /\ new[t] = new[u] /\ Bits(c, t, new[t]) = Bits(c, u, new[t])
      BY <2>3 DEF SamePlace
    <3>2. CASE t \in T /\ u \in T
      <4>1. SamePlace(b, dep, t, u)
        BY <2>2, <3>1, <3>2 DEF SamePlace
      <4>. QED
        BY <2>1, <3>2, <4>1 DEF PlacesOnce
    <3>3. CASE t = x /\ u = x
      BY <3>3
    <3>4. CASE t = x /\ u \in T
      BY <1>2, <1>8, <1>10, <1>11, <2>2, <3>1, <3>4
    <3>5. CASE t \in T /\ u = x
      BY <1>2, <1>8, <1>10, <1>11, <2>2, <3>1, <3>5
    <3>. QED
      BY <3>2, <3>3, <3>4, <3>5
  <2>. QED
    BY <2>3 DEF PlacesOnce
<1>17. U \subseteq Held(c)
  BY <1>1, <1>6
<1>. HIDE DEF U, new
<1>18. Tries(c, U, new)
  BY <1>12, <1>13, <1>14, <1>15, <1>16, <1>17 DEF Tries
<1>. QED
  BY <1>18 DEF U, new

\* The bins are b with chunk x of size s.
Joined(b, c, x, s) ==
    /\ TriesInv(c) /\ Held(c) = Held(b) \cup {x}
    /\ c.node[x].size = s
    /\ \A t \in Held(b) : c.node[t].size = b.node[t].size

\* The bins keep the invariant with such a chunk.
LEMMA HungJoins ==
    ASSUME NEW b, NEW T, NEW dep, NEW x, NEW s, NEW p, NEW d, Comes(b, T, dep, x, s, p, d),
           NEW c, Hung(b, c, dep, x, s, p), b.aborted = FALSE, Rings(b),
           \A t \in Held(b) : t \in T <=> b.node[t].parent # NULL
    PROVE  Joined(b, c, x, s)
<1>. DEFINE U == T \cup {x}
            new == Deeper(T, dep, x, d)
<1>1. /\ Good(b, T, dep) /\ x \in Chunks /\ x \notin Held(b) /\ s \in LargeSizes
      /\ BinsOk(b) /\ T \subseteq Held(b) /\ x \notin T /\ Held(b) \subseteq Chunks
      /\ (p = BIN \/ p \in T)
  BY DEF Comes, Good, Tries, BinsOk
<1>2. Tries(c, U, new)
  BY HungTries
<1>3. /\ BinsOk(c) /\ Held(c) = Held(b) \cup {x} /\ c.aborted = FALSE
      /\ \A t \in Held(b) : /\ c.node[t].size = b.node[t].size
                            /\ c.node[t].fd = b.node[t].fd /\ c.node[t].bk = b.node[t].bk
                            /\ c.node[t].parent = b.node[t].parent
      /\ \A t \in Held(b) \ T, e \in {0, 1} : c.node[t].child[e] = b.node[t].child[e]
  BY <1>1, Names DEF Hung
<1>4. /\ c.node[x].size = s /\ c.node[x].fd = x /\ c.node[x].bk = x /\ c.node[x].parent = p
      /\ p # NULL
  <2>1. p \in Chunks \cup {BIN} /\ p # NULL
    BY <1>1, Names
  <2>2. c.node[x] = Node(s, x, x, p)
    BY DEF Hung
  <2>. QED
    BY <1>1, <2>1, <2>2, NodeIs
<1>5. U = Trie(c)
  <2>1. \A t \in Held(c) : t \in U <=> c.node[t].parent # NULL
    BY <1>1, <1>3, <1>4
  <2>2. U \subseteq Held(c)
    BY <1>1, <1>3
  <2>. QED
    BY <2>1, <2>2 DEF Trie
<1>6. Outside(c, U)
  <2>. SUFFICES ASSUME NEW t \in Held(c) \ U PROVE c.node[t].child = NoChild
    BY DEF Outside
  <2>1. t \in Held(b) \ T
    BY <1>3
  <2>2. b.node[t].child = NoChild
    BY <1>1, <2>1 DEF Good, Outside
  <2>3. \A e \in {0, 1} : c.node[t].child[e] = NULL
    BY <1>3, <2>1, <2>2 DEF NoChild
  <2>4. c.node[t].child \in [{0, 1} -> Chunks \cup {NULL}]
    BY <1>3, NodeFacts
  <2>. QED
    BY <2>3, <2>4 DEF NoChild
<1>7. Rings(c)
  <2>. SUFFICES ASSUME NEW t \in Held(c)
                PROVE  /\ c.node[t].fd \in Held(c) /\ c.node[t].bk \in Held(c)
                       /\ c.node[c.node[t].fd].bk = t /\ c.node[c.node[t].bk].fd = t
                       /\ c.node[c.node[t].fd].size = c.node[t].size
    BY DEF Rings
  <2>1. CASE t = x
    BY <1>3, <1>4, <2>1
  <2>2. CASE t # x
    <3>1. t \in Held(b)
      BY <1>3, <2>2
    <3>2. /\ b.node[t].fd \in Held(b) /\ b.node[t].bk \in Held(b)
          /\ b.node[b.node[t].fd].bk = t /\ b.node[b.node[t].bk].fd = t
          /\ b.node[b.node[t].fd].size = b.node[t].size
      BY <3>1 DEF Rings
    <3>. QED
      BY <1>3, <3>1, <3>2
  <2>. QED
    BY <2>1, <2>2
<1>. HIDE DEF U, new
<1>8. TriesInv(c)
  BY <1>2, <1>3, <1>5, <1>6, <1>7 DEF TriesInv
<1>. QED
  BY <1>3, <1>4, <1>8 DEF Joined

\* insert_large_chunk into an empty bin.
LEMMA RootHung ==
    ASSUME NEW b, BinsOk(b), NEW x \in Chunks, x \notin Held(b), NEW s \in LargeSizes, NEW dep
    PROVE  Hung(b, [AddNode(b, x, Node(s, x, x, BIN))
                      EXCEPT !.treemap = @ \cup {TreeIndex(s)}, !.head[TreeIndex(s)] = x], dep, x, s, BIN)
<1>. DEFINE i == TreeIndex(s)
            n == Node(s, x, x, BIN)
            a == AddNode(b, x, n)
            c == [a EXCEPT !.treemap = @ \cup {i}, !.head[i] = x]
<1>1. i \in Bins
  BY IndexOf
<1>2. n \in NodeRecords /\ n.size = s /\ n.index = i
  BY NodeIs
<1>. HIDE DEF n
<1>3. Added(b, a, x, n)
  BY <1>2, AddIs
<1>. HIDE DEF a, i
<1>4. /\ BinsOk(a) /\ Held(a) = Held(b) \cup {x}
      /\ a.head = b.head /\ a.treemap = b.treemap /\ a.aborted = b.aborted
      /\ a.node[x] = n
      /\ \A t \in Held(b) : a.node[t] = b.node[t]
  BY <1>3 DEF Added
<1>5. a = [head |-> a.head, treemap |-> a.treemap, node |-> a.node, aborted |-> a.aborted]
      /\ a.head \in [Bins -> Chunks \cup {NULL}]
      /\ Held(a) \subseteq Chunks /\ a.node \in [Held(a) -> NodeRecords]
      /\ \A t \in Held(a) : a.node[t].index = TreeIndex(a.node[t].size)
  BY <1>4 DEF BinsOk
<1>. DEFINE h == [a.head EXCEPT ![i] = x]
            M == a.treemap \cup {i}
<1>6. c = [head |-> h, treemap |-> M, node |-> a.node, aborted |-> a.aborted]
  <2>1. c = [a EXCEPT !.treemap = M, !.head[i] = x]
    BY Zenon
  <2>. HIDE DEF M, c
  <2>. QED
    BY <1>5, <2>1
<1>7. h \in [Bins -> Chunks \cup {NULL}] /\ \A j \in Bins : h[j] = IF j = i THEN x ELSE a.head[j]
  BY <1>1, <1>5
<1>. HIDE DEF h, M, c
<1>8. c.head = h /\ c.treemap = M /\ c.node = a.node /\ c.aborted = a.aborted
  BY <1>6
<1>9. Held(c) = Held(a)
  BY <1>8 DEF Held
<1>10. BinsOk(c)
  BY <1>5, <1>6, <1>7, <1>8, <1>9 DEF BinsOk
<1>11. c.treemap = b.treemap \cup {i}
  BY <1>4, <1>8 DEF M
<1>12. \A j \in Bins : c.head[j] = IF j = i THEN x ELSE b.head[j]
  BY <1>4, <1>7, <1>8
<1>13. c.node[x] = n /\ \A t \in Held(b) : c.node[t] = b.node[t]
  BY <1>4, <1>8
<1>14. Hung(b, c, dep, x, s, BIN)
  BY <1>4, <1>8, <1>9, <1>10, <1>11, <1>12, <1>13 DEF Hung, i, n
<1>. QED
  BY <1>14, Zenon DEF c, a, i, n

\* insert_large_chunk where a path ends without the size.
LEMMA LeafHung ==
    ASSUME NEW b, BinsOk(b), NEW x \in Chunks, x \notin Held(b), NEW s \in LargeSizes, NEW dep,
           NEW p \in Held(b), dep[p] \in Nat
    PROVE  Hung(b, [AddNode(b, x, Node(s, x, x, p))
                      EXCEPT !.node[p].child[Branch(s, TreeIndex(s), dep[p])] = x], dep, x, s, p)
<1>. DEFINE i == TreeIndex(s)
            k == Branch(s, i, dep[p])
            n == Node(s, x, x, p)
            a == AddNode(b, x, n)
            c == [a EXCEPT !.node[p].child[k] = x]
<1>1. i \in Bins /\ k \in {0, 1} /\ p \in Chunks /\ p # BIN /\ p # x
  <2>1. i \in Bins /\ p \in Chunks /\ p # BIN /\ p # x
    BY IndexOf, Names DEF BinsOk
  <2>. QED
    BY <2>1, Sizes, BranchBit
<1>2. n \in NodeRecords /\ n.size = s /\ n.index = i
  BY <1>1, NodeIs
<1>. HIDE DEF n, k
<1>3. Added(b, a, x, n)
  BY <1>2, AddIs
<1>. HIDE DEF a, i
<1>4. /\ BinsOk(a) /\ Held(a) = Held(b) \cup {x}
      /\ a.head = b.head /\ a.treemap = b.treemap /\ a.aborted = b.aborted
      /\ a.node[x] = n
      /\ \A t \in Held(b) : a.node[t] = b.node[t]
  BY <1>3 DEF Added
<1>5. a = [head |-> a.head, treemap |-> a.treemap, node |-> a.node, aborted |-> a.aborted]
      /\ a.head \in [Bins -> Chunks \cup {NULL}]
      /\ Held(a) \subseteq Chunks /\ a.node \in [Held(a) -> NodeRecords]
      /\ \A t \in Held(a) : a.node[t].index = TreeIndex(a.node[t].size)
  BY <1>4 DEF BinsOk
<1>. DEFINE N == [a.node EXCEPT ![p].child[k] = x]
<1>6. c = [head |-> a.head, treemap |-> a.treemap, node |-> N, aborted |-> a.aborted]
  BY <1>5
<1>7. /\ DOMAIN N = Held(a) /\ N[p] = [a.node[p] EXCEPT !.child[k] = x]
      /\ \A t \in Held(a) : t # p => N[t] = a.node[t]
  BY <1>4, <1>5
<1>8. N = [t \in DOMAIN N |-> N[t]]
  BY <1>4, <1>5
<1>. HIDE DEF N, c
<1>9. a.node[p] \in NodeRecords /\ p \in Held(a)
  BY <1>4, <1>5
<1>10. /\ N[p] \in NodeRecords
       /\ N[p].size = a.node[p].size /\ N[p].index = a.node[p].index
       /\ N[p].fd = a.node[p].fd /\ N[p].bk = a.node[p].bk /\ N[p].parent = a.node[p].parent
       /\ N[p].child = [a.node[p].child EXCEPT ![k] = x]
  BY <1>1, <1>7, <1>9 DEF NodeRecords
<1>11. \A e \in {0, 1} : N[p].child[e] = IF e = k THEN x ELSE a.node[p].child[e]
  <2>1. a.node[p].child \in [{0, 1} -> Chunks \cup {NULL}]
    BY <1>9 DEF NodeRecords
  <2>. QED
    BY <1>1, <1>10, <2>1
<1>12. c.head = a.head /\ c.treemap = a.treemap /\ c.node = N /\ c.aborted = a.aborted
  BY <1>6
<1>13. Held(c) = Held(a)
  BY <1>7, <1>12 DEF Held
<1>14. \A t \in Held(a) : N[t] \in NodeRecords
  BY <1>5, <1>7, <1>10
<1>15. \A t \in Held(a) : /\ N[t].size = a.node[t].size /\ N[t].index = a.node[t].index
                          /\ N[t].fd = a.node[t].fd /\ N[t].bk = a.node[t].bk
                          /\ N[t].parent = a.node[t].parent
  BY <1>7, <1>10
<1>16. BinsOk(c)
  <2>1. N \in [Held(a) -> NodeRecords]
    BY <1>7, <1>8, <1>14
  <2>2. c.node \in [Held(c) -> NodeRecords]
    BY <1>12, <1>13, <2>1
  <2>3. \A t \in Held(c) : c.node[t].index = TreeIndex(c.node[t].size)
    BY <1>5, <1>12, <1>13, <1>15
  <2>4. c = [head |-> c.head, treemap |-> c.treemap, node |-> c.node, aborted |-> c.aborted]
    BY <1>6, <1>12
  <2>5. c.head \in [Bins -> Chunks \cup {NULL}] /\ Held(c) \subseteq Chunks
    BY <1>5, <1>12, <1>13
  <2>. QED
    BY ONLY <2>2, <2>3, <2>4, <2>5 DEF BinsOk
<1>17. c.node[x] = n
  BY <1>1, <1>4, <1>7, <1>12
<1>18. \A t \in Held(b) : /\ c.node[t].size = b.node[t].size /\ c.node[t].index = b.node[t].index
                          /\ c.node[t].fd = b.node[t].fd /\ c.node[t].bk = b.node[t].bk
                          /\ c.node[t].parent = b.node[t].parent
  BY <1>4, <1>12, <1>15
<1>19. \A t \in Held(b), e \in {0, 1} :
           c.node[t].child[e] = IF p # BIN /\ t = p /\ e = k THEN x ELSE b.node[t].child[e]
  BY <1>1, <1>4, <1>7, <1>11, <1>12
<1>20. \A j \in Bins : c.head[j] = IF p = BIN /\ j = i THEN x ELSE b.head[j]
  BY <1>1, <1>4, <1>12
<1>21. c.treemap = IF p = BIN THEN b.treemap \cup {i} ELSE b.treemap
  BY <1>1, <1>4, <1>12
<1>22. Hung(b, c, dep, x, s, p)
  BY <1>4, <1>12, <1>13, <1>16, <1>17, <1>18, <1>19, <1>20, <1>21 DEF Hung, i, n, k
<1>. QED
  BY <1>22, Zenon DEF c, a, i, n, k

\* Chunk x may join the ring of t, whose next is f.
JoinsRing(b, T, dep, x, s, t, f) ==
    /\ Good(b, T, dep) /\ Rings(b) /\ b.aborted = FALSE
    /\ \A u \in Held(b) : u \in T <=> b.node[u].parent # NULL
    /\ x \in Chunks /\ x \notin Held(b)
    /\ t \in T /\ s = b.node[t].size /\ f = b.node[t].fd

\* What the pointers are then.
Ringed(b, c, T, x, s, t, f) ==
    /\ BinsOk(c) /\ Held(c) = Held(b) \cup {x}
    /\ c.head = b.head /\ c.treemap = b.treemap /\ c.aborted = FALSE
    /\ \A u \in Held(b) :
         /\ c.node[u].size = b.node[u].size /\ c.node[u].index = b.node[u].index
         /\ c.node[u].parent = b.node[u].parent /\ c.node[u].child = b.node[u].child
         /\ c.node[u].fd = IF u = t THEN x ELSE b.node[u].fd
         /\ c.node[u].bk = IF u = f THEN x ELSE b.node[u].bk
    /\ c.node[x].size = s /\ c.node[x].parent = NULL /\ c.node[x].child = NoChild
    /\ c.node[x].fd = f /\ c.node[x].bk = t

\* insert_large_chunk changes the pointers where a path ends with the size.
LEMMA RingedIs ==
    ASSUME NEW b, NEW T, NEW dep, NEW x, NEW s, NEW t, NEW f, JoinsRing(b, T, dep, x, s, t, f)
    PROVE  Ringed(b, [AddNode(b, x, Node(s, f, t, NULL)) EXCEPT !.node[t].fd = x, !.node[f].bk = x], T, x, s, t, f)
<1>. DEFINE n == Node(s, f, t, NULL)
            a == AddNode(b, x, n)
            c == [a EXCEPT !.node[t].fd = x, !.node[f].bk = x]
<1>a. /\ Good(b, T, dep) /\ Rings(b) /\ b.aborted = FALSE
      /\ x \in Chunks /\ x \notin Held(b)
      /\ t \in T /\ s = b.node[t].size /\ f = b.node[t].fd
  BY DEF JoinsRing
<1>b. \A u \in Held(b) : u \in T <=> b.node[u].parent # NULL
  BY DEF JoinsRing
<1>0. BinsOk(b) /\ t \in Held(b) /\ s \in LargeSizes /\ t \in Chunks /\ T \subseteq Held(b) /\ Tries(b, T, dep)
  BY <1>a, InTrie DEF Good, Tries
<1>1. \A u \in Held(b) :
        /\ b.node[u].fd \in Held(b) /\ b.node[u].bk \in Held(b)
        /\ b.node[b.node[u].fd].bk = u /\ b.node[b.node[u].bk].fd = u
        /\ b.node[b.node[u].fd].size = b.node[u].size
  BY <1>a DEF Rings
<1>2. f \in Held(b) /\ f \in Chunks /\ b.node[f].bk = t /\ b.node[f].size = s /\ f # x /\ t # x
  BY <1>a, <1>0, <1>1 DEF BinsOk
<1>3. /\ n \in NodeRecords /\ n.size = s /\ n.index = TreeIndex(s) /\ n.fd = f /\ n.bk = t
      /\ n.parent = NULL /\ n.child = NoChild
  BY <1>0, <1>2, NodeIs
<1>. HIDE DEF n
<1>4. Added(b, a, x, n)
  BY <1>a, <1>0, <1>3, AddIs
<1>. HIDE DEF a
<1>5. /\ BinsOk(a) /\ Held(a) = Held(b) \cup {x}
      /\ a.head = b.head /\ a.treemap = b.treemap /\ a.aborted = FALSE
      /\ a.node[x] = n
      /\ \A u \in Held(b) : a.node[u] = b.node[u]
  BY <1>a, <1>4 DEF Added
<1>6. a = [head |-> a.head, treemap |-> a.treemap, node |-> a.node, aborted |-> a.aborted]
      /\ a.head \in [Bins -> Chunks \cup {NULL}]
      /\ Held(a) \subseteq Chunks /\ a.node \in [Held(a) -> NodeRecords]
      /\ \A u \in Held(a) : a.node[u].index = TreeIndex(a.node[u].size)
  BY <1>5 DEF BinsOk
<1>. DEFINE M == [a.node EXCEPT ![t].fd = x]
            N == [M EXCEPT ![f].bk = x]
<1>7. c = [head |-> a.head, treemap |-> a.treemap, node |-> N, aborted |-> a.aborted]
  <2>1. c = [a EXCEPT !.node[t].fd = x, !.node[f].bk = x]
    OBVIOUS
  <2>2. a = [head |-> a.head, treemap |-> a.treemap, node |-> a.node, aborted |-> a.aborted]
    BY <1>6
  <2>. HIDE DEF c
  <2>. QED
    BY ONLY <2>1, <2>2
<1>8. /\ DOMAIN M = Held(a) /\ M[t] = [a.node[t] EXCEPT !.fd = x]
      /\ \A u \in Held(a) : u # t => M[u] = a.node[u]
  BY <1>0, <1>5, <1>6
<1>9. /\ DOMAIN N = Held(a) /\ N[f] = [M[f] EXCEPT !.bk = x]
      /\ \A u \in Held(a) : u # f => N[u] = M[u]
  <2>. HIDE DEF M
  <2>. QED
    BY <1>2, <1>5, <1>8
<1>10. N = [u \in DOMAIN N |-> N[u]]
  OBVIOUS
<1>. HIDE DEF M, N, c
<1>11. ASSUME NEW u \in Held(a)
       PROVE  /\ M[u] \in NodeRecords
              /\ M[u].size = a.node[u].size /\ M[u].index = a.node[u].index
              /\ M[u].parent = a.node[u].parent /\ M[u].child = a.node[u].child
              /\ M[u].bk = a.node[u].bk
              /\ M[u].fd = IF u = t THEN x ELSE a.node[u].fd
  <2>1. a.node[u] \in NodeRecords
    BY <1>6
  <2>2. CASE u = t
    BY <1>a, <1>8, <2>1, <2>2 DEF NodeRecords
  <2>3. CASE u # t
    BY <1>8, <2>1, <2>3
  <2>. QED
    BY <2>2, <2>3
<1>12. ASSUME NEW u \in Held(a)
       PROVE  /\ N[u] \in NodeRecords
              /\ N[u].size = a.node[u].size /\ N[u].index = a.node[u].index
              /\ N[u].parent = a.node[u].parent /\ N[u].child = a.node[u].child
              /\ N[u].fd = IF u = t THEN x ELSE a.node[u].fd
              /\ N[u].bk = IF u = f THEN x ELSE a.node[u].bk
  <2>1. M[u] \in NodeRecords
    BY <1>11
  <2>2. CASE u = f
    <3>1. /\ N[u] \in NodeRecords
          /\ N[u].size = M[u].size /\ N[u].index = M[u].index
          /\ N[u].parent = M[u].parent /\ N[u].child = M[u].child
          /\ N[u].bk = x /\ N[u].fd = M[u].fd
      BY <1>a, <1>9, <2>1, <2>2 DEF NodeRecords
    <3>. QED
      BY <1>11, <2>2, <3>1
  <2>3. CASE u # f
    BY <1>9, <1>11, <2>3
  <2>. QED
    BY <2>2, <2>3
<1>13. c.head = b.head /\ c.treemap = b.treemap /\ c.node = N /\ c.aborted = FALSE
  BY <1>5, <1>7
<1>14. Held(c) = Held(a)
  BY <1>9, <1>13 DEF Held
<1>15. BinsOk(c)
  <2>1. N \in [Held(a) -> NodeRecords]
    BY <1>9, <1>10, <1>12
  <2>2. c.node \in [Held(c) -> NodeRecords]
    BY <1>13, <1>14, <2>1
  <2>3. \A u \in Held(c) : c.node[u].index = TreeIndex(c.node[u].size)
    BY <1>6, <1>12, <1>13, <1>14
  <2>4. c = [head |-> c.head, treemap |-> c.treemap, node |-> c.node, aborted |-> c.aborted]
    BY <1>7
  <2>5. c.head \in [Bins -> Chunks \cup {NULL}] /\ Held(c) \subseteq Chunks
    BY <1>5, <1>6, <1>13, <1>14
  <2>. QED
    BY ONLY <2>2, <2>3, <2>4, <2>5 DEF BinsOk
<1>16. \A u \in Held(b) :
         /\ c.node[u].size = b.node[u].size /\ c.node[u].index = b.node[u].index
         /\ c.node[u].parent = b.node[u].parent /\ c.node[u].child = b.node[u].child
         /\ c.node[u].fd = IF u = t THEN x ELSE b.node[u].fd
         /\ c.node[u].bk = IF u = f THEN x ELSE b.node[u].bk
  BY <1>5, <1>12, <1>13
<1>17. /\ c.node[x].size = s /\ c.node[x].parent = NULL /\ c.node[x].child = NoChild
       /\ c.node[x].fd = f /\ c.node[x].bk = t
  <2>1. x \in Held(a) /\ a.node[x] = n
    BY <1>5
  <2>. QED
    BY <1>2, <1>3, <1>12, <1>13, <2>1
<1>18. Held(c) = Held(b) \cup {x}
  BY <1>5, <1>14
<1>19. Ringed(b, c, T, x, s, t, f)
  BY ONLY <1>13, <1>15, <1>16, <1>17, <1>18, <1>5, Zenon DEF Ringed
<1>. QED
  BY <1>19, Zenon DEF c, a, n

\* insert_large_chunk where a path ends with the size.
LEMMA RingJoins ==
    ASSUME NEW b, NEW T, NEW dep, NEW x, NEW s, NEW t, NEW f, JoinsRing(b, T, dep, x, s, t, f)
    PROVE  Joined(b, [AddNode(b, x, Node(s, f, t, NULL)) EXCEPT !.node[t].fd = x, !.node[f].bk = x], x, s)
<1>. DEFINE c == [AddNode(b, x, Node(s, f, t, NULL)) EXCEPT !.node[t].fd = x, !.node[f].bk = x]
<1>5a. Ringed(b, c, T, x, s, t, f)
  BY RingedIs
<1>. HIDE DEF c
<1>a. /\ Good(b, T, dep) /\ Rings(b) /\ b.aborted = FALSE
      /\ x \in Chunks /\ x \notin Held(b)
      /\ t \in T /\ s = b.node[t].size /\ f = b.node[t].fd
  BY DEF JoinsRing
<1>b. \A u \in Held(b) : u \in T <=> b.node[u].parent # NULL
  BY DEF JoinsRing
<1>0. BinsOk(b) /\ t \in Held(b) /\ s \in LargeSizes /\ t \in Chunks /\ T \subseteq Held(b) /\ Tries(b, T, dep)
  BY <1>a, InTrie DEF Good, Tries
<1>1. \A u \in Held(b) :
        /\ b.node[u].fd \in Held(b) /\ b.node[u].bk \in Held(b)
        /\ b.node[b.node[u].fd].bk = u /\ b.node[b.node[u].bk].fd = u
        /\ b.node[b.node[u].fd].size = b.node[u].size
  BY <1>a DEF Rings
<1>2. f \in Held(b) /\ f \in Chunks /\ b.node[f].bk = t /\ b.node[f].size = s /\ f # x /\ t # x
  BY <1>a, <1>0, <1>1 DEF BinsOk
<1>5. /\ BinsOk(c) /\ Held(c) = Held(b) \cup {x}
      /\ c.head = b.head /\ c.treemap = b.treemap /\ c.aborted = FALSE
  BY <1>5a DEF Ringed
<1>16. \A u \in Held(b) :
         /\ c.node[u].size = b.node[u].size /\ c.node[u].index = b.node[u].index
         /\ c.node[u].parent = b.node[u].parent /\ c.node[u].child = b.node[u].child
         /\ c.node[u].fd = IF u = t THEN x ELSE b.node[u].fd
         /\ c.node[u].bk = IF u = f THEN x ELSE b.node[u].bk
  BY <1>5a DEF Ringed
<1>17. /\ c.node[x].size = s /\ c.node[x].parent = NULL /\ c.node[x].child = NoChild
       /\ c.node[x].fd = f /\ c.node[x].bk = t
  BY <1>5a DEF Ringed
<1>18. Rings(c)
  <2>. SUFFICES ASSUME NEW u \in Held(c)
                PROVE  /\ c.node[u].fd \in Held(c) /\ c.node[u].bk \in Held(c)
                       /\ c.node[c.node[u].fd].bk = u /\ c.node[c.node[u].bk].fd = u
                       /\ c.node[c.node[u].fd].size = c.node[u].size
    BY DEF Rings
  <2>0. Held(c) = Held(b) \cup {x}
    BY <1>5
  <2>1. CASE u = x
    BY <1>a, <1>0, <1>2, <1>16, <1>17, <2>0, <2>1
  <2>2. CASE u # x
    <3>1. /\ u \in Held(b) /\ b.node[u].fd \in Held(b) /\ b.node[u].bk \in Held(b)
          /\ b.node[b.node[u].fd].bk = u /\ b.node[b.node[u].bk].fd = u
          /\ b.node[b.node[u].fd].size = b.node[u].size
      BY <1>1, <2>0, <2>2
    <3>2. c.node[u].fd \in Held(c) /\ c.node[c.node[u].fd].bk = u /\ c.node[c.node[u].fd].size = c.node[u].size
      <4>1. CASE u = t
        BY <1>a, <1>16, <1>17, <2>0, <3>1, <4>1
      <4>2. CASE u # t
        <5>1. b.node[u].fd # f
          BY <1>a, <1>2, <3>1, <4>2
        <5>. QED
          BY <1>16, <2>0, <3>1, <4>2, <5>1
      <4>. QED
        BY <4>1, <4>2
    <3>3. c.node[u].bk \in Held(c) /\ c.node[c.node[u].bk].fd = u
      <4>1. CASE u = f
        BY <1>a, <1>16, <1>17, <2>0, <3>1, <4>1
      <4>2. CASE u # f
        <5>1. b.node[u].bk # t
          BY <1>a, <3>1, <4>2
        <5>. QED
          BY <1>16, <2>0, <3>1, <4>2, <5>1
      <4>. QED
        BY <4>1, <4>2
    <3>. QED
      BY <3>2, <3>3
  <2>. QED
    BY <2>1, <2>2
<1>19. Tries(c, T, dep)
  <2>1. SameTries(b, c, T)
    BY <1>0, <1>5, <1>16 DEF SameTries
  <2>. QED
    BY <1>0, <2>1, TriesKept
<1>20. T = Trie(c)
  <2>1. T \subseteq Held(c) /\ \A u \in Held(c) : u \in T <=> c.node[u].parent # NULL
    BY <1>b, <1>0, <1>5, <1>16, <1>17
  <2>. QED
    BY <2>1 DEF Trie
<1>21. Outside(c, T)
  <2>. SUFFICES ASSUME NEW u \in Held(c), u \notin T PROVE c.node[u].child = NoChild
    BY DEF Outside
  <2>1. CASE u = x
    BY <1>17, <2>1
  <2>2. CASE u # x
    <3>1. u \in Held(b)
      BY <1>5, <2>2
    <3>. QED
      BY <1>a, <1>16, <3>1 DEF Good, Outside
  <2>. QED
    BY <2>1, <2>2
<1>22. TriesInv(c)
  BY <1>5, <1>18, <1>19, <1>20, <1>21 DEF TriesInv
<1>23. Joined(b, c, x, s)
  BY <1>5, <1>16, <1>17, <1>22 DEF Joined
<1>. QED
  BY <1>23 DEF c

\* insert_large_chunk adds one chunk to the bins and keeps the invariant.
LEMMA Inserted ==
    ASSUME NEW b, TriesInv(b), NEW x \in Chunks, x \notin Held(b), NEW s \in LargeSizes
    PROVE  Joined(b, InsertLargeChunk(b, x, s), x, s)
<1>1. PICK dep : Tries(b, Trie(b), dep)
  BY DEF TriesInv
<1>. DEFINE T == Trie(b)
            i == TreeIndex(s)
            path == Path(b, i, s)
            e == End(path)
            t == path[e]
            f == b.node[t].fd
<1>2. Good(b, T, dep) /\ b.aborted = FALSE /\ Rings(b) /\ BinsOk(b)
  BY <1>1 DEF TriesInv, Good
<1>3. \A u \in Held(b) : u \in T <=> b.node[u].parent # NULL
  BY DEF Trie
<1>. HIDE DEF T
<1>4. i \in Bins /\ Levels(i) \in 1..SizeBits
  BY IndexOf, LevelsOf
<1>5. CASE i \notin b.treemap
  <2>. DEFINE c == [AddNode(b, x, Node(s, x, x, BIN)) EXCEPT !.treemap = @ \cup {i}, !.head[i] = x]
  <2>1. InsertLargeChunk(b, x, s) = c
    BY <1>5, Zenon DEF InsertLargeChunk
  <2>2. Hung(b, c, dep, x, s, BIN)
    BY <1>2, RootHung
  <2>. HIDE DEF c
  <2>3. Comes(b, T, dep, x, s, BIN, 0)
    <3>1. \A u \in T : b.node[u].index = TreeIndex(b.node[u].size) /\ b.node[u].index # i
      BY <1>2, <1>5, BinMarked, InTrie
    <3>2. 0 \in 0..Levels(i)
      BY <1>4
    <3>. QED
      BY <1>2, <1>5, <3>1, <3>2 DEF Comes
  <2>. QED
    BY <1>2, <1>3, <2>1, <2>2, <2>3, HungJoins
<1>6. CASE i \in b.treemap
  <2>1. /\ t \in T /\ b.node[t].index = i /\ dep[t] = e /\ e \in Nat
        /\ Bits(b, t, e) = Prefix(s, i, e)
        /\ b.node[t].size # s => /\ b.node[t].child[Branch(s, i, e)] = NULL
                                 /\ e \in 0..(Levels(i) - 1)
    BY <1>2, <1>6, PathFinds
  <2>2. CASE b.node[t].size # s
    <3>. DEFINE c == [AddNode(b, x, Node(s, x, x, t)) EXCEPT !.node[t].child[Branch(s, i, e)] = x]
    <3>1. InsertLargeChunk(b, x, s) = c
      BY <1>6, <2>2, Zenon DEF InsertLargeChunk, SizeOf
    <3>2. Hung(b, c, dep, x, s, t)
      <4>1. t \in Held(b) /\ e = dep[t] /\ dep[t] \in Nat
        BY <1>2, <2>1, InTrie
      <4>. HIDE DEF t, e
      <4>. QED
        BY <1>2, <4>1, LeafHung
    <3>. HIDE DEF c
    <3>3. \A u \in T : b.node[u].size # s
      BY <1>2, <1>6, <2>2, NewSize
    <3>4. \A u \in T : b.node[u].index = i /\ dep[u] = e + 1 => Bits(b, u, e + 1) # Prefix(s, i, e + 1)
      <4>. HIDE DEF t, e
      <4>. QED
        BY <1>2, <2>1, <2>2, NewPlace
    <3>5. e + 1 \in 0..Levels(i)
      BY <1>4, <2>1, <2>2
    <3>6. Comes(b, T, dep, x, s, t, e + 1)
      <4>. HIDE DEF t, e
      <4>. QED
        BY <1>2, <2>1, <2>2, <3>3, <3>4, <3>5 DEF Comes
    <3>. QED
      BY <1>2, <1>3, <3>1, <3>2, <3>6, HungJoins
  <2>3. CASE b.node[t].size = s
    <3>. DEFINE c == [AddNode(b, x, Node(s, f, t, NULL)) EXCEPT !.node[t].fd = x, !.node[f].bk = x]
    <3>1. InsertLargeChunk(b, x, s) = c
      BY <1>6, <2>3, Zenon DEF InsertLargeChunk, SizeOf
    <3>2. JoinsRing(b, T, dep, x, s, t, f)
      <4>1. t \in T /\ s = b.node[t].size /\ f = b.node[t].fd
        BY <2>1, <2>3
      <4>. HIDE DEF t, f
      <4>. QED
        BY <1>2, <1>3, <4>1 DEF JoinsRing
    <3>3. Joined(b, c, x, s)
      <4>. HIDE DEF t, f, T
      <4>. QED
        BY ONLY <3>2, RingJoins, Zenon
    <3>. QED
      BY <3>1, <3>3
  <2>. QED
    BY <2>2, <2>3
<1>. QED
  BY <1>5, <1>6

-----------------------------------------------------------------------------
(* The invariant. *)

\* The empty bins have the invariant.
LEMMA EmptyBins ==
    ASSUME NEW b, b = [head |-> [i \in Bins |-> NULL], treemap |-> {}, node |-> <<>>, aborted |-> FALSE]
    PROVE  TriesInv(b)
<1>. DEFINE h == [i \in Bins |-> NULL]
<1>1. b = [head |-> h, treemap |-> {}, node |-> <<>>, aborted |-> FALSE]
  OBVIOUS
<1>2. h \in [Bins -> Chunks \cup {NULL}] /\ \A i \in Bins : h[i] = NULL
  OBVIOUS
<1>. HIDE DEF h
<1>3. b.head = h /\ b.treemap = {} /\ b.node = <<>>
  BY <1>1
<1>4. b.aborted = FALSE
  BY <1>1
<1>5. Held(b) = {}
  BY <1>3 DEF Held
<1>6. BinsOk(b)
  <2>1. b.node \in [Held(b) -> NodeRecords]
    <3>1. <<>> \in [{} -> NodeRecords]
      OBVIOUS
    <3>. QED
      BY <1>3, <1>5, <3>1
  <2>2. b = [head |-> b.head, treemap |-> b.treemap, node |-> b.node, aborted |-> b.aborted]
    BY <1>1
  <2>. QED
    BY <1>2, <1>3, <1>5, <2>1, <2>2 DEF BinsOk
<1>7. Trie(b) = {}
  BY <1>5 DEF Trie
<1>8. Tries(b, Trie(b), <<>>)
  <2>1. b.treemap = {} /\ \A i \in Bins : b.head[i] = NULL
    BY <1>2, <1>3
  <2>2. RootsOk(b, {}, <<>>)
    BY <2>1 DEF RootsOk
  <2>3. SizesOnce(b, {}) /\ PlacesOnce(b, {}, <<>>)
    BY DEF SizesOnce, PlacesOnce
  <2>. QED
    BY <1>7, <2>2, <2>3 DEF Tries
<1>9. Rings(b) /\ Outside(b, Trie(b))
  BY <1>5 DEF Rings, Outside
<1>. QED
  BY <1>4, <1>6, <1>8, <1>9 DEF TriesInv

\* An insertion keeps the invariant.
LEMMA InsertKeeps ==
    ASSUME TriesInv(bins), NEW x \in Chunks, NEW s \in FreeSizes, insert_large_chunk(x, s)
    PROVE  TriesInv(bins')
<1>1. x \notin Held(bins) /\ bins' = InsertLargeChunk(bins, x, s) /\ s \in LargeSizes
  BY ChunkSizesAssumption DEF insert_large_chunk, InBins, Held
<1>. QED
  BY <1>1, Inserted DEF Joined

\* An unlinking keeps the invariant.
LEMMA UnlinkKeeps ==
    ASSUME TriesInv(bins), NEW x \in Chunks, unlink_large_chunk(x)
    PROVE  TriesInv(bins')
<1>1. x \in Held(bins) /\ bins' = UnlinkLargeChunk(bins, x)
  BY DEF unlink_large_chunk, InBins, Held
<1>. QED
  BY <1>1, Unlinked DEF Left

\* tmalloc_large keeps the invariant.
LEMMA LargeKeeps ==
    ASSUME TriesInv(bins), NEW nb \in Requests, NEW dvsize \in DvSizes, tmalloc_large(nb, dvsize)
    PROVE  TriesInv(bins')
<1>. DEFINE v == BestLarge(bins, nb)
            rest == Rest(bins, v, nb)
            c == UnlinkLargeChunk(bins, v)
<1>1. nb \in LargeSizes /\ nb \in Words
  BY ChunkSizesAssumption DEF tmalloc_large, LargeSizes
<1>2. BinsOk(bins) /\ \E dep : Good(bins, Trie(bins), dep)
  BY DEF TriesInv, Good
<1>3. v \in Held(bins) \cup {NULL}
  BY <1>1, <1>2, BestLargeIn
<1>4. CASE v = NULL \/ rest >= Minus(dvsize, nb)
  <2>1. UNCHANGED bins
    BY <1>4 DEF tmalloc_large
  <2>. QED
    BY <2>1
<1>5. CASE ~(v = NULL \/ rest >= Minus(dvsize, nb))
  <2>1. IF rest < MinLarge THEN bins' = c
        ELSE \E r \in Chunks \ DOMAIN c.node : bins' = InsertLargeChunk(c, r, rest)
    BY <1>5, Zenon DEF tmalloc_large
  <2>2. v \in Held(bins)
    BY <1>3, <1>5
  <2>3. TriesInv(c)
    BY <2>2, Unlinked DEF Left
  <2>4. rest \in Words
    <3>1. bins.node[v].size \in Words
      BY <1>2, <2>2, NodeFacts, Sizes
    <3>. QED
      BY <1>1, <3>1, MinusOf DEF Rest, SizeOf
  <2>. HIDE DEF c, rest
  <2>5. CASE rest < MinLarge
    BY <2>1, <2>3, <2>5
  <2>6. CASE ~(rest < MinLarge)
    <3>1. rest \in LargeSizes
      <4>1. rest \in Nat /\ MinLarge \in Nat
        BY <2>4, Sizes
      <4>. QED
        BY <2>4, <2>6, <4>1 DEF LargeSizes
    <3>2. PICK r \in Chunks \ DOMAIN c.node : bins' = InsertLargeChunk(c, r, rest)
      BY <2>1, <2>6
    <3>3. r \in Chunks /\ r \notin Held(c)
      BY DEF Held
    <3>. QED
      BY <2>3, <3>1, <3>2, <3>3, Inserted DEF Joined
  <2>. QED
    BY <2>5, <2>6
<1>. QED
  BY <1>4, <1>5

\* tmalloc_small keeps the invariant.
LEMMA SmallKeeps ==
    ASSUME TriesInv(bins), NEW nb \in Requests, tmalloc_small(nb)
    PROVE  TriesInv(bins')
<1>1. /\ nb \in Words \ {0} /\ nb < MinLarge /\ bins.treemap # {}
      /\ bins' = UnlinkLargeChunk(bins, BestSmall(bins, nb))
  BY ChunkSizesAssumption DEF tmalloc_small
<1>2. \E dep : Good(bins, Trie(bins), dep)
  BY DEF TriesInv, Good
<1>3. BestSmall(bins, nb) \in Held(bins)
  BY <1>1, <1>2, BestSmallIn
<1>. QED
  BY <1>1, <1>3, Unlinked DEF Left

\* The invariant, of the bins of the model.
TriesOk == TriesInv(bins)

\* The shape of the tries and rings holds in every state.
THEOREM TriesInvariant == Spec => []TriesOk
<1>1. Init => TriesOk
  BY EmptyBins DEF Init, TriesOk
<1>2. TriesOk /\ [Next]_vars => TriesOk'
  <2>. SUFFICES ASSUME TriesInv(bins), [Next]_vars PROVE TriesInv(bins')
    BY DEF TriesOk
  <2>1. CASE UNCHANGED vars
    BY <2>1 DEF vars
  <2>2. CASE Next
    BY <2>2, InsertKeeps, UnlinkKeeps, LargeKeeps, SmallKeeps DEF Next
  <2>. QED
    BY <2>1, <2>2
<1>. QED
  BY <1>1, <1>2, PTL DEF Spec

-----------------------------------------------------------------------------
(* What is below a chunk. *)

\* The children of the chunks L.
Under(b, L) == (UNION {Range(b.node[t].child) : t \in L}) \ {NULL}

\* The levels of a trie: its root, the children of the root, and so on.
IsLevels(level, b, root) ==
    /\ level \in [0..SizeBits -> SUBSET Held(b)]
    /\ level[0] = {root} \ {NULL}
    /\ \A d \in 1..SizeBits : level[d] = Under(b, level[d - 1])

\* Under a set of chunks are their children.
LEMMA UnderIs ==
    ASSUME NEW b, NEW T, NEW dep, Good(b, T, dep), NEW L \in SUBSET Held(b)
    PROVE  /\ Under(b, L) \in SUBSET Held(b)
           /\ \A u : u \in Under(b, L) <=> u # NULL /\ \E t \in L, e \in {0, 1} : b.node[t].child[e] = u
<1>1. \A t \in L : b.node[t].child \in [{0, 1} -> Chunks \cup {NULL}]
  BY NodeFacts DEF Good
<1>2. \A u : u \in Under(b, L) <=> u # NULL /\ \E t \in L, e \in {0, 1} : b.node[t].child[e] = u
  <2>1. \A t \in L : \A u : u \in Range(b.node[t].child) <=> \E e \in {0, 1} : b.node[t].child[e] = u
    <3>. SUFFICES ASSUME NEW t \in L, NEW f, f = b.node[t].child
                  PROVE  \A u : u \in Range(f) <=> \E e \in {0, 1} : f[e] = u
      OBVIOUS
    <3>1. DOMAIN f = {0, 1}
      BY <1>1
    <3>. QED
      BY <3>1 DEF Range
  <2>2. \A u : u \in Under(b, L) <=> u # NULL /\ \E t \in L : u \in Range(b.node[t].child)
    <3>. TAKE u
    <3>. DEFINE F(t) == Range(b.node[t].child)
                S == {F(t) : t \in L}
    <3>1. Under(b, L) = (UNION S) \ {NULL}
      BY DEF Under
    <3>2. \A y : y \in S <=> \E t \in L : y = F(t)
      <4>. HIDE DEF F
      <4>. QED
        OBVIOUS
    <3>. HIDE DEF S
    <3>3. u \in Under(b, L) <=> u # NULL /\ \E y \in S : u \in y
      BY <3>1
    <3>4. (\E y \in S : u \in y) <=> \E t \in L : u \in F(t)
      <4>. HIDE DEF F
      <4>. QED
        BY <3>2
    <3>. QED
      BY <3>3, <3>4
  <2>3. ASSUME NEW u
        PROVE  (\E t \in L : u \in Range(b.node[t].child)) <=> \E t \in L, e \in {0, 1} : b.node[t].child[e] = u
    BY <2>1, Zenon
  <2>. QED
    BY <2>2, <2>3, Zenon
<1>3. \A t \in L, e \in {0, 1} : b.node[t].child[e] \in Held(b) \cup {NULL}
  BY ChildHeld
<1>. HIDE DEF Under
<1>4. Under(b, L) \in SUBSET Held(b)
  BY <1>2, <1>3
<1>. QED
  BY <1>2, <1>4

\* What is below a chunk is on the levels under it.
LEMMA LevelsBelow ==
    ASSUME NEW T, NEW dep, Good(bins, T, dep), NEW root \in Held(bins) \cup {NULL}
    PROVE  \E level : IsLevels(level, bins, root) /\ Below(root) = UNION Range(level)
<1>. DEFINE V == SUBSET Held(bins)
            n == SizeBits
            first == {root} \ {NULL}
            G == [p \in Nat \X V |-> Under(bins, p[2])]
            R(f) == [d \in 0..n |-> IF d = 0 THEN first
                                    ELSE (UNION {Range(bins.node[t].child) : t \in f[d - 1]}) \ {NULL}]
            at == CHOOSE g : g = R(g)
<1>0. n \in Nat
  BY Widths
<1>1. \A d \in Nat, L \in V : G[<<d, L>>] = Under(bins, L)
  <2>. TAKE d \in Nat, L \in V
  <2>1. <<d, L>> \in Nat \X V /\ <<d, L>>[2] = L
    OBVIOUS
  <2>. QED
    BY <2>1
<1>2. \A L \in V : Under(bins, L) \in V
  BY UnderIs
<1>3. G \in [Nat \X V -> V]
  <2>1. \A p \in Nat \X V : G[p] \in V
    <3>. TAKE p \in Nat \X V
    <3>1. p[2] \in V
      OBVIOUS
    <3>2. G[p] = Under(bins, p[2])
      OBVIOUS
    <3>. QED
      BY <1>2, <3>1, <3>2
  <2>2. G = [p \in Nat \X V |-> G[p]]
    OBVIOUS
  <2>. HIDE DEF G, V
  <2>. QED
    BY <2>1, <2>2
<1>4. first \in V
  OBVIOUS
<1>5. PICK f : IsLoop(f, V, first, n, G)
  <2>. HIDE DEF G, V, first, n
  <2>. QED
    BY ONLY <1>0, <1>3, <1>4, Loop
<1>6. f \in [0..n -> V] /\ f[0] = first /\ \A i \in 1..n : f[i] = G[<<i - 1, f[i - 1]>>]
  BY <1>5 DEF IsLoop
<1>7. \A i \in 1..n : f[i] = Under(bins, f[i - 1])
  <2>. TAKE i \in 1..n
  <2>1. i - 1 \in Nat /\ i - 1 \in 0..n
    BY <1>0
  <2>2. f[i - 1] \in V
    BY <1>6, <2>1
  <2>. HIDE DEF G, V
  <2>. QED
    BY <1>1, <1>6, <2>1, <2>2
<1>8. f = R(f)
  <2>1. \A d \in 0..n : f[d] = IF d = 0 THEN first
                               ELSE (UNION {Range(bins.node[t].child) : t \in f[d - 1]}) \ {NULL}
    <3>. HIDE DEF first
    <3>. QED
      BY <1>0, <1>6, <1>7 DEF Under
  <2>. HIDE DEF G, V, first
  <2>. QED
    BY <1>6, <2>1
<1>9. Below(root) = UNION Range(at)
  BY DEF Below
<1>10. at = R(at)
  <2>. HIDE DEF R
  <2>. QED
    BY <1>8
<1>11. DOMAIN at = 0..n /\ at[0] = first
       /\ \A d \in 1..n : at[d] = Under(bins, at[d - 1])
  <2>1. at = [d \in 0..n |-> IF d = 0 THEN first
                             ELSE (UNION {Range(bins.node[t].child) : t \in at[d - 1]}) \ {NULL}]
    BY <1>10
  <2>. HIDE DEF at, first
  <2>2. DOMAIN at = 0..n
    BY <2>1
  <2>3. at[0] = first
    BY <1>0, <2>1
  <2>4. \A d \in 1..n : at[d] = Under(bins, at[d - 1])
    <3>. TAKE d \in 1..n
    <3>1. d \in 0..n /\ d # 0
      BY <1>0
    <3>2. at[d] = (UNION {Range(bins.node[t].child) : t \in at[d - 1]}) \ {NULL}
      BY <2>1, <3>1
    <3>. QED
      BY <3>2, Zenon DEF Under
  <2>. QED
    BY <2>2, <2>3, <2>4
<1>12. at = [d \in DOMAIN at |-> at[d]]
  <2>1. at = [d \in 0..n |-> IF d = 0 THEN first
                             ELSE (UNION {Range(bins.node[t].child) : t \in at[d - 1]}) \ {NULL}]
    BY <1>10
  <2>. HIDE DEF at
  <2>. QED
    BY <2>1
<1>13. \A d \in 0..n : at[d] \in V
  <2>. DEFINE P == {d \in 0..n : at[d] \in V}
  <2>. HIDE DEF at, first, V
  <2>1. 0 \in P
    BY <1>0, <1>4, <1>11
  <2>2. ASSUME NEW k \in 1..n, k - 1 \in P PROVE k \in P
    <3>1. at[k] = Under(bins, at[k - 1]) /\ at[k - 1] \in V /\ k \in 0..n
      BY <1>0, <1>11, <2>2
    <3>. QED
      BY <1>2, <3>1
  <2>3. \A k \in 0..n : k \in P
    <3>. HIDE DEF P
    <3>. QED
      BY <1>0, <2>1, <2>2, EachRound
  <2>. QED
    BY <2>3
<1>. HIDE DEF at
<1>14. IsLevels(at, bins, root)
  BY <1>11, <1>12, <1>13 DEF IsLevels
<1>. QED
  BY <1>9, <1>14

\* Nothing is below no chunk.
LEMMA NoneBelow ==
    ASSUME NEW T, NEW dep, Good(bins, T, dep)
    PROVE  Below(NULL) = {}
<1>1. PICK level : IsLevels(level, bins, NULL) /\ Below(NULL) = UNION Range(level)
  BY LevelsBelow
<1>. DEFINE P == {d \in 0..SizeBits : level[d] = {}}
<1>2. /\ DOMAIN level = 0..SizeBits /\ level[0] = {}
      /\ \A d \in 1..SizeBits : level[d] = Under(bins, level[d - 1])
  BY <1>1 DEF IsLevels
<1>3. Under(bins, {}) = {}
  BY UnderIs
<1>4. 0 \in P
  BY <1>2, Widths
<1>5. ASSUME NEW k \in 1..SizeBits, k - 1 \in P PROVE k \in P
  <2>1. k \in 0..SizeBits /\ level[k - 1] = {} /\ level[k] = Under(bins, level[k - 1])
    BY <1>2, <1>5, Widths
  <2>. QED
    BY <1>3, <2>1
<1>6. \A k \in 0..SizeBits : k \in P
  <2>. HIDE DEF P
  <2>. QED
    BY <1>4, <1>5, EachRound, Widths
<1>7. \A L \in Range(level) : L = {}
  BY <1>2, <1>6 DEF Range
<1>. QED
  BY <1>1, <1>7

\* Below a chunk are the chunks of its trie with its bits.
LEMMA BelowIs ==
    ASSUME NEW T, NEW dep, Good(bins, T, dep), NEW root \in T
    PROVE  \A u : u \in Below(root) <=>
             /\ u \in T /\ bins.node[u].index = bins.node[root].index
             /\ dep[root] <= dep[u]
             /\ Bits(bins, u, dep[root]) = Bits(bins, root, dep[root])
<1>. DEFINE i == bins.node[root].index
            r == dep[root]
            On(u, d) == /\ u \in T /\ bins.node[u].index = i /\ dep[u] = r + d
                        /\ Bits(bins, u, r) = Bits(bins, root, r)
<1>0. T \subseteq Held(bins) /\ r \in Nat /\ SizeBits \in Nat /\ Tries(bins, T, dep)
  BY InTrie, Widths DEF Good, Tries
<1>1. PICK level : IsLevels(level, bins, root) /\ Below(root) = UNION Range(level)
  BY <1>0, LevelsBelow
<1>2. /\ level \in [0..SizeBits -> SUBSET Held(bins)] /\ level[0] = {root} \ {NULL}
      /\ \A d \in 1..SizeBits : level[d] = Under(bins, level[d - 1])
  BY <1>1 DEF IsLevels
<1>. DEFINE P == {d \in 0..SizeBits : \A u : u \in level[d] <=> On(u, d)}
<1>3. 0 \in P
  <2>1. level[0] = {root}
    BY <1>0, <1>2, InTrie, Names
  <2>2. On(root, 0)
    BY <1>0
  <2>3. ASSUME NEW u, On(u, 0) PROVE u = root
    <3>1. SamePlace(bins, dep, u, root)
      BY <1>0, <2>3 DEF SamePlace
    <3>. QED
      BY <1>0, <2>3, <3>1 DEF Tries, PlacesOnce
  <2>. HIDE DEF On
  <2>. QED
    BY <1>0, <2>1, <2>2, <2>3
<1>4. ASSUME NEW k \in 1..SizeBits, k - 1 \in P PROVE k \in P
  <2>0. k \in 0..SizeBits /\ k - 1 \in 0..SizeBits /\ k - 1 \in Nat /\ k \in Nat
    BY <1>0
  <2>1. \A u : u \in level[k - 1] <=> On(u, k - 1)
    BY <1>4
  <2>2. level[k - 1] \in SUBSET Held(bins) /\ level[k] = Under(bins, level[k - 1])
    BY <1>2, <2>0
  <2>. DEFINE L == level[k - 1]
  <2>3. \A u : u \in level[k] <=> u # NULL /\ \E t \in L, e \in {0, 1} : bins.node[t].child[e] = u
    BY <2>2, UnderIs
  <2>4. ASSUME NEW u, u \in level[k] PROVE On(u, k)
    <3>1. PICK t \in L, e \in {0, 1} : bins.node[t].child[e] = u /\ u # NULL
      BY <2>3, <2>4
    <3>2. On(t, k - 1)
      BY <2>1
    <3>3. /\ u \in T /\ bins.node[u].index = bins.node[t].index
          /\ dep[u] = dep[t] + 1 /\ Bits(bins, u, dep[t]) = Bits(bins, t, dep[t])
          /\ dep[t] \in 0..(Levels(bins.node[t].index) - 1)
      BY <3>1, <3>2, ChildIn
    <3>4. dep[u] = r + k
      BY <1>0, <2>0, <3>2, <3>3
    <3>5. Levels(i) \in 1..SizeBits
      BY InTrie
    <3>6. r \in 0..dep[t] /\ dep[t] \in 0..Levels(bins.node[u].index)
      BY <1>0, <2>0, <3>2, <3>3, <3>5
    <3>7. Bits(bins, u, r) = Bits(bins, t, r)
      BY <3>2, <3>3, <3>6, BitsAbove
    <3>. QED
      BY <3>2, <3>3, <3>4, <3>7
  <2>5. ASSUME NEW u, On(u, k) PROVE u \in level[k]
    <3>1. u \in T /\ dep[u] = r + k /\ bins.node[u].index = i /\ Bits(bins, u, r) = Bits(bins, root, r)
      BY <2>5
    <3>2. bins.node[u].parent # BIN
      BY <1>0, <2>0, <3>1, RootOf
    <3>. DEFINE q == bins.node[u].parent
    <3>3. /\ q \in T /\ bins.node[q].index = bins.node[u].index
          /\ dep[u] = dep[q] + 1
          /\ bins.node[q].child[Turn(bins, u, dep[q])] = u
          /\ Bits(bins, u, dep[q]) = Bits(bins, q, dep[q])
          /\ Turn(bins, u, dep[q]) \in {0, 1}
          /\ dep[q] \in 0..(Levels(bins.node[u].index) - 1)
      BY <3>1, <3>2, HangsFrom
    <3>. HIDE DEF q
    <3>4. dep[q] \in Nat /\ Levels(bins.node[u].index) \in 1..SizeBits
      BY <3>1, <3>3, InTrie
    <3>5. dep[q] = r + (k - 1)
      BY <1>0, <2>0, <3>1, <3>3, <3>4
    <3>6. r \in 0..dep[q] /\ dep[q] \in 0..Levels(bins.node[u].index)
      BY <1>0, <2>0, <3>3, <3>4, <3>5
    <3>7. Bits(bins, u, r) = Bits(bins, q, r)
      BY <3>1, <3>3, <3>6, BitsAbove
    <3>8. On(q, k - 1)
      BY <3>1, <3>3, <3>5, <3>7
    <3>9. q \in L
      BY <2>1, <3>8
    <3>10. u # NULL
      BY <3>1, InTrie, Names
    <3>. QED
      BY <2>3, <3>3, <3>9, <3>10
  <2>. HIDE DEF On
  <2>. QED
    BY <2>0, <2>4, <2>5
<1>5. \A d \in 0..SizeBits : \A u : u \in level[d] <=> On(u, d)
  <2>1. \A k \in 0..SizeBits : k \in P
    <3>. HIDE DEF P
    <3>. QED
      BY <1>0, <1>3, <1>4, EachRound
  <2>. HIDE DEF On
  <2>. QED
    BY <2>1
<1>6. \A u : u \in Below(root) <=> \E d \in 0..SizeBits : u \in level[d]
  BY <1>1, <1>2 DEF Range
<1>7. \A u : (\E d \in 0..SizeBits : On(u, d)) <=>
             /\ u \in T /\ bins.node[u].index = i /\ r <= dep[u]
             /\ Bits(bins, u, r) = Bits(bins, root, r)
  <2>. TAKE u
  <2>1. ASSUME NEW d \in 0..SizeBits, On(u, d)
        PROVE  u \in T /\ bins.node[u].index = i /\ r <= dep[u] /\ Bits(bins, u, r) = Bits(bins, root, r)
    BY <1>0, <2>1
  <2>2. ASSUME u \in T, bins.node[u].index = i, r <= dep[u], Bits(bins, u, r) = Bits(bins, root, r)
        PROVE  \E d \in 0..SizeBits : On(u, d)
    <3>1. dep[u] \in Nat /\ dep[u] <= SizeBits
      <4>1. dep[u] \in 0..Levels(bins.node[u].index) /\ Levels(bins.node[u].index) \in 1..SizeBits
        BY <2>2, InTrie
      <4>. QED
        BY <1>0, <4>1
    <3>2. dep[u] - r \in 0..SizeBits /\ dep[u] = r + (dep[u] - r)
      BY <1>0, <2>2, <3>1
    <3>3. On(u, dep[u] - r)
      BY <2>2, <3>2
    <3>. HIDE DEF On
    <3>. QED
      BY <3>2, <3>3
  <2>. HIDE DEF On
  <2>. QED
    BY <2>1, <2>2, Zenon
<1>8. \A u : u \in Below(root) <=> \E d \in 0..SizeBits : On(u, d)
  <2>. HIDE DEF On
  <2>. QED
    BY <1>5, <1>6
<1>. HIDE DEF On
<1>. QED
  BY <1>7, <1>8

\* Below the root of a bin are the chunks of the tries that have its index.
LEMMA TrieBelow ==
    ASSUME NEW T, NEW dep, Good(bins, T, dep), NEW i \in Bins
    PROVE  \A u : u \in Below(bins.head[i]) <=> u \in T /\ bins.node[u].index = i
<1>. DEFINE h == bins.head[i]
<1>1. bins.treemap = {j \in Bins : bins.head[j] # NULL}
  BY DEF Good, Tries, RootsOk
<1>2. CASE h = NULL
  <2>1. Below(h) = {}
    BY <1>2, NoneBelow
  <2>2. \A u \in T : bins.node[u].index # i
    BY <1>1, <1>2, BinMarked
  <2>. QED
    BY <2>1, <2>2
<1>3. CASE h # NULL
  <2>1. i \in bins.treemap
    BY <1>1, <1>3
  <2>2. h \in T /\ bins.node[h].index = i /\ dep[h] = 0
    BY <2>1, RootIn
  <2>. HIDE DEF h
  <2>3. \A u : u \in Below(h) <=>
             /\ u \in T /\ bins.node[u].index = i
             /\ 0 <= dep[u] /\ Bits(bins, u, 0) = Bits(bins, h, 0)
    BY <2>2, BelowIs
  <2>4. ASSUME NEW u \in T, bins.node[u].index = i
        PROVE  0 <= dep[u] /\ Bits(bins, u, 0) = Bits(bins, h, 0)
    <3>1. dep[u] \in Nat
      BY InTrie
    <3>. DEFINE s == bins.node[u].size
                v == bins.node[h].size
    <3>2. s \in LargeSizes /\ v \in LargeSizes /\ TreeIndex(s) = i /\ TreeIndex(v) = i
      BY <2>2, <2>4, InTrie
    <3>3. Prefix(s, i, 0) = Prefix(v, i, 0)
      <4>. HIDE DEF s, v
      <4>. QED
        BY <3>2, SameBin
    <3>. QED
      BY <2>2, <2>4, <3>1, <3>3 DEF Bits
  <2>5. \A u : u \in Below(h) <=> u \in T /\ bins.node[u].index = i
    BY <2>3, <2>4
  <2>. QED
    BY <2>5 DEF h
<1>. QED
  BY <1>2, <1>3

\* All that is left of a chunk is smaller than all that is right of it.
LEMMA LeftSmaller ==
    ASSUME NEW T, NEW dep, Good(bins, T, dep), NEW t \in T,
           NEW u \in Below(bins.node[t].child[0]), NEW w \in Below(bins.node[t].child[1])
    PROVE  SizeOf(bins, u) < SizeOf(bins, w)
<1>. DEFINE l == bins.node[t].child[0]
            r == bins.node[t].child[1]
            i == bins.node[t].index
            d == dep[t] + 1
            x == Bits(bins, t, dep[t])
<1>1. l # NULL /\ r # NULL
  BY NoneBelow
<1>2. l \in T /\ dep[l] = d /\ bins.node[l].index = i /\ Bits(bins, l, dep[l]) = 2 * x + 0
      /\ dep[t] \in 0..(Levels(i) - 1)
  BY <1>1, ChildIn
<1>3. r \in T /\ dep[r] = d /\ bins.node[r].index = i /\ Bits(bins, r, dep[r]) = 2 * x + 1
  BY <1>1, ChildIn
<1>. HIDE DEF l, r
<1>4. u \in T /\ bins.node[u].index = i /\ Bits(bins, u, d) = 2 * x + 0
  <2>1. u \in Below(l)
    BY DEF l
  <2>2. u \in T /\ bins.node[u].index = bins.node[l].index /\ Bits(bins, u, dep[l]) = Bits(bins, l, dep[l])
    BY <1>2, <2>1, BelowIs
  <2>. QED
    BY <1>2, <2>2
<1>5. w \in T /\ bins.node[w].index = i /\ Bits(bins, w, d) = 2 * x + 1
  <2>1. w \in Below(r)
    BY DEF r
  <2>2. w \in T /\ bins.node[w].index = bins.node[r].index /\ Bits(bins, w, dep[r]) = Bits(bins, r, dep[r])
    BY <1>3, <2>1, BelowIs
  <2>. QED
    BY <1>3, <2>2
<1>6. /\ i \in Bins /\ Levels(i) \in 1..SizeBits
      /\ bins.node[t].size \in LargeSizes /\ bins.node[u].size \in LargeSizes
      /\ bins.node[w].size \in LargeSizes
  BY <1>4, <1>5, InTrie
<1>7. d \in 0..Levels(i) /\ dep[t] \in 0..Levels(i)
  BY <1>2, <1>6
<1>8. x \in Nat
  BY <1>6, <1>7, PrefixType DEF Bits
<1>. DEFINE s == bins.node[u].size
            v == bins.node[w].size
<1>9. Prefix(s, i, d) = 2 * x + 0 /\ Prefix(v, i, d) = 2 * x + 1
  BY <1>4, <1>5 DEF Bits
<1>10. s \in LargeSizes /\ v \in LargeSizes
  BY <1>6
<1>. HIDE DEF s, v, d, x, i
<1>11. Prefix(s, i, d) < Prefix(v, i, d)
  BY <1>8, <1>9
<1>12. s < v
  BY <1>6, <1>7, <1>10, <1>11, PrefixOrder
<1>. QED
  BY <1>12 DEF SizeOf, s, v

\* The invariant implies that the tries are sound.
LEMMA SoundTries ==
    ASSUME TriesInv(bins)
    PROVE  TriesSound
<1>1. PICK dep : Tries(bins, Trie(bins), dep)
  BY DEF TriesInv
<1>. DEFINE T == Trie(bins)
<1>2. Good(bins, T, dep) /\ bins.aborted = FALSE /\ Rings(bins) /\ BinsOk(bins) /\ T \subseteq Held(bins)
  BY <1>1 DEF TriesInv, Good, Trie
<1>3. \A u \in Held(bins) : u \in T <=> bins.node[u].parent # NULL
  BY DEF Trie
<1>. HIDE DEF T
<1>4. bins.treemap = {i \in Bins : bins.head[i] # NULL}
  BY <1>2 DEF Good, Tries, RootsOk
<1>5. \A i \in Bins : \A u : u \in Below(bins.head[i]) <=> u \in T /\ bins.node[u].index = i
  BY <1>2, TrieBelow
<1>6. InBins = Held(bins)
  BY DEF InBins, Held
<1>7. ASSUME NEW i \in bins.treemap
      PROVE  /\ Below(bins.head[i]) \subseteq InBins
             /\ bins.node[bins.head[i]].parent = BIN
  BY <1>2, <1>4, <1>5, <1>6, <1>7, RootIn
<1>8. ASSUME NEW i \in bins.treemap, NEW t \in Below(bins.head[i])
      PROVE  /\ bins.node[t].index = i
             /\ \A u \in Below(bins.head[i]) \ {t} : SizeOf(bins, u) # SizeOf(bins, t)
             /\ \A d \in {0, 1} : LET c == bins.node[t].child[d] IN
                  c # NULL => bins.node[c].parent = t
             /\ \A u \in Below(bins.node[t].child[0]), w \in Below(bins.node[t].child[1]) :
                  SizeOf(bins, u) < SizeOf(bins, w)
  <2>1. t \in T /\ bins.node[t].index = i /\ i \in Bins
    BY <1>4, <1>5, <1>8
  <2>2. \A u \in Below(bins.head[i]) \ {t} : SizeOf(bins, u) # SizeOf(bins, t)
    <3>1. SizesOnce(bins, T)
      BY <1>2 DEF Good, Tries
    <3>. QED
      BY <1>5, <2>1, <3>1 DEF SizesOnce, SizeOf
  <2>3. \A d \in {0, 1} : LET c == bins.node[t].child[d] IN c # NULL => bins.node[c].parent = t
    BY <1>2, <2>1, ChildIn
  <2>4. \A u \in Below(bins.node[t].child[0]), w \in Below(bins.node[t].child[1]) :
          SizeOf(bins, u) < SizeOf(bins, w)
    BY <1>2, <2>1, LeftSmaller
  <2>. QED
    BY <2>1, <2>2, <2>3, <2>4
<1>9. ASSUME NEW t \in InBins
      PROVE  /\ bins.node[bins.node[t].fd].bk = t /\ bins.node[bins.node[t].bk].fd = t
             /\ SizeOf(bins, bins.node[t].fd) = SizeOf(bins, t)
             /\ bins.node[t].parent = NULL <=> t \notin UNION {Below(bins.head[i]) : i \in Bins}
  <2>1. /\ bins.node[bins.node[t].fd].bk = t /\ bins.node[bins.node[t].bk].fd = t
        /\ SizeOf(bins, bins.node[t].fd) = SizeOf(bins, t)
    BY <1>2, <1>6, <1>9 DEF Rings, SizeOf
  <2>2. t \in T <=> \E i \in Bins : t \in Below(bins.head[i])
    BY <1>2, <1>5, InTrie
  <2>3. t \in UNION {Below(bins.head[i]) : i \in Bins} <=> \E i \in Bins : t \in Below(bins.head[i])
    OBVIOUS
  <2>4. t \in T <=> bins.node[t].parent # NULL
    BY <1>3, <1>6, <1>9
  <2>. QED
    BY <2>1, <2>2, <2>3, <2>4
<1>10. ~bins.aborted
  BY <1>2
<1>. QED
  BY <1>4, <1>7, <1>8, <1>9, <1>10 DEF TriesSound

\* The tries stay what do_check_tree expects: no chunk is lost, doubled or in
\* the wrong place, and all sizes left of a chunk are smaller than all right of it.
THEOREM TriesSoundCorrect == Spec => []TriesSound
<1>1. TriesOk => TriesSound
  BY SoundTries DEF TriesOk
<1>. QED
  BY <1>1, TriesInvariant, PTL

\* The larger of two sizes is in the same bin or in a later one.
LEMMA IndexOrder ==
    ASSUME NEW s \in LargeSizes, NEW u \in LargeSizes, s <= u
    PROVE  TreeIndex(s) <= TreeIndex(u)
<1>. DEFINE i == TreeIndex(s)
            j == TreeIndex(u)
            h == NTreeBins \div 2
<1>1. /\ i \in Bins /\ j \in Bins /\ s \in Nat /\ u \in Nat
      /\ i \in Nat /\ j \in Nat /\ i <= NTreeBins - 1 /\ j <= NTreeBins - 1
      /\ h \in Nat /\ SizeBits \in Nat /\ TreeBinShift \in Nat \ {0, 1} /\ h + TreeBinShift <= SizeBits
  BY IndexOf, Sizes, Widths DEF Bins
<1>2. \A k \in 0..SizeBits :
        ShiftRight(s, k) <= ShiftRight(u, k) /\ ShiftRight(s, k) \in Nat /\ ShiftRight(u, k) \in Nat
  BY <1>1, ShiftOrder, Shifts
<1>3. ASSUME NEW k \in 0..(h - 1), ShiftRight(u, k + TreeBinShift) = 1,
             NEW m \in (k + 1)..h
      PROVE  ShiftRight(s, m + TreeBinShift) = 0
  <2>1. k + TreeBinShift \in 0..SizeBits /\ m - k \in 1..SizeBits
        /\ (k + TreeBinShift) + (m - k) = m + TreeBinShift /\ m + TreeBinShift \in 0..SizeBits
        /\ 0 \in 0..SizeBits /\ 1 \in 0..SizeBits /\ m - k \in 0..SizeBits /\ 1 \in 1..SizeBits
    BY <1>1
  <2>2. ShiftRight(u, m + TreeBinShift) = ShiftRight(1, m - k)
    BY <1>1, <1>3, <2>1, ShiftTwice
  <2>3. ShiftRight(1, 1) = 0
    BY <2>1, Shifts
  <2>4. ShiftRight(1, m - k) = 0
    BY <2>1, <2>3, ShiftedOut
  <2>. QED
    BY <1>2, <2>1, <2>2, <2>4
<1>4. CASE j = NTreeBins - 1
  BY <1>1, <1>4
<1>5. ASSUME NEW k \in 0..(h - 1),
             j = 2 * k + (ShiftRight(u, k + TreeBinShift - 1) % 2), ShiftRight(u, k + TreeBinShift) = 1
      PROVE  i <= j
  <2>1. ~ (ShiftRight(s, TreeBinShift + h) >= 1)
    <3>1. h \in (k + 1)..h /\ h + TreeBinShift = TreeBinShift + h
      BY <1>1
    <3>2. ShiftRight(s, h + TreeBinShift) = 0
      BY ONLY <1>3, <1>5, <3>1
    <3>. QED
      BY <3>1, <3>2
  <2>2. PICK l \in 0..(h - 1) : /\ i = 2 * l + (ShiftRight(s, l + TreeBinShift - 1) % 2)
                                /\ ShiftRight(s, l + TreeBinShift) = 1
    BY <2>1, IndexOf
  <2>3. l <= k
    <3>. SUFFICES ASSUME l > k PROVE FALSE
      BY <1>1, <1>5, <2>2
    <3>1. l \in (k + 1)..h
      BY <1>1, <1>5, <2>2
    <3>2. ShiftRight(s, l + TreeBinShift) = 0
      BY ONLY <1>3, <1>5, <3>1
    <3>. QED
      BY <2>2, <3>2
  <2>. DEFINE a == ShiftRight(s, l + TreeBinShift - 1)
              c == ShiftRight(u, k + TreeBinShift - 1)
  <2>4. l + TreeBinShift - 1 \in 0..SizeBits /\ k + TreeBinShift - 1 \in 0..SizeBits
        /\ k + TreeBinShift \in 1..SizeBits /\ (k + TreeBinShift) - 1 = k + TreeBinShift - 1
        /\ l + TreeBinShift \in 1..SizeBits /\ (l + TreeBinShift) - 1 = l + TreeBinShift - 1
    BY <1>1, <2>2, <1>5
  <2>5. a \in Nat /\ c \in Nat /\ (l = k => a <= c)
    BY <1>2, <2>4
  <2>6. a \div 2 = 1 /\ c \div 2 = 1
    <3>1. ShiftRight(u, k + TreeBinShift) = ShiftRight(u, (k + TreeBinShift) - 1) \div 2
      BY <1>1, <2>4, Shifts
    <3>2. ShiftRight(s, l + TreeBinShift) = ShiftRight(s, (l + TreeBinShift) - 1) \div 2
      BY <1>1, <2>4, Shifts
    <3>. QED
      BY <1>5, <2>2, <2>4, <3>1, <3>2
  <2>7. i = 2 * l + (a % 2) /\ j = 2 * k + (c % 2)
    BY <1>5, <2>2
  <2>. HIDE DEF a, c, i, j
  <2>8. a % 2 \in {0, 1} /\ c % 2 \in {0, 1} /\ a = 2 + (a % 2) /\ c = 2 + (c % 2)
    BY <2>5, <2>6
  <2>9. CASE l = k
    BY <2>2, <2>5, <2>7, <2>8, <2>9
  <2>10. CASE l < k
    BY <2>2, <1>5, <2>7, <2>8, <2>10
  <2>. QED
    BY <1>5, <2>2, <2>3, <2>9, <2>10
<1>. QED
  BY <1>4, <1>5, IndexOf

-----------------------------------------------------------------------------
(* The chunks below a chunk, for any bins. *)

\* Chunk t and the chunks of its trie below it.
Subtrie(b, T, dep, t) ==
    {u \in T : /\ b.node[u].index = b.node[t].index /\ dep[t] <= dep[u]
               /\ Bits(b, u, dep[t]) = Bits(b, t, dep[t])}

\* Below the root of a bin are all chunks of its trie.
LEMMA RootSubtrie ==
    ASSUME NEW b, NEW T, NEW dep, Good(b, T, dep), NEW i \in b.treemap
    PROVE  Subtrie(b, T, dep, b.head[i]) = {u \in T : b.node[u].index = i}
<1>. DEFINE r == b.head[i]
<1>1. r \in T /\ b.node[r].index = i /\ dep[r] = 0
  BY RootIn
<1>. HIDE DEF r
<1>2. ASSUME NEW u \in T, b.node[u].index = i PROVE dep[r] <= dep[u] /\ Bits(b, u, 0) = Bits(b, r, 0)
  <2>. DEFINE s == b.node[u].size
              v == b.node[r].size
  <2>1. s \in LargeSizes /\ v \in LargeSizes /\ TreeIndex(s) = TreeIndex(v) /\ TreeIndex(s) = i
        /\ dep[u] \in Nat
    BY <1>1, <1>2, InTrie
  <2>. HIDE DEF s, v
  <2>2. Prefix(s, TreeIndex(s), 0) = Prefix(v, TreeIndex(s), 0)
    BY <2>1, SameBin
  <2>. QED
    BY <1>1, <1>2, <2>1, <2>2 DEF Bits, s, v
<1>3. Subtrie(b, T, dep, r) = {u \in T : b.node[u].index = i}
  BY <1>1, <1>2 DEF Subtrie
<1>. QED
  BY <1>3 DEF r

\* A chunk below another is below the child its size branches to.
LEMMA Descends ==
    ASSUME NEW b, NEW T, NEW dep, Good(b, T, dep), NEW t \in T, NEW u \in Subtrie(b, T, dep, t), u # t
    PROVE  LET h == Turn(b, u, dep[t])
               c == b.node[t].child[h]
           IN /\ h \in {0, 1} /\ c # NULL /\ u \in Subtrie(b, T, dep, c)
              /\ dep[t] \in 0..(Levels(b.node[t].index) - 1)
<1>. DEFINE i == b.node[t].index
            d == dep[t]
            h == Turn(b, u, d)
            c == b.node[t].child[h]
<1>1. u \in T /\ b.node[u].index = i /\ d <= dep[u] /\ Bits(b, u, d) = Bits(b, t, d)
  BY DEF Subtrie
<1>2. /\ i \in Bins /\ Levels(i) \in 1..SizeBits /\ d \in 0..Levels(i) /\ d \in Nat
      /\ dep[u] \in 0..Levels(i) /\ dep[u] \in Nat /\ SizeBits \in Nat
      /\ b.node[u].size \in LargeSizes /\ b.node[t].size \in LargeSizes
  BY <1>1, InTrie, Widths
<1>3. d < dep[u]
  <2>. SUFFICES ASSUME dep[u] = d PROVE FALSE
    BY <1>1, <1>2
  <2>1. SamePlace(b, dep, u, t)
    BY <1>1 DEF SamePlace
  <2>. QED
    BY <1>1, <2>1 DEF Good, Tries, PlacesOnce
<1>. DEFINE e == d + 1
<1>4. e \in 0..dep[u] /\ e \in 1..Levels(i) /\ d \in 0..(e - 1) /\ e \in Nat /\ d \in 0..e
  BY <1>2, <1>3
<1>5. PICK w \in T : b.node[w].index = i /\ dep[w] = e /\ Bits(b, w, e) = Bits(b, u, e)
  BY <1>1, <1>4, Ancestors
<1>. DEFINE p == b.node[w].parent
<1>6. /\ p \in T /\ b.node[p].index = i /\ e = dep[p] + 1
      /\ b.node[p].child[Turn(b, w, dep[p])] = w
      /\ Bits(b, w, dep[p]) = Bits(b, p, dep[p])
  <2>1. dep[w] # 0
    BY <1>2, <1>5
  <2>2. p # BIN
    BY <2>1, RootOf
  <2>. QED
    BY <1>5, <2>2, HangsFrom
<1>7. dep[p] = d
  <2>1. dep[p] \in Nat
    BY <1>6, InTrie
  <2>. QED
    BY <1>2, <1>6, <2>1
<1>. HIDE DEF p
<1>8. Turn(b, w, d) = h /\ Bits(b, w, d) = Bits(b, u, d)
  <2>1. w \in Held(b) /\ u \in Held(b) /\ BinsOk(b) /\ b.node[w].index = b.node[u].index
    BY <1>1, <1>5, InTrie DEF Good
  <2>2. e \in 1..Levels(b.node[w].index)
    BY <1>4, <1>5
  <2>. HIDE DEF e, d, h
  <2>3. Turn(b, w, d) = Turn(b, u, d) /\ Bits(b, w, d) = Bits(b, u, d)
    BY <1>4, <1>5, <2>1, <2>2, SameTurn
  <2>. QED
    BY <2>3 DEF h
<1>9. p = t
  <2>1. SamePlace(b, dep, p, t)
    BY <1>1, <1>6, <1>7, <1>8 DEF SamePlace
  <2>. QED
    BY <1>6, <2>1 DEF Good, Tries, PlacesOnce
<1>10. c = w
  BY <1>6, <1>7, <1>8, <1>9
<1>11. h \in {0, 1}
  <2>1. b.node[u].size \in Words
    BY <1>2, Sizes
  <2>. QED
    BY <1>1, <1>2, <2>1, BranchBit DEF Turn
<1>12. c # NULL
  BY <1>10, <1>5, InTrie, Names
<1>13. u \in Subtrie(b, T, dep, c)
  BY <1>1, <1>4, <1>5, <1>10 DEF Subtrie
<1>14. d \in 0..(Levels(i) - 1)
  BY <1>2, <1>3
<1>. QED
  BY <1>11, <1>12, <1>13, <1>14

\* What is below a child is below the chunk, and has the child's bit.
LEMMA Ascends ==
    ASSUME NEW b, NEW T, NEW dep, Good(b, T, dep), NEW t \in T, NEW h \in {0, 1}, b.node[t].child[h] # NULL,
           NEW u \in Subtrie(b, T, dep, b.node[t].child[h])
    PROVE  /\ u \in Subtrie(b, T, dep, t)
           /\ Bits(b, u, dep[t] + 1) = 2 * Bits(b, t, dep[t]) + h
           /\ dep[t] \in 0..(Levels(b.node[t].index) - 1)
<1>. DEFINE c == b.node[t].child[h]
            i == b.node[t].index
<1>1. /\ c \in T /\ dep[c] = dep[t] + 1 /\ b.node[c].index = i
      /\ dep[t] \in 0..(Levels(i) - 1)
      /\ Bits(b, c, dep[t]) = Bits(b, t, dep[t])
      /\ Bits(b, c, dep[c]) = 2 * Bits(b, t, dep[t]) + h
  BY ChildIn
<1>2. u \in T /\ b.node[u].index = b.node[c].index /\ dep[c] <= dep[u] /\ Bits(b, u, dep[c]) = Bits(b, c, dep[c])
  BY DEF Subtrie
<1>. HIDE DEF c
<1>3. dep[t] \in Nat /\ dep[u] \in Nat /\ dep[c] \in Nat /\ Levels(i) \in 1..SizeBits
      /\ dep[c] \in 0..Levels(i)
  BY <1>1, <1>2, InTrie
<1>4. dep[t] \in 0..dep[c] /\ dep[c] \in 0..Levels(b.node[u].index)
  BY <1>1, <1>2, <1>3
<1>5. Bits(b, u, dep[t]) = Bits(b, c, dep[t])
  BY <1>1, <1>2, <1>4, BitsAbove
<1>6. dep[t] <= dep[u]
  BY <1>1, <1>2, <1>3
<1>. QED
  BY <1>1, <1>2, <1>5, <1>6 DEF Subtrie

\* A chunk with smaller bits has a smaller size.
LEMMA BitsOrder ==
    ASSUME NEW b, NEW T, NEW dep, Good(b, T, dep), NEW t \in T, NEW u \in T,
           b.node[t].index = b.node[u].index, NEW d \in 0..Levels(b.node[t].index),
           Bits(b, t, d) < Bits(b, u, d)
    PROVE  b.node[t].size < b.node[u].size
<1>. DEFINE s == b.node[t].size
            v == b.node[u].size
            i == b.node[t].index
<1>1. s \in LargeSizes /\ v \in LargeSizes /\ i \in Bins /\ d \in 0..Levels(i)
      /\ Prefix(s, i, d) < Prefix(v, i, d)
  BY InTrie DEF Bits
<1>. HIDE DEF s, v, i
<1>2. s < v
  BY <1>1, PrefixOrder
<1>. QED
  BY <1>2 DEF s, v

\* The bits of a chunk are a number.
LEMMA BitsType ==
    ASSUME NEW b, NEW T, NEW dep, Good(b, T, dep), NEW t \in T, NEW d \in 0..Levels(b.node[t].index)
    PROVE  Bits(b, t, d) \in Nat
<1>. DEFINE s == b.node[t].size
            i == b.node[t].index
<1>1. s \in LargeSizes /\ i \in Bins /\ d \in 0..Levels(i)
  BY InTrie
<1>. HIDE DEF s, i
<1>2. Prefix(s, i, d) \in Nat
  BY <1>1, PrefixType
<1>. QED
  BY <1>2 DEF Bits, s, i

\* What is below the left child is smaller than what is below the right one.
LEMMA LeftLess ==
    ASSUME NEW b, NEW T, NEW dep, Good(b, T, dep), NEW t \in T,
           b.node[t].child[0] # NULL, b.node[t].child[1] # NULL,
           NEW u \in Subtrie(b, T, dep, b.node[t].child[0]),
           NEW w \in Subtrie(b, T, dep, b.node[t].child[1])
    PROVE  b.node[u].size < b.node[w].size
<1>. DEFINE d == dep[t] + 1
            x == Bits(b, t, dep[t])
            i == b.node[t].index
<1>1. /\ u \in Subtrie(b, T, dep, t) /\ Bits(b, u, d) = 2 * x + 0
      /\ w \in Subtrie(b, T, dep, t) /\ Bits(b, w, d) = 2 * x + 1
      /\ dep[t] \in 0..(Levels(i) - 1)
  BY Ascends
<1>2. u \in T /\ w \in T /\ b.node[u].index = i /\ b.node[w].index = i
  BY <1>1 DEF Subtrie
<1>3. Levels(i) \in 1..SizeBits /\ dep[t] \in 0..Levels(i) /\ d \in 0..Levels(i) /\ SizeBits \in Nat
  BY <1>1, InTrie, Widths
<1>4. x \in Nat
  BY <1>3, BitsType
<1>. HIDE DEF x, d
<1>5. Bits(b, u, d) < Bits(b, w, d)
  BY <1>1, <1>4
<1>. QED
  BY <1>2, <1>3, <1>5, BitsOrder

\* What is below what is below a chunk is below it.
LEMMA SubtrieIn ==
    ASSUME NEW b, NEW T, NEW dep, Good(b, T, dep), NEW t \in T, NEW p \in Subtrie(b, T, dep, t)
    PROVE  Subtrie(b, T, dep, p) \subseteq Subtrie(b, T, dep, t)
<1>. SUFFICES ASSUME NEW u \in Subtrie(b, T, dep, p) PROVE u \in Subtrie(b, T, dep, t)
  OBVIOUS
<1>1. /\ u \in T /\ p \in T /\ b.node[u].index = b.node[p].index /\ b.node[p].index = b.node[t].index
      /\ dep[p] <= dep[u] /\ dep[t] <= dep[p]
      /\ Bits(b, u, dep[p]) = Bits(b, p, dep[p]) /\ Bits(b, p, dep[t]) = Bits(b, t, dep[t])
  BY DEF Subtrie
<1>2. dep[t] \in Nat /\ dep[p] \in 0..Levels(b.node[u].index) /\ dep[p] \in Nat /\ dep[u] \in Nat
  BY <1>1, InTrie
<1>3. dep[t] \in 0..dep[p] /\ dep[t] <= dep[u]
  BY <1>1, <1>2
<1>4. Bits(b, u, dep[t]) = Bits(b, p, dep[t])
  BY <1>1, <1>2, <1>3, BitsAbove
<1>. QED
  BY <1>1, <1>3, <1>4 DEF Subtrie

\* The least chunk below another is not beside its leftmost path.
LEMMA LeastStep ==
    ASSUME NEW b, NEW T, NEW dep, Good(b, T, dep), NEW t \in T, NEW m \in T,
           \A u \in Subtrie(b, T, dep, t) : b.node[m].size <= b.node[u].size,
           NEW p \in Subtrie(b, T, dep, t), m \in Subtrie(b, T, dep, p), m # p
    PROVE  LET c == LeftmostChild(b, p) IN
             /\ c \in T /\ c # NULL /\ dep[c] = dep[p] + 1
             /\ c \in Subtrie(b, T, dep, t) /\ m \in Subtrie(b, T, dep, c)
             /\ dep[p] \in 0..(Levels(b.node[p].index) - 1)
<1>. DEFINE h == Turn(b, m, dep[p])
            c == b.node[p].child[h]
            l == b.node[p].child[0]
<1>1. p \in T
  BY DEF Subtrie
<1>2. /\ h \in {0, 1} /\ c # NULL /\ m \in Subtrie(b, T, dep, c)
      /\ dep[p] \in 0..(Levels(b.node[p].index) - 1)
  BY <1>1, Descends
<1>3. c \in T /\ dep[c] = dep[p] + 1
  BY <1>1, <1>2, ChildIn
<1>4. \A x \in T : x \in Subtrie(b, T, dep, x)
  <2>. TAKE x \in T
  <2>1. dep[x] \in Nat
    BY InTrie
  <2>. QED
    BY <2>1 DEF Subtrie
<1>5. c \in Subtrie(b, T, dep, t)
  <2>1. c \in Subtrie(b, T, dep, p)
    BY <1>1, <1>2, <1>3, <1>4, Ascends
  <2>. QED
    BY <2>1, SubtrieIn
<1>6. LeftmostChild(b, p) = c
  <2>. SUFFICES ASSUME h = 1, l # NULL PROVE FALSE
    BY <1>2 DEF LeftmostChild
  <2>1. l \in T
    BY <1>1, ChildIn
  <2>2. l \in Subtrie(b, T, dep, t)
    <3>1. l \in Subtrie(b, T, dep, p)
      BY <1>1, <1>4, <2>1, Ascends
    <3>. QED
      BY <3>1, SubtrieIn
  <2>3. b.node[l].size < b.node[m].size
    <3>1. l \in Subtrie(b, T, dep, l) /\ b.node[p].child[1] # NULL
          /\ m \in Subtrie(b, T, dep, b.node[p].child[1])
      BY <1>2, <1>4, <2>1
    <3>. QED
      BY <1>1, <3>1, LeftLess
  <2>4. b.node[l].size \in Nat /\ b.node[m].size \in Nat
    BY <2>1, InTrie, Sizes
  <2>. QED
    BY <2>2, <2>3, <2>4
<1>. HIDE DEF c
<1>. QED
  BY <1>2, <1>3, <1>5, <1>6

\* The steps of a walk stay in a set, or end.
Stays(next, T, n) == \A d \in 0..n : \A t \in T : next[d][t] \in T \cup {NULL}

\* What a walk along children reaches from a chunk of a trie is in the trie.
LEMMA WalkInTrie ==
    ASSUME NEW S, NEW T \in SUBSET S, NULL \notin S, NEW n \in Nat, NEW first \in T \cup {NULL}, NEW next, NEW at,
           IsWalk(at, S, first, next, n), Stays(next, T, n)
    PROVE  Nodes(at) \subseteq T /\ \A d \in 0..n : at[d] \in T \cup {NULL}
<1>. DEFINE P == {d \in 0..n : at[d] \in T \cup {NULL}}
<1>1. 0 \in P
  BY DEF IsWalk
<1>2. ASSUME NEW d \in 1..n, d - 1 \in P PROVE d \in P
  <2>1. d - 1 \in 0..n /\ d \in 0..n /\ at[d - 1] \in T \cup {NULL}
    BY <1>2
  <2>2. at[d] = IF at[d - 1] = NULL THEN NULL ELSE next[d - 1][at[d - 1]]
    BY DEF IsWalk
  <2>. QED
    BY <2>1, <2>2 DEF Stays
<1>3. \A d \in 0..n : d \in P
  <2>. HIDE DEF P
  <2>. QED
    BY <1>1, <1>2, EachRound
<1>4. \A d \in 0..n : at[d] \in T \cup {NULL}
  BY <1>3
<1>5. \A t \in Nodes(at) : t # NULL /\ \E d \in 0..n : at[d] = t
  BY NodesOf DEF Nodes
<1>6. Nodes(at) \subseteq T
  <2>. SUFFICES ASSUME NEW t \in Nodes(at) PROVE t \in T
    OBVIOUS
  <2>1. PICK d \in 0..n : at[d] = t
    BY <1>5
  <2>. QED
    BY <1>4, <1>5, <2>1
<1>. QED
  BY <1>4, <1>6

\* The leftmost path from a chunk of a trie is in the trie.
LEMMA LeftmostInTrie ==
    ASSUME NEW b, NEW T, NEW dep, Good(b, T, dep), NEW root \in T \cup {NULL}
    PROVE  Nodes(LeftmostPath(b, root)) \subseteq T
<1>. DEFINE next == NextLeft(b)
            S == Held(b)
            n == SizeBits
            at == Walk(root, next, n)
<1>1. n \in Nat /\ next \in [0..n -> [S -> S \cup {NULL}]] /\ NULL \notin S /\ root \in S \cup {NULL}
      /\ T \in SUBSET S
  BY NextTypes, Widths DEF Good, Tries
<1>2. LeftmostPath(b, root) = at
  BY DEF LeftmostPath, NextLeft
<1>3. \A d \in 0..n : \A t \in T : next[d][t] \in T \cup {NULL}
  <2>. TAKE d \in 0..n
  <2>. TAKE t \in T
  <2>1. t \in DOMAIN b.node
    BY <1>1 DEF Held
  <2>2. next[d][t] = LeftmostChild(b, t)
    BY <2>1 DEF NextLeft
  <2>3. b.node[t].child[0] # NULL => b.node[t].child[0] \in T
    BY ChildIn
  <2>4. b.node[t].child[1] # NULL => b.node[t].child[1] \in T
    BY ChildIn
  <2>. HIDE DEF next
  <2>. QED
    BY <2>2, <2>3, <2>4 DEF LeftmostChild
<1>4. Stays(next, T, n) /\ root \in T \cup {NULL}
  BY <1>3 DEF Stays
<1>. HIDE DEF next, S, n
<1>5. IsWalk(at, S, root, next, n)
  BY ONLY <1>1, WalkOf
<1>. HIDE DEF at
<1>6. Nodes(at) \subseteq T
  BY ONLY <1>1, <1>4, <1>5, WalkInTrie
<1>. QED
  BY <1>2, <1>6

\* The path towards a size is in the trie of its bin.
LEMMA PathInTrie ==
    ASSUME NEW b, NEW T, NEW dep, Good(b, T, dep), NEW s \in Words, NEW i \in Bins
    PROVE  Nodes(Path(b, i, s)) \subseteq {t \in T : b.node[t].index = i}
<1>. DEFINE at == Path(b, i, s)
            next == NextTo(b, s, i)
            S == Held(b)
            n == SizeBits
            first == b.head[i]
            U == {t \in T : b.node[t].index = i}
<1>1. n \in Nat /\ NULL \notin S /\ IsWalk(at, S, first, next, n) /\ U \in SUBSET S
  BY NextTypes, Widths, PathWalks DEF Good, Tries
<1>2. first \in U \cup {NULL}
  <2>. SUFFICES ASSUME first # NULL PROVE first \in U
    OBVIOUS
  <2>1. i \in b.treemap
    BY DEF Good, Tries, RootsOk
  <2>. QED
    BY <2>1, RootIn
<1>3. \A d \in 0..n : \A t \in U : next[d][t] \in U \cup {NULL}
  <2>. TAKE d \in 0..n
  <2>. TAKE t \in U
  <2>. DEFINE k == Branch(s, i, d)
  <2>1. t \in DOMAIN b.node /\ d \in Nat /\ d \in 0..SizeBits
    BY <1>1 DEF Held
  <2>2. k \in {0, 1}
    BY <2>1, BranchBit
  <2>3. next[d][t] = IF SizeOf(b, t) = s THEN NULL ELSE b.node[t].child[k]
    BY <2>1 DEF NextTo
  <2>. HIDE DEF k, next
  <2>4. b.node[t].child[k] # NULL => b.node[t].child[k] \in U
    <3>. SUFFICES ASSUME b.node[t].child[k] # NULL PROVE b.node[t].child[k] \in U
      OBVIOUS
    <3>1. LET c == b.node[t].child[k] IN c \in T /\ b.node[c].index = b.node[t].index
      BY <2>2, ChildIn
    <3>. QED
      BY <3>1
  <2>. QED
    BY <2>3, <2>4
<1>4. Stays(next, U, n)
  BY <1>3 DEF Stays
<1>. HIDE DEF at, next, S, n, first, U
<1>5. Nodes(at) \subseteq U
  BY ONLY <1>1, <1>2, <1>4, WalkInTrie
<1>. QED
  BY <1>5 DEF at, U

\* The leftmost path meets the least chunk below where it begins.
LEMMA LeastLeft ==
    ASSUME NEW b, NEW T, NEW dep, Good(b, T, dep), NEW t \in T, NEW m \in Subtrie(b, T, dep, t),
           \A u \in Subtrie(b, T, dep, t) : b.node[m].size <= b.node[u].size
    PROVE  m \in Nodes(LeftmostPath(b, t))
<1>. DEFINE next == NextLeft(b)
            S == Held(b)
            n == SizeBits
            at == Walk(t, next, n)
<1>1. n \in Nat /\ next \in [0..n -> [S -> S \cup {NULL}]] /\ NULL \notin S /\ t \in S
      /\ T \subseteq S
  BY NextTypes, Widths DEF Good, Tries
<1>2. LeftmostPath(b, t) = at
  BY DEF LeftmostPath, NextLeft
<1>3. IsWalk(at, S, t, next, n)
  <2>. HIDE DEF next, S, n
  <2>. QED
    BY ONLY <1>1, WalkOf
<1>4. \A d \in 1..n : at[d - 1] \in T => at[d] = LeftmostChild(b, at[d - 1])
  <2>. TAKE d \in 1..n
  <2>. SUFFICES ASSUME at[d - 1] \in T PROVE at[d] = LeftmostChild(b, at[d - 1])
    OBVIOUS
  <2>. DEFINE x == at[d - 1]
  <2>1. x \in DOMAIN b.node /\ x # NULL /\ d - 1 \in 0..SizeBits
    BY <1>1 DEF Held
  <2>2. at[d] = next[d - 1][x]
    <3>. HIDE DEF at, next
    <3>. QED
      BY <1>3, <2>1 DEF IsWalk
  <2>. HIDE DEF x, at
  <2>. QED
    BY <2>1, <2>2 DEF NextLeft, x
<1>5. \A d \in 0..n : at[d] # NULL => at[d] \in Nodes(at)
  <2>. HIDE DEF at, next
  <2>. QED
    BY <1>3 DEF IsWalk, Nodes, Range
<1>6. at[0] = t
  <2>. HIDE DEF at, next
  <2>. QED
    BY <1>3 DEF IsWalk
<1>. HIDE DEF at, next
<1>. SUFFICES ASSUME m \notin Nodes(at) PROVE FALSE
  BY <1>2
<1>. DEFINE P == {d \in 0..n : /\ at[d] \in Subtrie(b, T, dep, t) /\ dep[at[d]] = dep[t] + d
                               /\ m \in Subtrie(b, T, dep, at[d])}
<1>7. m \in T /\ t \in Subtrie(b, T, dep, t) /\ dep[t] \in Nat
  <2>1. dep[t] \in Nat
    BY InTrie
  <2>. QED
    BY <2>1 DEF Subtrie
<1>8. \A d \in 0..n : d \in P => at[d] \in T /\ m # at[d] /\ dep[at[d]] \in 0..(SizeBits - 1)
  <2>. TAKE d \in 0..n
  <2>. HAVE d \in P
  <2>1. at[d] \in T /\ at[d] \in Subtrie(b, T, dep, t) /\ m \in Subtrie(b, T, dep, at[d])
    BY DEF Subtrie
  <2>2. at[d] # NULL
    BY <1>1, <2>1
  <2>3. m # at[d]
    BY <1>5, <2>2
  <2>4. dep[at[d]] \in 0..(Levels(b.node[at[d]].index) - 1)
    BY <1>7, <2>1, <2>3, LeastStep
  <2>5. Levels(b.node[at[d]].index) \in 1..SizeBits
    BY <2>1, InTrie
  <2>. QED
    BY <1>1, <2>1, <2>3, <2>4, <2>5
<1>9. 0 \in P
  BY <1>1, <1>6, <1>7
<1>10. ASSUME NEW d \in 1..n, d - 1 \in P PROVE d \in P
  <2>1. d - 1 \in 0..n /\ d \in 0..n
    BY <1>1
  <2>. DEFINE p == at[d - 1]
              c == LeftmostChild(b, p)
  <2>2. p \in T /\ m # p /\ p \in Subtrie(b, T, dep, t) /\ m \in Subtrie(b, T, dep, p)
        /\ dep[p] = dep[t] + (d - 1)
    BY <1>8, <1>10, <2>1
  <2>3. at[d] = c
    BY <1>4, <2>2
  <2>. HIDE DEF p
  <2>4. c \in T /\ dep[c] = dep[p] + 1 /\ c \in Subtrie(b, T, dep, t) /\ m \in Subtrie(b, T, dep, c)
    BY <1>7, <2>2, LeastStep
  <2>. HIDE DEF c
  <2>. QED
    BY <1>7, <2>1, <2>2, <2>3, <2>4
<1>11. n \in P
  <2>1. \A d \in 0..n : d \in P
    <3>. HIDE DEF P, n
    <3>. QED
      BY <1>1, <1>9, <1>10, EachRound
  <2>. QED
    BY <1>1, <2>1
<1>12. dep[at[n]] \in 0..(SizeBits - 1) /\ dep[at[n]] = dep[t] + n
  BY <1>1, <1>8, <1>11
<1>. QED
  BY <1>1, <1>7, <1>12

\* What the path of length e towards a size is.
OnPath(b, T, dep, s, i, e) ==
    LET path == Path(b, i, s) IN
      /\ e \in 0..SizeBits /\ e = End(path) /\ path[0] = b.head[i]
      /\ \A d \in 0..e : /\ path[d] \in T /\ path[d] \in Nodes(path)
                         /\ b.node[path[d]].index = i /\ dep[path[d]] = d
                         /\ d \in 0..Levels(i) /\ Bits(b, path[d], d) = Prefix(s, i, d)
      /\ \A d \in 0..e : d < e => path[d + 1] = b.node[path[d]].child[Branch(s, i, d)]
      /\ \A d \in 0..SizeBits : d > e => path[d] = NULL
      /\ b.node[path[e]].size # s => /\ b.node[path[e]].child[Branch(s, i, e)] = NULL
                                     /\ \A u \in T : b.node[u].size # s

\* A path in a marked bin is such a path.
LEMMA PathIs ==
    ASSUME NEW b, NEW T, NEW dep, Good(b, T, dep), NEW s \in LargeSizes, NEW i, i = TreeIndex(s), i \in b.treemap
    PROVE  OnPath(b, T, dep, s, i, End(Path(b, i, s)))
<1>. DEFINE path == Path(b, i, s)
            e == End(path)
            S == Held(b)
            first == b.head[i]
            next == NextTo(b, s, i)
            n == SizeBits
<1>1. s \in Words /\ n \in Nat /\ i \in Bins /\ first \in S /\ NULL \notin S
  <2>1. b.head[i] \in T
    BY RootIn
  <2>. QED
    BY <2>1, Sizes, Widths, IndexOf, InTrie, NextTypes
<1>2. IsWalk(path, S, first, next, n)
  BY <1>1, PathWalks
<1>3. /\ e \in 0..n
      /\ e < n => path[e + 1] = NULL
      /\ \A d \in 0..e : path[d] \in S
  <2>. HIDE DEF S, first, next, n, path
  <2>1. /\ End(path) \in 0..n
        /\ End(path) < n => path[End(path) + 1] = NULL
        /\ \A d \in 0..End(path) : path[d] \in S
    BY ONLY <1>1, <1>2, EndOf
  <2>. QED
    BY <2>1
<1>. HIDE DEF e, next, first, n
<1>4. \A d \in 0..e : LET t == path[d] IN
             /\ t \in T /\ b.node[t].index = i /\ dep[t] = d
             /\ d \in 0..Levels(i) /\ Bits(b, t, d) = Prefix(s, i, d)
             /\ d < e => /\ b.node[t].size # s
                         /\ path[d + 1] = b.node[t].child[Branch(s, i, d)]
  BY <1>1, <1>3, PathRounds DEF n
<1>5. \A d \in 0..e : path[d] \in Nodes(path)
  <2>. TAKE d \in 0..e
  <2>1. d \in 0..n /\ path[d] # NULL
    BY <1>1, <1>3
  <2>. HIDE DEF path
  <2>2. d \in DOMAIN path
    BY <1>2, <2>1 DEF IsWalk
  <2>. QED
    BY <2>1, <2>2 DEF Nodes, Range
<1>6. \A d \in 0..n : d > e => path[d] = NULL
  <2>. DEFINE Bad == {d \in 0..n : d > e /\ path[d] # NULL}
  <2>. SUFFICES ASSUME NEW x \in Bad PROVE FALSE
    OBVIOUS
  <2>1. Bad \in SUBSET Nat
    BY <1>1
  <2>2. PICK k \in Bad : \A y \in Bad : k <= y
    <3>. HIDE DEF Bad
    <3>. QED
      BY <2>1, LeastExists
  <2>3. k \in 1..n /\ k - 1 \in 0..n /\ k > e /\ path[k] # NULL /\ e \in Nat
    BY <1>1, <1>3
  <2>. HIDE DEF path
  <2>4. path[k] = IF path[k - 1] = NULL THEN NULL ELSE next[k - 1][path[k - 1]]
    BY <1>2, <2>3 DEF IsWalk
  <2>5. path[k - 1] # NULL
    BY <2>3, <2>4
  <2>6. ~(k - 1 > e)
    <3>. SUFFICES ASSUME k - 1 > e PROVE FALSE
      OBVIOUS
    <3>1. k - 1 \in Bad
      BY <2>3, <2>5
    <3>2. k <= k - 1
      BY <2>2, <3>1
    <3>. QED
      BY <2>3, <3>2
  <2>7. k = e + 1 /\ e < n
    BY <1>1, <2>3, <2>6
  <2>. QED
    BY <1>3, <2>3, <2>7
<1>7. path[0] = b.head[i]
  <2>. HIDE DEF path
  <2>. QED
    BY <1>2 DEF IsWalk, first
<1>8. b.node[path[e]].size # s => b.node[path[e]].child[Branch(s, i, e)] = NULL
  <2>. HIDE DEF path
  <2>1. LET j == TreeIndex(s)
            way == Path(b, j, s)
            f == End(way)
            t == way[f]
        IN b.node[t].size # s => b.node[t].child[Branch(s, j, f)] = NULL
    BY PathFinds
  <2>. QED
    BY <2>1 DEF path, e
<1>9. b.node[path[e]].size # s => \A u \in T : b.node[u].size # s
  BY NewSize DEF e
<1>. HIDE DEF path
<1>10. OnPath(b, T, dep, s, i, e)
  <2>1. \A d \in 0..e : /\ path[d] \in T /\ path[d] \in Nodes(path)
                        /\ b.node[path[d]].index = i /\ dep[path[d]] = d
                        /\ d \in 0..Levels(i) /\ Bits(b, path[d], d) = Prefix(s, i, d)
    BY <1>4, <1>5
  <2>2. \A d \in 0..e : d < e => path[d + 1] = b.node[path[d]].child[Branch(s, i, d)]
    BY <1>4
  <2>. QED
    BY <1>3, <1>6, <1>7, <1>8, <1>9, <2>1, <2>2 DEF OnPath, path, e, n
<1>. QED
  BY <1>10 DEF e, path

\* The rounds in which a path goes left and there is a right child too.
Aside(b, path, i, nb) ==
    {d \in 0..SizeBits : path[d] # NULL /\ Branch(nb, i, d) = 0 /\ b.node[path[d]].child[1] # NULL}

\* What is to the right of a path that goes left is larger than what it is towards.
LEMMA AsideLarger ==
    ASSUME NEW b, NEW T, NEW dep, Good(b, T, dep), NEW nb \in LargeSizes, NEW i, i = TreeIndex(nb), i \in b.treemap,
           NEW d \in Aside(b, Path(b, i, nb), i, nb)
    PROVE  LET p == Path(b, i, nb)[d]
               c == b.node[p].child[1]
           IN /\ d \in 0..End(Path(b, i, nb)) /\ d \in 0..(Levels(i) - 1)
              /\ p \in T /\ dep[p] = d /\ Bits(b, p, d) = Prefix(nb, i, d)
              /\ c \in T /\ c # NULL /\ c \in Subtrie(b, T, dep, c)
              /\ \A u \in Subtrie(b, T, dep, c) :
                   /\ u \in T /\ b.node[u].index = i /\ b.node[u].size > nb
                   /\ Bits(b, u, d + 1) = Prefix(nb, i, d + 1) + 1
<1>. DEFINE path == Path(b, i, nb)
            p == path[d]
            c == b.node[p].child[1]
            e == End(path)
<1>1. OnPath(b, T, dep, nb, i, e)
  BY PathIs
<1>2. d \in 0..SizeBits /\ p # NULL /\ Branch(nb, i, d) = 0 /\ c # NULL
  BY DEF Aside
<1>3. d \in 0..e
  <2>1. e \in 0..SizeBits /\ SizeBits \in Nat
    BY <1>1, Widths DEF OnPath
  <2>2. ~(d > e)
    BY <1>1, <1>2 DEF OnPath
  <2>. QED
    BY <1>2, <2>1, <2>2
<1>4. p \in T /\ b.node[p].index = i /\ dep[p] = d /\ d \in 0..Levels(i) /\ Bits(b, p, d) = Prefix(nb, i, d)
  BY <1>1, <1>3 DEF OnPath
<1>. HIDE DEF p, e, path
<1>5. c \in T /\ dep[c] = d + 1 /\ d \in 0..(Levels(i) - 1) /\ b.node[c].index = i
  BY <1>2, <1>4, ChildIn
<1>6. c \in Subtrie(b, T, dep, c)
  <2>1. dep[c] \in Nat
    BY <1>5, InTrie
  <2>. QED
    BY <1>5, <2>1 DEF Subtrie
<1>7. i \in Bins /\ Levels(i) \in 1..SizeBits /\ SizeBits \in Nat
  BY IndexOf, LevelsOf, Widths
<1>8. /\ Prefix(nb, i, d + 1) = 2 * Prefix(nb, i, d) + 0
      /\ Prefix(nb, i, d) \in Nat /\ d \in 0..Levels(i) /\ d + 1 \in 0..Levels(i)
  <2>1. Prefix(nb, i, d + 1) = 2 * Prefix(nb, i, d) + Branch(nb, i, d)
    BY <1>5, <1>7, PrefixStep
  <2>2. d \in 0..Levels(i) /\ d + 1 \in 0..Levels(i)
    BY <1>5, <1>7
  <2>. QED
    BY <1>2, <1>7, <2>1, <2>2, PrefixType
<1>9. ASSUME NEW u \in Subtrie(b, T, dep, c)
      PROVE  /\ u \in T /\ b.node[u].index = i /\ b.node[u].size > nb
             /\ Bits(b, u, d + 1) = Prefix(nb, i, d + 1) + 1
  <2>1. u \in T /\ b.node[u].index = i
    BY <1>5 DEF Subtrie
  <2>2. Bits(b, u, d + 1) = 2 * Bits(b, p, d) + 1
    BY <1>2, <1>4, Ascends
  <2>3. Bits(b, u, d + 1) = Prefix(nb, i, d + 1) + 1
    BY <1>4, <1>8, <2>2
  <2>. DEFINE s == b.node[u].size
              f == d + 1
  <2>4. s \in LargeSizes
    BY <2>1, InTrie
  <2>5. Prefix(s, i, f) = Prefix(nb, i, f) + 1 /\ f \in 0..Levels(i) /\ Prefix(nb, i, f) \in Nat
    BY <1>8, <2>1, <2>3 DEF Bits
  <2>. HIDE DEF s, f
  <2>6. Prefix(nb, i, f) < Prefix(s, i, f)
    BY <2>5
  <2>7. nb < s
    BY <1>7, <2>4, <2>5, <2>6, PrefixOrder
  <2>8. nb \in Nat /\ s \in Nat
    BY <2>4, Sizes
  <2>. QED
    BY <2>1, <2>3, <2>7, <2>8 DEF s
<1>. HIDE DEF c
<1>10. /\ d \in 0..e /\ d \in 0..(Levels(i) - 1)
       /\ p \in T /\ dep[p] = d /\ Bits(b, p, d) = Prefix(nb, i, d)
       /\ c \in T /\ c # NULL /\ c \in Subtrie(b, T, dep, c)
       /\ \A u \in Subtrie(b, T, dep, c) :
            /\ u \in T /\ b.node[u].index = i /\ b.node[u].size > nb
            /\ Bits(b, u, d + 1) = Prefix(nb, i, d + 1) + 1
  BY <1>2, <1>3, <1>4, <1>5, <1>6, <1>9
<1>. QED
  BY <1>10 DEF c, p, path, e

\* rst is beside the path at the last of these rounds.
LEMMA UntakenIs ==
    ASSUME NEW b, NEW path, NEW i, NEW nb
    PROVE  LET left == Aside(b, path, i, nb)
               rst == DeepestUntaken(b, path, i, nb)
           IN /\ left = {} => rst = NULL
              /\ left # {} => /\ Max(left) \in left /\ \A d \in left : d <= Max(left)
                              /\ rst = b.node[path[Max(left)]].child[1]
<1>. DEFINE left == Aside(b, path, i, nb)
<1>1. DeepestUntaken(b, path, i, nb) = IF left = {} THEN NULL ELSE b.node[path[Max(left)]].child[1]
  BY DEF DeepestUntaken, Aside
<1>2. left \in SUBSET (0..SizeBits) /\ SizeBits \in Nat
  BY Widths DEF Aside
<1>. HIDE DEF left
<1>3. left # {} => Max(left) \in left /\ \A d \in left : d <= Max(left)
  BY <1>2, GreatestOf
<1>4. /\ left = {} => DeepestUntaken(b, path, i, nb) = NULL
      /\ left # {} => /\ Max(left) \in left /\ \A d \in left : d <= Max(left)
                      /\ DeepestUntaken(b, path, i, nb) = b.node[path[Max(left)]].child[1]
  BY <1>1, <1>3
<1>. QED
  BY <1>4 DEF left

\* The least chunk of nb's bin, whose size is i, that nb fits in; nb itself is no size in it.
LeastInBin(b, T, nb, i, m) ==
    /\ nb \in LargeSizes /\ i = TreeIndex(nb) /\ i \in b.treemap
    /\ b.node[Path(b, i, nb)[End(Path(b, i, nb))]].size # nb
    /\ m \in T /\ b.node[m].index = i /\ nb <= b.node[m].size
    /\ \A u \in T : b.node[u].index = i /\ nb <= b.node[u].size => b.node[m].size <= b.node[u].size

\* Where the path leaves the way to that chunk it goes left, and the chunk is to the right.
LEMMA LeavesLeast ==
    ASSUME NEW b, NEW T, NEW dep, Good(b, T, dep), NEW nb, NEW i, NEW m, LeastInBin(b, T, nb, i, m),
           m \notin Nodes(Path(b, i, nb))
    PROVE  \E d \in Aside(b, Path(b, i, nb), i, nb) :
             m \in Subtrie(b, T, dep, b.node[Path(b, i, nb)[d]].child[1])
<1>. DEFINE path == Path(b, i, nb)
            e == End(path)
            s == b.node[m].size
            P == {d \in 0..e : m \in Subtrie(b, T, dep, path[d])}
<1>0. nb \in LargeSizes /\ i = TreeIndex(nb) /\ i \in b.treemap /\ b.node[path[e]].size # nb
      /\ m \in T /\ b.node[m].index = i /\ nb <= s /\ m \notin Nodes(path)
  BY DEF LeastInBin
<1>1. OnPath(b, T, dep, nb, i, e)
  BY <1>0, PathIs
<1>. HIDE DEF path, e
<1>2. e \in 0..SizeBits /\ path[0] = b.head[i] /\ SizeBits \in Nat /\ e \in Nat /\ e = End(path)
  BY <1>1, Widths DEF OnPath, path, e
<1>3. 0 \in P
  BY <1>0, <1>2, RootSubtrie
<1>4. PICK d \in P : \A y \in P : y <= d
  <2>1. P \in SUBSET (0..e) /\ P # {}
    BY <1>3
  <2>2. Max(P) \in P /\ \A y \in P : y <= Max(P)
    <3>. HIDE DEF P
    <3>. QED
      BY <1>2, <2>1, GreatestOf
  <2>. QED
    BY <2>2
<1>. DEFINE p == path[d]
            g == Branch(nb, i, d)
            h == Turn(b, m, dep[p])
            c == b.node[p].child[h]
<1>5. /\ d \in 0..e /\ m \in Subtrie(b, T, dep, p) /\ p \in T /\ p \in Nodes(path)
      /\ b.node[p].index = i /\ dep[p] = d /\ d \in 0..Levels(i) /\ Bits(b, p, d) = Prefix(nb, i, d)
      /\ d < e => path[d + 1] = b.node[p].child[g]
      /\ d \in Nat
  BY <1>1, <1>2, <1>4 DEF OnPath, path, e
<1>6. m # p
  BY <1>0, <1>5
<1>7. h \in {0, 1} /\ c # NULL /\ m \in Subtrie(b, T, dep, c) /\ d \in 0..(Levels(i) - 1)
  BY <1>5, <1>6, Descends
<1>8. g # h
  <2>. SUFFICES ASSUME g = h PROVE FALSE
    OBVIOUS
  <2>1. CASE d < e
    <3>1. path[d + 1] = c
      BY <1>5, <2>1
    <3>2. d + 1 \in 0..e
      BY <1>2, <1>5, <2>1
    <3>3. d + 1 \in P
      BY <1>7, <3>1, <3>2
    <3>4. d + 1 <= d
      BY <1>4, <3>3
    <3>. QED
      BY <1>5, <3>4
  <2>2. CASE d = e
    <3>1. b.node[path[e]].child[Branch(nb, i, e)] = NULL
      BY <1>0, <1>1 DEF OnPath, path, e
    <3>. QED
      BY <1>7, <2>2, <3>1
  <2>. QED
    BY <1>2, <1>5, <2>1, <2>2
<1>. HIDE DEF P, p
<1>9. /\ i \in Bins /\ s \in LargeSizes /\ Levels(i) \in 1..SizeBits
      /\ nb \in Nat /\ s \in Nat /\ d + 1 \in 0..Levels(i) /\ d \in 0..Levels(i)
  BY <1>0, <1>2, <1>7, InTrie, Sizes
<1>10. Bits(b, m, d) = Prefix(nb, i, d)
  BY <1>5 DEF Subtrie
<1>. DEFINE x == Prefix(nb, i, d)
<1>11. Prefix(s, i, d + 1) = 2 * x + h
  <2>1. h = Branch(s, i, d)
    BY <1>0, <1>5 DEF Turn
  <2>2. Prefix(s, i, d) = x
    BY <1>0, <1>10 DEF Bits
  <2>. HIDE DEF s, h, x
  <2>3. Prefix(s, i, d + 1) = 2 * Prefix(s, i, d) + Branch(s, i, d)
    BY <1>7, <1>9, PrefixStep
  <2>. QED
    BY <2>1, <2>2, <2>3
<1>12. Prefix(nb, i, d + 1) = 2 * x + g /\ g \in {0, 1}
  BY <1>0, <1>7, <1>9, PrefixStep
<1>13. x \in Nat
  BY <1>0, <1>9, PrefixType
<1>. HIDE DEF s, h, g, x
<1>14. g = 0 /\ h = 1
  <2>. SUFFICES ASSUME g = 1, h = 0 PROVE FALSE
    BY <1>7, <1>8, <1>12
  <2>1. Prefix(s, i, d + 1) < Prefix(nb, i, d + 1)
    BY <1>11, <1>12, <1>13
  <2>2. s < nb
    BY <1>0, <1>9, <2>1, PrefixOrder
  <2>. QED
    BY <1>0, <1>9, <2>2
<1>15. d \in Aside(b, path, i, nb)
  <2>1. p # NULL
    BY <1>5, InTrie, Names
  <2>. QED
    BY <1>2, <1>5, <1>7, <1>14, <2>1 DEF Aside, p, g
<1>. QED
  BY <1>7, <1>14, <1>15 DEF path, p

\* Where a path first goes left with something larger to the right, the least that fits is there.
LEMMA LeastBeside ==
    ASSUME NEW b, NEW T, NEW dep, Good(b, T, dep), NEW nb, NEW i, NEW m, LeastInBin(b, T, nb, i, m),
           m \notin Nodes(Path(b, i, nb))
    PROVE  LET rst == DeepestUntaken(b, Path(b, i, nb), i, nb) IN
             /\ rst \in T /\ rst # NULL /\ m \in Subtrie(b, T, dep, rst)
             /\ \A u \in Subtrie(b, T, dep, rst) : b.node[m].size <= b.node[u].size
<1>. DEFINE path == Path(b, i, nb)
            left == Aside(b, path, i, nb)
            rst == DeepestUntaken(b, path, i, nb)
            c(d) == b.node[path[d]].child[1]
<1>0. nb \in LargeSizes /\ i = TreeIndex(nb) /\ i \in b.treemap
      /\ m \in T /\ b.node[m].index = i /\ i \in Bins /\ nb \in Nat /\ SizeBits \in Nat
  BY InTrie, Sizes, Widths DEF LeastInBin
<1>1. PICK d \in left : m \in Subtrie(b, T, dep, c(d))
  BY LeavesLeast
<1>. DEFINE e == Max(left)
<1>2. e \in left /\ d <= e /\ rst = c(e)
  BY <1>1, UntakenIs
<1>3. ASSUME NEW f \in left
      PROVE  /\ f \in 0..(Levels(i) - 1) /\ c(f) \in T /\ c(f) # NULL /\ c(f) \in Subtrie(b, T, dep, c(f))
             /\ \A u \in Subtrie(b, T, dep, c(f)) :
                  /\ u \in T /\ b.node[u].index = i /\ b.node[u].size > nb
                  /\ Bits(b, u, f + 1) = Prefix(nb, i, f + 1) + 1
  BY <1>0, AsideLarger
<1>4. Levels(i) \in 1..SizeBits /\ d \in Nat /\ e \in Nat
      /\ d + 1 \in 0..Levels(i) /\ e + 1 \in 0..Levels(i) /\ e \in 0..(Levels(i) - 1)
  BY <1>0, <1>1, <1>2, <1>3, LevelsOf
<1>. HIDE DEF e, left, rst
<1>5. ASSUME NEW u \in Subtrie(b, T, dep, c(e)) PROVE b.node[m].size <= b.node[u].size
  <2>1. u \in T /\ b.node[u].index = i /\ b.node[u].size > nb
    BY <1>2, <1>3
  <2>2. b.node[u].size \in Nat
    BY <2>1, InTrie, Sizes
  <2>3. nb <= b.node[u].size
    BY <1>0, <2>1, <2>2
  <2>. QED
    BY <2>1, <2>3 DEF LeastInBin
<1>6. e = d
  <2>. SUFFICES ASSUME d < e PROVE FALSE
    BY <1>2, <1>4
  <2>. DEFINE r == c(e)
              v == b.node[r].size
              k == d + 1
  <2>1. r \in T /\ r \in Subtrie(b, T, dep, r) /\ b.node[r].index = i
    BY <1>2, <1>3
  <2>2. b.node[m].size <= v
    BY <1>5, <2>1
  <2>3. v \in LargeSizes /\ b.node[m].size \in Nat /\ v \in Nat
    <3>1. v \in LargeSizes
      BY <2>1, InTrie
    <3>2. b.node[m].size \in LargeSizes
      BY <1>0, InTrie
    <3>3. \A s \in LargeSizes : s \in Nat
      BY Sizes
    <3>. HIDE DEF v
    <3>. QED
      BY <3>1, <3>2, <3>3
  <2>4. Bits(b, r, e) = Prefix(nb, i, e)
    <3>1. LET p == path[e] IN p \in T /\ dep[p] = e /\ Bits(b, p, e) = Prefix(nb, i, e)
      BY <1>0, <1>2, AsideLarger DEF left
    <3>2. Bits(b, r, e) = Bits(b, path[e], e)
      BY <1>2, <1>3, <3>1, ChildIn
    <3>. QED
      BY <3>1, <3>2
  <2>5. k \in 0..e /\ e \in 0..Levels(i) /\ k \in 0..Levels(i)
    BY <1>4
  <2>6. Prefix(v, i, k) = Prefix(nb, i, k)
    <3>1. Prefix(v, i, e) = Prefix(nb, i, e)
      BY <2>1, <2>4 DEF Bits
    <3>. HIDE DEF v, k
    <3>. QED
      BY <1>0, <2>3, <2>5, <3>1, PrefixAbove
  <2>7. Bits(b, m, k) = Prefix(nb, i, k) + 1
    BY <1>1, <1>3
  <2>8. Prefix(nb, i, k) \in Nat
    <3>. HIDE DEF k
    <3>. QED
      BY <1>0, <2>5, PrefixType
  <2>9. Bits(b, r, k) < Bits(b, m, k)
    BY <2>1, <2>6, <2>7, <2>8 DEF Bits
  <2>. HIDE DEF r, k
  <2>10. b.node[r].size < b.node[m].size
    BY <1>0, <2>1, <2>5, <2>9, BitsOrder
  <2>. QED
    BY <2>2, <2>3, <2>10 DEF r
<1>7. rst \in T /\ rst # NULL /\ m \in Subtrie(b, T, dep, rst)
  BY <1>1, <1>2, <1>3, <1>6
<1>8. \A u \in Subtrie(b, T, dep, rst) : b.node[m].size <= b.node[u].size
  BY <1>2, <1>5
<1>. QED
  BY <1>7, <1>8 DEF rst, path

\* Chunk v is a least one of T that nb fits in, or there is none.
BestOf(b, T, nb, v) ==
    /\ v \in T \cup {NULL}
    /\ v = NULL => \A t \in T : b.node[t].size < nb
    /\ v # NULL => /\ nb <= b.node[v].size
                   /\ \A t \in T : nb <= b.node[t].size => b.node[v].size <= b.node[t].size

\* A search that sees one as small as any chunk takes the best.
LEMMA SeesBest ==
    ASSUME NEW b, NEW T, NEW dep, Good(b, T, dep), NEW nb \in Words \ {0}, NEW seen \in SUBSET T,
           \/ \A t \in T : b.node[t].size < nb
           \/ \E u \in seen : /\ nb <= b.node[u].size
                              /\ \A t \in T : nb <= b.node[t].size => b.node[u].size <= b.node[t].size
    PROVE  BestOf(b, T, nb, Smallest(b, seen, nb))
<1>. DEFINE v == Smallest(b, seen, nb)
<1>1. seen \in SUBSET Held(b) /\ BinsOk(b) /\ NULL \notin T
  BY Names, InTrie DEF Good, Tries
<1>2. \/ v = NULL /\ \A t \in seen : b.node[t].size < nb
      \/ /\ v \in seen /\ b.node[v].size >= nb
         /\ \A t \in seen : b.node[t].size >= nb => b.node[v].size <= b.node[t].size
  BY <1>1, SmallestOf
<1>3. nb \in Nat /\ \A t \in T : b.node[t].size \in Nat
  <2>1. \A t \in T : b.node[t].size \in LargeSizes
    BY InTrie
  <2>. QED
    BY <2>1, Sizes
<1>. HIDE DEF v
<1>4. BestOf(b, T, nb, v)
  <2>1. CASE \A t \in T : b.node[t].size < nb
    <3>1. v = NULL
      <4>. SUFFICES ASSUME v \in seen, b.node[v].size >= nb PROVE FALSE
        BY <1>2
      <4>. QED
        BY <1>3, <2>1
    <3>. QED
      BY <2>1, <3>1 DEF BestOf
  <2>2. ASSUME NEW u \in seen, nb <= b.node[u].size,
               \A t \in T : nb <= b.node[t].size => b.node[u].size <= b.node[t].size
        PROVE  BestOf(b, T, nb, v)
    <3>1. v \in seen /\ b.node[v].size >= nb /\ b.node[v].size <= b.node[u].size
      BY <1>2, <1>3, <2>2
    <3>2. nb <= b.node[v].size
      BY <1>3, <3>1
    <3>3. ASSUME NEW t \in T, nb <= b.node[t].size PROVE b.node[v].size <= b.node[t].size
      <4>1. b.node[u].size <= b.node[t].size
        BY <2>2, <3>3
      <4>2. v \in T /\ u \in T
        BY <3>1
      <4>. QED
        BY <1>3, <3>1, <4>1, <4>2
    <3>. QED
      BY <1>1, <3>1, <3>2, <3>3 DEF BestOf
  <2>. QED
    BY <2>1, <2>2
<1>. QED
  BY <1>4 DEF v

\* The least chunk of some bins is below the first of their roots.
LEMMA FirstLeast ==
    ASSUME NEW b, NEW T, NEW dep, Good(b, T, dep), NEW I \in SUBSET b.treemap,
           NEW m \in T, b.node[m].index \in I,
           \A u \in T : b.node[u].index \in I => b.node[m].size <= b.node[u].size
    PROVE  LET r == FirstRoot(b, I) IN
             /\ r \in T /\ r # NULL /\ m \in Subtrie(b, T, dep, r)
             /\ \A u \in Subtrie(b, T, dep, r) : b.node[m].size <= b.node[u].size
<1>. DEFINE j == Min(I)
            r == b.head[j]
<1>1. I \in SUBSET Nat /\ b.treemap \subseteq Bins
  <2>1. b.treemap \subseteq Bins
    BY DEF Good, Tries, RootsOk
  <2>. QED
    BY <2>1 DEF Bins
<1>2. j \in I /\ \A k \in I : j <= k
  BY <1>1, LeastOf
<1>3. FirstRoot(b, I) = r
  BY DEF FirstRoot
<1>. HIDE DEF j
<1>4. r \in T /\ r # NULL /\ b.node[r].index = j
  BY <1>2, RootIn
<1>5. j = b.node[m].index
  <2>. DEFINE s == b.node[m].size
              v == b.node[r].size
  <2>1. s \in LargeSizes /\ v \in LargeSizes /\ TreeIndex(s) = b.node[m].index /\ TreeIndex(v) = j
    BY <1>4, InTrie
  <2>2. s <= v
    BY <1>2, <1>4
  <2>. HIDE DEF s, v
  <2>3. TreeIndex(s) <= TreeIndex(v)
    BY <2>1, <2>2, IndexOrder
  <2>4. b.node[m].index \in Nat /\ j \in Nat
    BY <1>1, <1>2
  <2>. QED
    BY <1>2, <2>1, <2>3, <2>4
<1>6. Subtrie(b, T, dep, r) = {u \in T : b.node[u].index = j}
  BY <1>2, RootSubtrie
<1>. HIDE DEF r
<1>7. /\ r \in T /\ r # NULL /\ m \in Subtrie(b, T, dep, r)
      /\ \A u \in Subtrie(b, T, dep, r) : b.node[m].size <= b.node[u].size
  BY <1>2, <1>4, <1>5, <1>6
<1>. QED
  BY <1>3, <1>7

\* tmalloc_small takes a best chunk of the tries.
LEMMA BestSmallIs ==
    ASSUME NEW b, NEW T, NEW dep, Good(b, T, dep), NEW nb \in Words \ {0}, nb < MinLarge
    PROVE  BestOf(b, T, nb, BestSmall(b, nb))
<1>. DEFINE I == b.treemap
            root == FirstRoot(b, I)
            seen == Nodes(LeftmostPath(b, root))
<1>1. BestSmall(b, nb) = Smallest(b, seen, nb)
  BY DEF BestSmall
<1>2. nb \in Nat /\ \A t \in T : b.node[t].size \in Nat /\ nb <= b.node[t].size
  <2>1. \A t \in T : b.node[t].size \in LargeSizes
    BY InTrie
  <2>2. nb \in Nat /\ MinLarge \in Nat /\ \A s \in LargeSizes : s \in Nat /\ s >= MinLarge
    BY Sizes DEF LargeSizes
  <2>. QED
    BY <2>1, <2>2
<1>3. CASE T = {}
  <2>1. root = NULL
    <3>1. I = {}
      BY <1>3 DEF Good, Tries, RootsOk
    <3>. QED
      BY <3>1 DEF FirstRoot
  <2>2. seen \subseteq T
    BY <2>1, LeftmostInTrie
  <2>. HIDE DEF seen
  <2>. QED
    BY <1>1, <1>3, <2>2, SeesBest
<1>4. CASE T # {}
  <2>. DEFINE S == {b.node[t].size : t \in T}
  <2>1. PICK t \in T : TRUE
    BY <1>4
  <2>2. S \in SUBSET Nat /\ b.node[t].size \in S
    BY <1>2
  <2>3. PICK k \in S : \A y \in S : k <= y
    <3>. HIDE DEF S
    <3>. QED
      BY <2>2, LeastExists
  <2>4. PICK m \in T : k = b.node[m].size
    BY <2>3
  <2>5. \A u \in T : b.node[m].size <= b.node[u].size
    BY <2>3, <2>4
  <2>6. b.node[m].index \in I
    BY BinMarked
  <2>7. /\ root \in T /\ m \in Subtrie(b, T, dep, root)
        /\ \A u \in Subtrie(b, T, dep, root) : b.node[m].size <= b.node[u].size
    BY <2>5, <2>6, FirstLeast
  <2>. HIDE DEF root
  <2>8. seen \subseteq T /\ m \in seen
    BY <2>7, LeftmostInTrie, LeastLeft
  <2>. HIDE DEF seen
  <2>9. \E u \in seen : /\ nb <= b.node[u].size
                        /\ \A x \in T : nb <= b.node[x].size => b.node[u].size <= b.node[x].size
    BY <1>2, <2>5, <2>8
  <2>. QED
    BY <1>1, <2>8, <2>9, SeesBest
<1>. QED
  BY <1>3, <1>4

\* If the least chunk that fits is in the request's bin, a search without that size sees it.
LEMMA SeenInBin ==
    ASSUME NEW b, NEW T, NEW dep, Good(b, T, dep), NEW nb, NEW i, NEW m, LeastInBin(b, T, nb, i, m),
           m \notin Nodes(Path(b, i, nb))
    PROVE  LET rst == DeepestUntaken(b, Path(b, i, nb), i, nb) IN
             rst # NULL /\ m \in Nodes(LeftmostPath(b, rst))
<1>. DEFINE rst == DeepestUntaken(b, Path(b, i, nb), i, nb)
<1>1. /\ rst \in T /\ rst # NULL /\ m \in Subtrie(b, T, dep, rst)
      /\ \A u \in Subtrie(b, T, dep, rst) : b.node[m].size <= b.node[u].size
  BY LeastBeside
<1>. HIDE DEF rst
<1>2. m \in Nodes(LeftmostPath(b, rst))
  BY <1>1, LeastLeft
<1>. QED
  BY <1>1, <1>2 DEF rst

\* Nothing fits beside the path if nothing of the bin fits.
LEMMA NoneBeside ==
    ASSUME NEW b, NEW T, NEW dep, Good(b, T, dep), NEW nb \in LargeSizes, NEW i, i = TreeIndex(nb),
           \A u \in T : b.node[u].index = i => b.node[u].size < nb
    PROVE  /\ DeepestUntaken(b, Path(b, i, nb), i, nb) = NULL
           /\ Smallest(b, Nodes(Path(b, i, nb)), nb) = NULL
<1>. DEFINE path == Path(b, i, nb)
            rst == DeepestUntaken(b, path, i, nb)
            left == Aside(b, path, i, nb)
<1>1. i \in Bins /\ nb \in Words \ {0} /\ nb \in Nat /\ BinsOk(b)
      /\ \A t \in T : b.node[t].size \in Nat
  <2>1. \A t \in T : b.node[t].size \in LargeSizes
    BY InTrie
  <2>. QED
    BY <2>1, IndexOf, Sizes DEF Good
<1>2. Nodes(path) \subseteq {t \in T : b.node[t].index = i} /\ T \subseteq Held(b)
  BY <1>1, PathInTrie DEF Good, Tries
<1>3. Smallest(b, Nodes(path), nb) = NULL
  <2>. DEFINE seen == Nodes(path)
              v == Smallest(b, seen, nb)
  <2>1. seen \in SUBSET Held(b)
    BY <1>2
  <2>2. v = NULL \/ (v \in seen /\ b.node[v].size >= nb)
    <3>. HIDE DEF seen
    <3>. QED
      BY <1>1, <2>1, SmallestOf
  <2>3. ~(v \in seen /\ b.node[v].size >= nb)
    BY <1>1, <1>2
  <2>. QED
    BY <2>2, <2>3
<1>4. left = {}
  <2>. SUFFICES ASSUME NEW d \in left PROVE FALSE
    OBVIOUS
  <2>. DEFINE p == path[d]
              c == b.node[p].child[1]
  <2>1. p # NULL
    BY DEF Aside
  <2>2. i \in b.treemap
    <3>1. d \in 0..SizeBits /\ IsWalk(path, Held(b), b.head[i], NextTo(b, nb, i), SizeBits)
      BY <1>1, PathWalks DEF Aside
    <3>2. p \in Nodes(path)
      <4>. HIDE DEF path
      <4>1. d \in DOMAIN path
        BY <3>1 DEF IsWalk
      <4>. QED
        BY <2>1, <4>1 DEF Nodes, Range
    <3>. QED
      BY <1>2, <3>2, BinMarked
  <2>3. c \in T /\ c \in Subtrie(b, T, dep, c)
        /\ \A u \in Subtrie(b, T, dep, c) : u \in T /\ b.node[u].index = i /\ b.node[u].size > nb
    BY <2>2, AsideLarger
  <2>. QED
    BY <1>1, <2>3
<1>5. rst = NULL
  BY <1>4, UntakenIs
<1>. QED
  BY <1>3, <1>5

\* tmalloc_large takes a best chunk of the tries.
LEMMA BestLargeIs ==
    ASSUME NEW b, NEW T, NEW dep, Good(b, T, dep), NEW nb \in LargeSizes
    PROVE  BestOf(b, T, nb, BestLarge(b, nb))
<1>. DEFINE i == TreeIndex(nb)
            path == Path(b, i, nb)
            e == End(path)
            exact == Nodes(path) # {} /\ SizeOf(b, path[e]) = nb
            rst == DeepestUntaken(b, path, i, nb)
            I == {j \in b.treemap : j > i}
            t == IF exact THEN path[e]
                 ELSE IF rst = NULL /\ Smallest(b, Nodes(path), nb) = NULL
                 THEN FirstRoot(b, I)
                 ELSE rst
            seen == Nodes(path) \cup Nodes(LeftmostPath(b, t))
<1>1. BestLarge(b, nb) = Smallest(b, seen, nb)
  BY DEF BestLarge
<1>2. i \in Bins /\ i \in Nat /\ nb \in Words \ {0} /\ nb \in Nat
      /\ b.treemap \subseteq Bins /\ Bins \subseteq Nat
  BY IndexOf, Sizes DEF Good, Tries, RootsOk, Bins
<1>3. \A x \in T : b.node[x].size \in Nat /\ b.node[x].size \in LargeSizes
                   /\ b.node[x].index = TreeIndex(b.node[x].size) /\ b.node[x].index \in b.treemap
                   /\ b.node[x].index \in Nat
  <2>1. \A x \in T : b.node[x].size \in LargeSizes
                     /\ b.node[x].index = TreeIndex(b.node[x].size)
    BY InTrie
  <2>2. \A x \in T : b.node[x].index \in b.treemap
    BY BinMarked
  <2>. QED
    BY <1>2, <2>1, <2>2, Sizes
<1>4. Nodes(path) \subseteq {x \in T : b.node[x].index = i}
  BY <1>2, PathInTrie
<1>5. Nodes(path) # {} => i \in b.treemap
  BY <1>3, <1>4
<1>6. i \in b.treemap => OnPath(b, T, dep, nb, i, e)
  BY PathIs
<1>7. i \in b.treemap => path[e] \in T /\ path[e] \in Nodes(path)
  <2>. SUFFICES ASSUME i \in b.treemap PROVE path[e] \in T /\ path[e] \in Nodes(path)
    OBVIOUS
  <2>1. e \in 0..e
    BY <1>6, Widths DEF OnPath
  <2>. QED
    BY <1>6, <2>1 DEF OnPath
<1>8. rst \in T \cup {NULL}
  <2>. DEFINE left == Aside(b, path, i, nb)
  <2>1. CASE left = {}
    BY <2>1, UntakenIs
  <2>2. CASE left # {}
    <3>1. Max(left) \in left /\ rst = b.node[path[Max(left)]].child[1]
      BY <2>2, UntakenIs
    <3>. DEFINE d == Max(left)
    <3>2. d \in 0..SizeBits /\ path[d] # NULL /\ b.node[path[d]].child[1] # NULL
      BY <3>1 DEF Aside
    <3>. HIDE DEF left
    <3>3. path[d] \in Nodes(path)
      <4>1. IsWalk(path, Held(b), b.head[i], NextTo(b, nb, i), SizeBits)
        BY <1>2, PathWalks
      <4>. HIDE DEF path, d
      <4>2. d \in DOMAIN path
        BY <3>2, <4>1 DEF IsWalk
      <4>. QED
        BY <3>2, <4>2 DEF Nodes, Range
    <3>4. path[d] \in T
      BY <1>4, <3>3
    <3>. HIDE DEF d
    <3>5. b.node[path[d]].child[1] \in T
      BY <3>2, <3>4, ChildIn
    <3>. QED
      BY <3>1, <3>5 DEF d
  <2>. QED
    BY <2>1, <2>2
<1>9. FirstRoot(b, I) \in T \cup {NULL}
  <2>1. CASE I = {}
    BY <2>1 DEF FirstRoot
  <2>2. CASE I # {}
    <3>. DEFINE j == Min(I)
    <3>1. j \in I
      BY <1>2, <2>2, LeastOf
    <3>. HIDE DEF j
    <3>2. b.head[j] \in T
      BY <3>1, RootIn
    <3>. QED
      BY <2>2, <3>2 DEF FirstRoot, j
  <2>. QED
    BY <2>1, <2>2
<1>10. t \in T \cup {NULL}
  <2>. HIDE DEF path, rst, I, i, e
  <2>1. exact => path[e] \in T
    BY <1>5, <1>7
  <2>. QED
    BY <1>8, <1>9, <2>1
<1>11. seen \subseteq T
  <2>. HIDE DEF t
  <2>. QED
    BY <1>4, <1>10, LeftmostInTrie
<1>12. CASE exact
  <2>1. path[e] \in seen /\ b.node[path[e]].size = nb
    BY <1>5, <1>7, <1>12 DEF SizeOf
  <2>2. \E u \in seen : /\ nb <= b.node[u].size
                        /\ \A x \in T : nb <= b.node[x].size => b.node[u].size <= b.node[x].size
    <3>. HIDE DEF seen, path, e
    <3>. QED
      BY <1>2, <2>1
  <2>. HIDE DEF seen
  <2>. QED
    BY <1>1, <1>2, <1>11, <2>2, SeesBest
<1>13. CASE ~exact /\ \A x \in T : b.node[x].size < nb
  <2>. HIDE DEF seen
  <2>. QED
    BY <1>1, <1>2, <1>11, <1>13, SeesBest
<1>14. CASE ~exact /\ \E x \in T : ~(b.node[x].size < nb)
  <2>. DEFINE S == {b.node[x].size : x \in {y \in T : nb <= b.node[y].size}}
  <2>1. PICK x \in T : nb <= b.node[x].size
    BY <1>2, <1>3, <1>14
  <2>2. S \in SUBSET Nat /\ b.node[x].size \in S
    BY <1>3, <2>1
  <2>3. PICK k \in S : \A y \in S : k <= y
    <3>. HIDE DEF S
    <3>. QED
      BY <2>2, LeastExists
  <2>4. PICK m \in T : k = b.node[m].size /\ nb <= b.node[m].size
    BY <2>3
  <2>5. \A u \in T : nb <= b.node[u].size => b.node[m].size <= b.node[u].size
    BY <2>3, <2>4
  <2>. HIDE DEF S
  <2>6. m \in seen
    <3>1. CASE b.node[m].index = i
      <4>1. i \in b.treemap
        BY <1>3, <3>1
      <4>2. b.node[path[e]].size # nb
        BY <1>7, <1>14, <4>1 DEF SizeOf
      <4>3. LeastInBin(b, T, nb, i, m)
        BY <2>4, <2>5, <3>1, <4>1, <4>2 DEF LeastInBin
      <4>4. ASSUME m \notin Nodes(path) PROVE rst # NULL /\ m \in Nodes(LeftmostPath(b, rst))
        <5>. HIDE DEF i
        <5>. QED
          BY <4>3, <4>4, SeenInBin
      <4>5. rst # NULL => t = rst
        BY <1>14
      <4>. HIDE DEF t, path, rst
      <4>. QED
        BY <4>4, <4>5
    <3>2. CASE b.node[m].index # i
      <4>1. ASSUME NEW u \in T, nb <= b.node[u].size PROVE i <= b.node[u].index
        <5>. DEFINE s == b.node[u].size
        <5>1. s \in LargeSizes /\ nb <= s /\ b.node[u].index = TreeIndex(s)
          BY <1>3, <4>1
        <5>. HIDE DEF s
        <5>. QED
          BY <5>1, IndexOrder
      <4>2. i < b.node[m].index
        BY <1>2, <1>3, <2>4, <3>2, <4>1
      <4>3. ASSUME NEW u \in T, b.node[u].index > i PROVE nb < b.node[u].size
        <5>. SUFFICES ASSUME b.node[u].size <= nb PROVE FALSE
          BY <1>2, <1>3
        <5>. DEFINE s == b.node[u].size
        <5>1. s \in LargeSizes /\ s <= nb /\ b.node[u].index = TreeIndex(s)
          BY <1>3
        <5>. HIDE DEF s
        <5>2. TreeIndex(s) <= i
          BY <5>1, IndexOrder
        <5>. QED
          BY <1>2, <1>3, <4>3, <5>1, <5>2
      <4>4. ASSUME NEW u \in T, b.node[u].index = i PROVE b.node[u].size < nb
        <5>. SUFFICES ASSUME nb <= b.node[u].size PROVE FALSE
          BY <1>2, <1>3
        <5>1. b.node[m].size <= b.node[u].size
          BY <2>5
        <5>. DEFINE s == b.node[m].size
                    v == b.node[u].size
        <5>2. s \in LargeSizes /\ v \in LargeSizes /\ s <= v
              /\ b.node[m].index = TreeIndex(s) /\ b.node[u].index = TreeIndex(v)
          BY <1>3, <5>1
        <5>. HIDE DEF s, v
        <5>3. TreeIndex(s) <= TreeIndex(v)
          BY <5>2, IndexOrder
        <5>. QED
          BY <1>2, <1>3, <4>2, <4>4, <5>2, <5>3
      <4>5. rst = NULL /\ Smallest(b, Nodes(path), nb) = NULL
        <5>. HIDE DEF i
        <5>1. i = TreeIndex(nb)
          BY DEF i
        <5>. QED
          BY <4>4, <5>1, NoneBeside
      <4>6. t = FirstRoot(b, I)
        BY <1>14, <4>5
      <4>7. b.node[m].index \in I
        BY <1>3, <4>2
      <4>8. \A u \in T : b.node[u].index \in I => b.node[m].size <= b.node[u].size
        <5>. SUFFICES ASSUME NEW u \in T, b.node[u].index \in I PROVE b.node[m].size <= b.node[u].size
          OBVIOUS
        <5>1. nb < b.node[u].size
          BY <4>3
        <5>2. nb <= b.node[u].size
          BY <1>2, <1>3, <5>1
        <5>. QED
          BY <2>5, <5>2
      <4>9. I \in SUBSET b.treemap
        OBVIOUS
      <4>. HIDE DEF t, I
      <4>10. t \in T /\ m \in Subtrie(b, T, dep, t)
             /\ \A u \in Subtrie(b, T, dep, t) : b.node[m].size <= b.node[u].size
        BY <4>6, <4>7, <4>8, <4>9, FirstLeast
      <4>11. m \in Nodes(LeftmostPath(b, t))
        BY <4>10, LeastLeft
      <4>. QED
        BY <4>11
    <3>. QED
      BY <3>1, <3>2
  <2>. HIDE DEF seen
  <2>7. \E u \in seen : /\ nb <= b.node[u].size
                        /\ \A y \in T : nb <= b.node[y].size => b.node[u].size <= b.node[y].size
    BY <2>4, <2>5, <2>6
  <2>. QED
    BY <1>1, <1>2, <1>11, <2>7, SeesBest
<1>. QED
  BY <1>12, <1>13, <1>14

-----------------------------------------------------------------------------
(* The rings when a chunk comes or leaves. *)

\* The other chunks of a trie stay where they are, and x is alone with its
\* size, or comes before t in the ring of t.
Adds(b, c, x, s) ==
    /\ Joined(b, c, x, s)
    /\ \A u \in Held(b) : c.node[u].parent = b.node[u].parent
    /\ \/ /\ \A u \in Trie(b) : b.node[u].size # s
          /\ c.node[x].bk = x /\ c.node[x].parent # NULL
          /\ \A u \in Held(b) : c.node[u].bk = b.node[u].bk
       \/ \E t \in Trie(b) :
            /\ b.node[t].size = s
            /\ c.node[x].bk = t /\ c.node[x].parent = NULL
            /\ \A u \in Held(b) : c.node[u].bk = IF b.node[u].bk = t THEN x ELSE b.node[u].bk

\* A chunk that hangs in a trie is alone with its size.
LEMMA HungAdds ==
    ASSUME NEW b, NEW dep, NEW x, NEW s, NEW p, NEW c, Hung(b, c, dep, x, s, p), Joined(b, c, x, s),
           BinsOk(b), s \in LargeSizes, x \in Chunks, p \in Chunks \cup {BIN}, \A u \in Trie(b) : b.node[u].size # s
    PROVE  Adds(b, c, x, s)
<1>1. c.node[x] = Node(s, x, x, p)
  BY DEF Hung
<1>2. c.node[x].bk = x /\ c.node[x].parent = p /\ p # NULL
  BY <1>1, NodeIs, Names
<1>3. \A u \in Held(b) : c.node[u].bk = b.node[u].bk /\ c.node[u].parent = b.node[u].parent
  BY DEF Hung
<1>. QED
  BY <1>2, <1>3 DEF Adds

\* A chunk in a ring is before the one in the trie.
LEMMA RingAdds ==
    ASSUME NEW b, NEW T, NEW dep, NEW x, NEW s, NEW t, NEW f, JoinsRing(b, T, dep, x, s, t, f), T = Trie(b),
           NEW c, Ringed(b, c, T, x, s, t, f), Joined(b, c, x, s)
    PROVE  Adds(b, c, x, s)
<1>1. /\ Rings(b) /\ t \in T /\ s = b.node[t].size /\ f = b.node[t].fd /\ t \in Held(b)
  BY DEF JoinsRing, Good, Tries
<1>2. \A u \in Held(b) : b.node[u].bk = t <=> u = f
  BY <1>1 DEF Rings
<1>3. \A u \in Held(b) : c.node[u].bk = (IF b.node[u].bk = t THEN x ELSE b.node[u].bk)
                          /\ c.node[u].parent = b.node[u].parent
  BY <1>2 DEF Ringed
<1>4. c.node[x].bk = t /\ c.node[x].parent = NULL
  BY DEF Ringed
<1>. QED
  BY <1>1, <1>3, <1>4 DEF Adds

\* insert_large_chunk puts a chunk into the trie alone, or into a ring.
LEMMA InsertAdds ==
    ASSUME NEW b, TriesInv(b), NEW x \in Chunks, x \notin Held(b), NEW s \in LargeSizes
    PROVE  Adds(b, InsertLargeChunk(b, x, s), x, s)
<1>1. PICK dep : Tries(b, Trie(b), dep)
  BY DEF TriesInv
<1>. DEFINE T == Trie(b)
            i == TreeIndex(s)
            path == Path(b, i, s)
            e == End(path)
            t == path[e]
            f == b.node[t].fd
<1>2. Good(b, T, dep) /\ b.aborted = FALSE /\ Rings(b) /\ BinsOk(b)
  BY <1>1 DEF TriesInv, Good
<1>3. \A u \in Held(b) : u \in T <=> b.node[u].parent # NULL
  BY DEF Trie
<1>4. T = Trie(b)
  OBVIOUS
<1>. HIDE DEF T
<1>5. Joined(b, InsertLargeChunk(b, x, s), x, s)
  BY Inserted
<1>6. CASE i \notin b.treemap
  <2>. DEFINE c == [AddNode(b, x, Node(s, x, x, BIN)) EXCEPT !.treemap = @ \cup {i}, !.head[i] = x]
  <2>1. InsertLargeChunk(b, x, s) = c
    BY <1>6, Zenon DEF InsertLargeChunk
  <2>2. Hung(b, c, dep, x, s, BIN)
    BY <1>2, RootHung
  <2>. HIDE DEF c
  <2>3. \A u \in Trie(b) : b.node[u].size # s
    <3>. SUFFICES ASSUME NEW u \in T PROVE b.node[u].size # s
      BY <1>4
    <3>1. b.node[u].index = TreeIndex(b.node[u].size) /\ b.node[u].index # i
      BY <1>2, <1>6, BinMarked, InTrie
    <3>. QED
      BY <3>1
  <2>4. BIN \in Chunks \cup {BIN} /\ s \in LargeSizes /\ x \in Chunks
    OBVIOUS
  <2>. QED
    BY <1>2, <1>5, <2>1, <2>2, <2>3, <2>4, HungAdds
<1>7. CASE i \in b.treemap
  <2>1. /\ t \in T /\ b.node[t].index = i /\ dep[t] = e /\ e \in Nat
    BY <1>2, <1>7, PathFinds
  <2>2. CASE b.node[t].size # s
    <3>. DEFINE c == [AddNode(b, x, Node(s, x, x, t)) EXCEPT !.node[t].child[Branch(s, i, e)] = x]
    <3>1. InsertLargeChunk(b, x, s) = c
      BY <1>7, <2>2, Zenon DEF InsertLargeChunk, SizeOf
    <3>2. t \in Held(b) /\ t \in Chunks \cup {BIN} /\ e = dep[t] /\ dep[t] \in Nat
      BY <1>2, <2>1, InTrie
    <3>3. Hung(b, c, dep, x, s, t)
      <4>. HIDE DEF t, e
      <4>. QED
        BY <1>2, <3>2, LeafHung
    <3>. HIDE DEF c
    <3>4. \A u \in Trie(b) : b.node[u].size # s
      BY <1>2, <1>4, <1>7, <2>2, NewSize
    <3>. HIDE DEF t
    <3>. QED
      BY <1>2, <1>5, <3>1, <3>2, <3>3, <3>4, HungAdds
  <2>3. CASE b.node[t].size = s
    <3>. DEFINE c == [AddNode(b, x, Node(s, f, t, NULL)) EXCEPT !.node[t].fd = x, !.node[f].bk = x]
    <3>1. InsertLargeChunk(b, x, s) = c
      BY <1>7, <2>3, Zenon DEF InsertLargeChunk, SizeOf
    <3>2. JoinsRing(b, T, dep, x, s, t, f)
      <4>1. t \in T /\ s = b.node[t].size /\ f = b.node[t].fd
        BY <2>1, <2>3
      <4>. HIDE DEF t, f
      <4>. QED
        BY <1>2, <1>3, <4>1 DEF JoinsRing
    <3>. HIDE DEF t, f
    <3>3. Ringed(b, c, T, x, s, t, f)
      BY <3>2, RingedIs
    <3>. HIDE DEF c
    <3>. QED
      BY <1>4, <1>5, <3>1, <3>2, <3>3, RingAdds
  <2>. QED
    BY <2>2, <2>3
<1>. QED
  BY <1>6, <1>7

\* The chunks but x find each other in their rings, and the next in the ring
\* of x is in the trie for it.
Unlinks(b, c, x) ==
    \A t \in Held(b) \ {x} :
      /\ c.node[t].bk = IF b.node[t].bk = x THEN b.node[x].bk ELSE b.node[t].bk
      /\ c.node[t].parent # NULL <=>
           b.node[t].parent # NULL \/ (b.node[x].parent # NULL /\ t = b.node[x].bk)

\* Chunk r in the place of x is in the trie, and no ring has changed.
LEMMA SwapKeeps ==
    ASSUME NEW f, NEW T, NEW dep, NEW x, NEW r, Fits(f, T, dep, x, r)
    PROVE  LET c == Adopt(Redirect(f, x, r), x, r) IN
             \A t \in Held(f) : /\ c.node[t].bk = f.node[t].bk
                                /\ c.node[t].parent # NULL <=> t = r \/ f.node[t].parent # NULL
<1>. DEFINE m == Redirect(f, x, r)
            c == Adopt(m, x, r)
            p == f.node[x].parent
<1>1. /\ Good(f, T, dep) /\ x \in T /\ r \in Held(f) /\ r \notin T /\ T \subseteq Held(f)
      /\ x \in Held(f) /\ Held(f) \subseteq Chunks
  BY DEF Fits, Good, Tries, BinsOk
<1>2. Redirected(f, m, dep, x, r)
  BY <1>1, RedirectIs
<1>. HIDE DEF m
<1>3. BinsOk(m) /\ Held(m) = Held(f)
  BY <1>2 DEF Redirected, SameChunks
<1>4. Adopted(m, c, x, r)
  BY <1>1, <1>3, AdoptIs
<1>. HIDE DEF c
<1>5. Swapped(f, c, T, dep, x, r)
  BY <1>2, <1>4, SwapIs
<1>6. /\ SameChunks(f, c)
      /\ \A t \in Held(f) :
            c.node[t].parent = IF t = r THEN p
                               ELSE IF t \in T /\ f.node[t].parent = x THEN r
                               ELSE f.node[t].parent
  BY <1>5 DEF Swapped
<1>7. r # NULL /\ p # NULL /\ x # NULL
  BY <1>1, Names, InTrie
<1>8. \A t \in Held(f) : /\ c.node[t].bk = f.node[t].bk
                         /\ c.node[t].parent # NULL <=> t = r \/ f.node[t].parent # NULL
  BY <1>6, <1>7 DEF SameChunks
<1>. QED
  BY <1>8 DEF c, m

\* A chunk that shares its ring leaves it, and the next may take its place.
LEMMA RingUnlinks ==
    ASSUME NEW b, NEW T, NEW dep, NEW x, Leaving(b, T, dep, x), b.node[x].bk # x
    PROVE  Unlinks(b, Relinked(b, x), x)
<1>. DEFINE r == b.node[x].bk
            f == Unring(b, x)
            m == Relinked(b, x)
<1>1. /\ Good(b, T, dep) /\ x \in Held(b) /\ b.aborted = FALSE /\ Rings(b)
      /\ BinsOk(b) /\ Tries(b, T, dep) /\ T \subseteq Held(b)
  BY DEF Leaving, Good, Tries
<1>2. \A t \in Held(b) : t \in T <=> b.node[t].parent # NULL
  BY DEF Leaving
<1>3. SameButRings(b, f) /\ RingsBut(f, x)
  BY <1>1, UnringIs
<1>4. Freed(b, x) = f /\ Replacement(b, x) = r
  BY DEF Freed, Replacement
<1>5. r \in Held(b) /\ b.node[r].size = b.node[x].size /\ r # x
  BY <1>1 DEF Rings
<1>6. \A t \in Held(b) \ {x} : f.node[t].bk = IF b.node[t].bk = x THEN r ELSE b.node[t].bk
  <2>1. \A t \in Held(b) : f.node[t].bk = IF t = b.node[x].fd THEN b.node[x].bk ELSE b.node[t].bk
    BY <1>1, UnringIs
  <2>2. \A t \in Held(b) : b.node[t].bk = x <=> t = b.node[x].fd
    BY <1>1 DEF Rings
  <2>. HIDE DEF f
  <2>. QED
    BY <2>1, <2>2
<1>. HIDE DEF f
<1>7. /\ BinsOk(f) /\ Held(f) = Held(b) /\ f.head = b.head /\ f.treemap = b.treemap
      /\ \A t \in Held(b) :
           /\ f.node[t].size = b.node[t].size /\ f.node[t].index = b.node[t].index
           /\ f.node[t].parent = b.node[t].parent /\ f.node[t].child = b.node[t].child
  BY <1>3 DEF SameButRings
<1>8. CASE x \notin T
  <2>1. m = f
    BY <1>1, <1>2, <1>4, <1>8 DEF Relinked
  <2>2. b.node[x].parent = NULL
    BY <1>1, <1>2, <1>8
  <2>3. \A t \in Held(b) \ {x} : f.node[t].parent = b.node[t].parent
    BY <1>7
  <2>. HIDE DEF m
  <2>4. Unlinks(b, m, x)
    BY <1>6, <2>1, <2>2, <2>3 DEF Unlinks
  <2>. QED
    BY <2>4 DEF m
<1>9. CASE x \in T
  <2>1. r \notin T
    BY <1>1, <1>5, <1>9 DEF Tries, SizesOnce
  <2>2. SameTries(b, f, T)
    BY <1>1, <1>7 DEF SameTries
  <2>3. Tries(f, T, dep)
    BY <1>1, <2>2, TriesKept
  <2>4. Outside(f, T)
    BY <1>1, <1>7 DEF Good, Outside
  <2>5. Good(f, T, dep)
    BY <1>7, <2>3, <2>4 DEF Good
  <2>. HIDE DEF r
  <2>6. Fits(f, T, dep, x, r)
    <3>1. f.node[r].size = f.node[x].size /\ r \in Held(f) \ T
      BY <1>1, <1>5, <1>7, <2>1
    <3>2. f.node[r].index = f.node[x].index
      BY <1>1, <1>7, <3>1, NodeFacts
    <3>3. Bits(f, r, dep[x]) = Bits(f, x, dep[x])
      BY <3>1, <3>2 DEF Bits
    <3>4. \A t \in T \ {x} : f.node[t].size # f.node[r].size
      BY <2>3, <1>9, <3>1 DEF Tries, SizesOnce
    <3>. QED
      BY <1>9, <2>5, <3>1, <3>2, <3>3, <3>4 DEF Fits
  <2>7. m = Adopt(Redirect(f, x, r), x, r)
    <3>1. r # NULL /\ b.node[x].parent # NULL
      BY <1>1, <1>2, <1>5, <1>9, Names DEF BinsOk
    <3>. QED
      BY <1>4, <3>1 DEF Relinked
  <2>. HIDE DEF m
  <2>8. \A t \in Held(f) : /\ m.node[t].bk = f.node[t].bk
                           /\ m.node[t].parent # NULL <=> t = r \/ f.node[t].parent # NULL
    BY <2>6, <2>7, SwapKeeps
  <2>9. b.node[x].parent # NULL
    BY <1>1, <1>2, <1>9
  <2>10. \A t \in Held(b) \ {x} : f.node[t].parent = b.node[t].parent
    BY <1>7
  <2>11. Unlinks(b, m, x)
    <3>1. \A t \in Held(b) \ {x} : m.node[t].bk = IF b.node[t].bk = x THEN b.node[x].bk ELSE b.node[t].bk
      BY <1>6, <1>7, <2>8 DEF r
    <3>2. \A t \in Held(b) \ {x} :
            m.node[t].parent # NULL <=> b.node[t].parent # NULL \/ (b.node[x].parent # NULL /\ t = b.node[x].bk)
      BY <1>7, <2>8, <2>9, <2>10 DEF r
    <3>. QED
      BY <3>1, <3>2 DEF Unlinks
  <2>. QED
    BY <2>11 DEF m
<1>. QED
  BY <1>8, <1>9

\* A chunk that is alone leaves the other rings as they are, and the others in
\* the trie.
LEMMA AloneUnlinks ==
    ASSUME NEW b, NEW T, NEW dep, NEW x, Leaving(b, T, dep, x), b.node[x].bk = x
    PROVE  Unlinks(b, Relinked(b, x), x)
<1>. DEFINE r == RightmostLeaf(b, x)
            m == Relinked(b, x)
<1>1. /\ Good(b, T, dep) /\ x \in Held(b) /\ b.aborted = FALSE /\ Rings(b)
      /\ BinsOk(b) /\ Tries(b, T, dep) /\ T \subseteq Held(b)
  BY DEF Leaving, Good, Tries
<1>2. \A t \in Held(b) : t \in T <=> b.node[t].parent # NULL
  BY DEF Leaving
<1>3. \A t \in Held(b) \ {x} : b.node[t].bk # x
  BY <1>1 DEF Rings
<1>4. Replacement(b, x) = IF r = x THEN NULL ELSE r
  BY DEF Replacement
<1>5. SUFFICES \A t \in Held(b) \ {x} : /\ m.node[t].bk = b.node[t].bk
                                        /\ m.node[t].parent # NULL <=> b.node[t].parent # NULL
  BY <1>3 DEF Unlinks
<1>. HIDE DEF r
<1>6. CASE x \notin T
  <2>1. r = x
    BY <1>1, <1>6, RightmostOutside DEF r
  <2>2. m = b
    BY <1>1, <1>2, <1>4, <1>6, <2>1 DEF Relinked, Freed
  <2>. QED
    BY <2>2
<1>7. CASE x \in T /\ r = x
  <2>1. m = Redirect(b, x, NULL)
    <3>1. b.node[x].parent # NULL
      BY <1>1, <1>2, <1>7
    <3>. QED
      BY <1>4, <1>7, <3>1 DEF Relinked, Freed
  <2>. HIDE DEF m
  <2>2. Redirected(b, m, dep, x, NULL)
    BY <1>1, <1>7, <2>1, RedirectIs
  <2>. QED
    BY <2>2 DEF Redirected, SameChunks
<1>8. CASE x \in T /\ r # x
  <2>. DEFINE f == Redirect(b, r, NULL)
              S == T \ {r}
  <2>1. /\ r \in T /\ b.node[r].child = NoChild /\ b.node[r].index = b.node[x].index
        /\ Bits(b, r, dep[x]) = Bits(b, x, dep[x])
    BY <1>1, <1>8, RightmostFound DEF r
  <2>2. Redirected(b, f, dep, r, NULL)
    BY <1>1, <2>1, RedirectIs
  <2>3. r # NULL /\ b.node[x].parent # NULL
    BY <1>1, <1>2, <1>8, <2>1, Names DEF BinsOk
  <2>4. m = Adopt(Redirect(f, x, r), x, r)
    BY <1>4, <1>8, <2>3 DEF Relinked, Freed
  <2>. HIDE DEF f, m
  <2>5. Good(f, S, dep)
    BY <1>1, <2>1, <2>2, LeafGone
  <2>6. SameChunks(b, f) /\ Held(f) = Held(b) /\ \A t \in Held(b) : f.node[t].parent = b.node[t].parent
    BY <1>1, <2>2 DEF Redirected, SameChunks
  <2>7. Fits(f, S, dep, x, r)
    <3>1. x \in S /\ r \in Held(f) \ S
      BY <1>1, <1>8, <2>1, <2>6
    <3>2. f.node[r].index = f.node[x].index
      BY <1>1, <2>1, <2>6 DEF SameChunks
    <3>3. Bits(f, r, dep[x]) = Bits(f, x, dep[x])
      BY <1>1, <2>1, <2>6, SameBits
    <3>4. \A t \in S \ {x} : f.node[t].size # f.node[r].size
      BY <1>1, <2>1, <2>6 DEF Tries, SizesOnce, SameChunks
    <3>. QED
      BY <2>5, <3>1, <3>2, <3>3, <3>4 DEF Fits
  <2>. HIDE DEF S
  <2>8. \A t \in Held(f) : /\ m.node[t].bk = f.node[t].bk
                           /\ m.node[t].parent # NULL <=> t = r \/ f.node[t].parent # NULL
    BY <2>4, <2>7, SwapKeeps
  <2>9. b.node[r].parent # NULL
    BY <1>1, <1>2, <2>1
  <2>. QED
    BY <2>6, <2>8, <2>9 DEF SameChunks
<1>. QED
  BY <1>6, <1>7, <1>8

\* unlink_large_chunk takes a chunk out of its ring and its trie.
LEMMA UnlinkUnlinks ==
    ASSUME NEW b, TriesInv(b), NEW x \in Held(b)
    PROVE  Left(b, UnlinkLargeChunk(b, x), x) /\ Unlinks(b, UnlinkLargeChunk(b, x), x)
<1>1. PICK dep : Tries(b, Trie(b), dep)
  BY DEF TriesInv
<1>. DEFINE T == Trie(b)
            m == Relinked(b, x)
            c == UnlinkLargeChunk(b, x)
<1>2. BinsOk(b) /\ Outside(b, T) /\ Tries(b, T, dep) /\ b.aborted = FALSE /\ Rings(b)
  BY <1>1 DEF TriesInv
<1>3. \A t \in Held(b) : t \in T <=> b.node[t].parent # NULL
  BY DEF Trie
<1>. HIDE DEF T
<1>4. Leaving(b, T, dep, x)
  BY <1>2, <1>3 DEF Leaving, Good
<1>5. Unlinks(b, m, x)
  BY <1>4, RingUnlinks, AloneUnlinks
<1>6. BinsOk(m) /\ Held(m) = Held(b)
  <2>. HIDE DEF m
  <2>1. \E f, U, new : f = Relinked(b, x) /\ Ready(b, f, x, U, new)
    BY <1>4, InRing, Alone
  <2>2. \E f, U, new : f = m /\ Ready(b, f, x, U, new)
    BY <2>1 DEF m
  <2>. QED
    BY <2>2 DEF Ready
<1>7. c = Drop(m, x)
  BY UnlinkIs
<1>. HIDE DEF m, c
<1>8. Dropped(m, c, x)
  BY <1>6, <1>7, DropIs
<1>9. \A t \in Held(b) \ {x} : c.node[t] = m.node[t]
  BY <1>6, <1>8 DEF Dropped
<1>10. Unlinks(b, c, x)
  BY <1>5, <1>9 DEF Unlinks
<1>. QED
  BY <1>10, Unlinked DEF c

-----------------------------------------------------------------------------
(* The queues of the sizes. *)

\* The n chunks of size s in the order of their ring, from the one in the trie
\* on.
InOrder(b, s, n, q) ==
    /\ n \in Nat \ {0} /\ q \in [1..n -> Held(b)]
    /\ \A j \in 1..n : b.node[q[j]].size = s
    /\ \A t \in Held(b) : b.node[t].size = s => \E j \in 1..n : q[j] = t
    /\ \A j, k \in 1..n : q[j] = q[k] => j = k
    /\ \A j \in 2..n : q[j] = b.node[q[j - 1]].bk
    /\ b.node[q[n]].bk = q[1]
    /\ b.node[q[1]].parent # NULL

\* A queue has as many chunks as there are of its size.
LEMMA QueueLength ==
    ASSUME NEW b, NEW s, NEW n, NEW q, InOrder(b, s, n, q)
    PROVE  LET ring == {t \in DOMAIN b.node : SizeOf(b, t) = s} IN
             /\ Cardinality(ring) = n
             /\ q \in [1..n -> ring] /\ Range(q) = ring
<1>. DEFINE ring == {t \in DOMAIN b.node : SizeOf(b, t) = s}
<1>1. /\ n \in Nat /\ q \in [1..n -> Held(b)]
      /\ \A j \in 1..n : b.node[q[j]].size = s
      /\ \A t \in Held(b) : b.node[t].size = s => \E j \in 1..n : q[j] = t
      /\ \A j, k \in 1..n : q[j] = q[k] => j = k
  BY DEF InOrder
<1>2. \A t : t \in ring <=> t \in Held(b) /\ b.node[t].size = s
  BY DEF Held, SizeOf
<1>. HIDE DEF ring
<1>3. q \in [1..n -> ring] /\ \A t \in ring : \E j \in 1..n : q[j] = t
  BY <1>1, <1>2
<1>4. q \in Bijection(1..n, ring)
  BY <1>1, <1>3 DEF Bijection, Injection, Surjection, IsInjective
<1>5. Cardinality(ring) = n
  BY <1>1, <1>4, FS_CountingElements DEF ExistsBijection
<1>6. Range(q) = ring
  BY <1>3 DEF Range
<1>. QED
  BY <1>3, <1>5, <1>6 DEF ring

\* The queue of a size is the order of its ring.
LEMMA QueueIs ==
    ASSUME NEW b, SizesOnce(b, Trie(b)), NEW s, NEW n, NEW q, InOrder(b, s, n, q)
    PROVE  Queue(b, s) = q
<1>. DEFINE ring == {t \in DOMAIN b.node : SizeOf(b, t) = s}
            Ordered(p) == /\ Range(p) = ring
                          /\ b.node[p[1]].parent # NULL
                          /\ \A k \in 2..Cardinality(ring) : p[k] = b.node[p[k - 1]].bk
<1>1. Cardinality(ring) = n /\ q \in [1..n -> ring] /\ Range(q) = ring
  BY QueueLength
<1>2. \A t : t \in ring <=> t \in Held(b) /\ b.node[t].size = s
  BY DEF Held, SizeOf
<1>3. /\ n \in Nat \ {0} /\ \A j \in 2..n : q[j] = b.node[q[j - 1]].bk
      /\ b.node[q[1]].parent # NULL
  BY DEF InOrder
<1>4. Queue(b, s) = CHOOSE p \in [1..Cardinality(ring) -> ring] : Ordered(p)
  BY DEF Queue
<1>5. q \in [1..Cardinality(ring) -> ring] /\ Ordered(q)
  BY <1>1, <1>3
<1>6. ASSUME NEW p \in [1..Cardinality(ring) -> ring], Ordered(p) PROVE p = q
  <2>. DEFINE P == {k \in Nat : k + 1 \in 1..n => p[k + 1] = q[k + 1]}
  <2>0. p \in [1..n -> ring] /\ b.node[p[1]].parent # NULL /\ \A k \in 2..n : p[k] = b.node[p[k - 1]].bk
    BY <1>1, <1>6
  <2>. HIDE DEF ring, Ordered
  <2>1. p[1] = q[1]
    <3>1. 1 \in 1..n
      BY <1>3
    <3>2. p[1] \in Trie(b) /\ q[1] \in Trie(b) /\ b.node[p[1]].size = b.node[q[1]].size
      BY <1>1, <1>2, <1>3, <2>0, <3>1 DEF Trie
    <3>. QED
      BY <3>2 DEF SizesOnce
  <2>2. 0 \in P
    BY <2>1
  <2>3. \A k \in 1..n : k - 1 \in P => k \in P
    <3>. SUFFICES ASSUME NEW k \in 1..n, k - 1 \in P, k + 1 \in 1..n PROVE p[k + 1] = q[k + 1]
      BY <1>3
    <3>1. (k - 1) + 1 = k /\ k \in 1..n
      BY <1>3
    <3>2. p[k] = q[k]
      BY <3>1
    <3>3. k + 1 \in 2..n /\ (k + 1) - 1 = k
      BY <1>3
    <3>4. p[k + 1] = b.node[p[(k + 1) - 1]].bk /\ q[k + 1] = b.node[q[(k + 1) - 1]].bk
      BY <1>3, <2>0, <3>3
    <3>. QED
      BY <3>2, <3>3, <3>4
  <2>. HIDE DEF P
  <2>4. \A k \in 0..n : k \in P
    BY <1>3, <2>2, <2>3, EachRound
  <2>5. \A k \in 1..n : p[k] = q[k]
    <3>. SUFFICES ASSUME NEW k \in 1..n PROVE p[k] = q[k]
      OBVIOUS
    <3>1. k - 1 \in 0..n /\ (k - 1) + 1 = k
      BY <1>3
    <3>2. k - 1 \in P
      BY <2>4, <3>1
    <3>. QED
      BY <3>1, <3>2 DEF P
  <2>6. p = [k \in 1..n |-> p[k]] /\ q = [k \in 1..n |-> q[k]]
    BY <1>1, <2>0
  <2>. QED
    BY <2>5, <2>6
<1>. HIDE DEF ring, Ordered
<1>7. (CHOOSE p \in [1..Cardinality(ring) -> ring] : Ordered(p)) = q
  BY <1>5, <1>6
<1>. QED
  BY <1>4, <1>7

\* A function on 1..n is a sequence of length n.
LEMMA SequenceIs ==
    ASSUME NEW S, NEW n \in Nat, NEW q \in [1..n -> S]
    PROVE  q \in Seq(S) /\ Len(q) = n /\ DOMAIN q = 1..n /\ q = [j \in 1..n |-> q[j]]
<1>1. q \in Seq(S)
  BY SeqDef
<1>2. Len(q) \in Nat /\ DOMAIN q = 1..Len(q)
  BY <1>1, LenProperties
<1>3. Len(q) = n
  BY <1>2
<1>. QED
  BY <1>1, <1>3

\* Append, as a function.
LEMMA AppendIs ==
    ASSUME NEW S, NEW n \in Nat, NEW q \in [1..n -> S], NEW x \in S
    PROVE  Append(q, x) = [j \in 1..(n + 1) |-> IF j = n + 1 THEN x ELSE q[j]]
<1>1. q \in Seq(S) /\ Len(q) = n /\ DOMAIN q = 1..n
  BY SequenceIs
<1>2. Append(q, x) \in Seq(S) /\ Len(Append(q, x)) = n + 1
      /\ \A j \in 1..(n + 1) : Append(q, x)[j] = IF j = n + 1 THEN x ELSE q[j]
  BY <1>1
<1>. DEFINE a == Append(q, x)
<1>. HIDE DEF a
<1>3. a \in Seq(S) /\ Len(a) = n + 1
      /\ \A j \in 1..(n + 1) : a[j] = IF j = n + 1 THEN x ELSE q[j]
  BY <1>2 DEF a
<1>4. a \in [1..(n + 1) -> S]
  BY <1>3, LenProperties
<1>5. a = [j \in 1..(n + 1) |-> IF j = n + 1 THEN x ELSE q[j]]
  BY <1>3, <1>4
<1>. QED
  BY <1>5 DEF a

\* Sequence p is q without its kth element.
Without(p, q, n, k, S) ==
    p \in [1..(n - 1) -> S] /\ \A j \in 1..(n - 1) : p[j] = IF j < k THEN q[j] ELSE q[j + 1]

\* RemoveAt, as a function.
LEMMA RemoveAtIs ==
    ASSUME NEW S, NEW n \in Nat, NEW q \in [1..n -> S], NEW k \in 1..n
    PROVE  Without(RemoveAt(q, k), q, n, k, S)
<1>1. q \in Seq(S) /\ Len(q) = n /\ DOMAIN q = 1..n /\ n \in Nat /\ k \in Nat /\ 1 <= k /\ k <= n
  BY SequenceIs
<1>. DEFINE u == SubSeq(q, 1, k - 1)
            v == SubSeq(q, k + 1, n)
            a == u \o v
<1>2. u \in Seq(S) /\ Len(u) = k - 1 /\ \A j \in 1..(k - 1) : u[j] = q[j]
  <2>1. 1 \in Int /\ k - 1 \in Int /\ \A j \in 1..(k - 1) : q[j] \in S
    BY <1>1
  <2>2. /\ u \in Seq(S) /\ Len(u) = IF 1 <= k - 1 THEN (k - 1) - 1 + 1 ELSE 0
        /\ \A j \in 1..((k - 1) - 1 + 1) : u[j] = q[1 + j - 1]
    BY ONLY <2>1, SubSeqProperties
  <2>. HIDE DEF u
  <2>. QED
    BY <1>1, <2>2
<1>3. v \in Seq(S) /\ Len(v) = n - k /\ \A j \in 1..(n - k) : v[j] = q[k + j]
  <2>1. k + 1 \in Int /\ n \in Int /\ \A j \in (k + 1)..n : q[j] \in S
    BY <1>1
  <2>2. /\ v \in Seq(S) /\ Len(v) = IF k + 1 <= n THEN n - (k + 1) + 1 ELSE 0
        /\ \A j \in 1..(n - (k + 1) + 1) : v[j] = q[(k + 1) + j - 1]
    BY ONLY <2>1, SubSeqProperties
  <2>. HIDE DEF v
  <2>. QED
    BY <1>1, <2>2
<1>. HIDE DEF u, v
<1>4. /\ a \in Seq(S) /\ Len(a) = Len(u) + Len(v)
      /\ \A j \in 1..(Len(u) + Len(v)) : a[j] = IF j <= Len(u) THEN u[j] ELSE v[j - Len(u)]
  BY ONLY <1>2, <1>3, ConcatProperties
<1>. HIDE DEF a
<1>5. Len(a) = n - 1 /\ \A j \in 1..(n - 1) : a[j] = IF j < k THEN q[j] ELSE q[j + 1]
  BY <1>1, <1>2, <1>3, <1>4
<1>6. a \in [1..(n - 1) -> S]
  BY <1>4, <1>5, LenProperties
<1>7. RemoveAt(q, k) = a
  BY <1>1 DEF RemoveAt, a, u, v
<1>. QED
  BY <1>5, <1>6, <1>7 DEF Without

\* The tail is what is left without the first.
LEMMA TailIs ==
    ASSUME NEW S, NEW n \in Nat \ {0}, NEW q \in [1..n -> S]
    PROVE  Tail(q) = RemoveAt(q, 1) /\ Head(q) = q[1]
<1>1. q \in Seq(S) /\ Len(q) = n /\ q # <<>> /\ n \in Nat
  <2>1. q \in Seq(S) /\ Len(q) = n
    BY SequenceIs
  <2>. QED
    BY <2>1
<1>2. Tail(q) \in Seq(S) /\ Len(Tail(q)) = n - 1 /\ \A j \in 1..(n - 1) : Tail(q)[j] = q[j + 1]
  BY <1>1, HeadTailProperties
<1>. DEFINE a == Tail(q)
<1>3. Head(q) = q[1]
  BY <1>1
<1>. HIDE DEF a
<1>4. a \in Seq(S) /\ Len(a) = n - 1 /\ \A j \in 1..(n - 1) : a[j] = q[j + 1]
  BY <1>2 DEF a
<1>5. a \in [1..(n - 1) -> S]
  BY <1>4, LenProperties
<1>6. a = [j \in 1..(n - 1) |-> q[j + 1]]
  BY <1>4, <1>5
<1>7. Without(RemoveAt(q, 1), q, n, 1, S)
  <2>1. n \in Nat /\ 1 \in 1..n
    BY <1>1
  <2>. QED
    BY <2>1, RemoveAtIs
<1>8. RemoveAt(q, 1) = a
  <2>. DEFINE p == RemoveAt(q, 1)
  <2>1. p \in [1..(n - 1) -> S] /\ \A j \in 1..(n - 1) : p[j] = q[j + 1]
    BY <1>1, <1>7 DEF Without
  <2>. HIDE DEF p
  <2>2. p = [j \in 1..(n - 1) |-> q[j + 1]]
    BY <2>1
  <2>. QED
    BY <1>6, <2>2 DEF p
<1>. QED
  BY <1>3, <1>8 DEF a

\* Every chunk is in the queue of its size.
Waits(b) == \A t \in Held(b) : \E n, q : InOrder(b, b.node[t].size, n, q)

\* A chunk comes into no queue but that of its size.
LEMMA OthersWait ==
    ASSUME NEW b, Rings(b), NEW x, x \notin Held(b), NEW c, NEW s, Adds(b, c, x, s),
           NEW u, u # s, NEW n, NEW q, InOrder(b, u, n, q)
    PROVE  InOrder(c, u, n, q)
<1>1. /\ n \in Nat \ {0} /\ q \in [1..n -> Held(b)]
      /\ \A j \in 1..n : b.node[q[j]].size = u
      /\ \A t \in Held(b) : b.node[t].size = u => \E j \in 1..n : q[j] = t
      /\ \A j, k \in 1..n : q[j] = q[k] => j = k
      /\ \A j \in 2..n : q[j] = b.node[q[j - 1]].bk
      /\ b.node[q[n]].bk = q[1]
      /\ b.node[q[1]].parent # NULL
  BY DEF InOrder
<1>2. /\ Held(c) = Held(b) \cup {x} /\ c.node[x].size = s
      /\ \A t \in Held(b) : c.node[t].size = b.node[t].size /\ c.node[t].parent = b.node[t].parent
  BY DEF Adds, Joined
<1>3. ASSUME NEW t \in Held(b), b.node[t].size = u PROVE c.node[t].bk = b.node[t].bk
  <2>1. b.node[b.node[t].bk].size = u
    BY <1>3 DEF Rings
  <2>. QED
    BY <1>3, <2>1 DEF Adds
<1>4. \A j \in 1..n : c.node[q[j]].size = u /\ c.node[q[j]].bk = b.node[q[j]].bk
  BY <1>1, <1>2, <1>3
<1>5. \A t \in Held(c) : c.node[t].size = u => \E j \in 1..n : q[j] = t
  BY <1>1, <1>2
<1>6. \A j \in 2..n : q[j] = c.node[q[j - 1]].bk
  <2>. SUFFICES ASSUME NEW j \in 2..n PROVE q[j] = c.node[q[j - 1]].bk
    OBVIOUS
  <2>1. j - 1 \in 1..n
    BY <1>1
  <2>. QED
    BY <1>1, <1>4, <2>1
<1>7. 1 \in 1..n /\ n \in 1..n
  BY <1>1
<1>8. c.node[q[n]].bk = q[1] /\ c.node[q[1]].parent # NULL
  BY <1>1, <1>2, <1>4, <1>7
<1>9. q \in [1..n -> Held(c)]
  BY <1>1, <1>2
<1>. QED
  BY <1>1, <1>4, <1>5, <1>6, <1>8, <1>9 DEF InOrder

\* A chunk without others of its size is in a queue by itself.
LEMMA WaitsAlone ==
    ASSUME NEW b, NEW x, NEW c, NEW s, Adds(b, c, x, s), \A t \in Held(b) : b.node[t].size # s
    PROVE  InOrder(c, s, 1, <<x>>)
<1>1. /\ Held(c) = Held(b) \cup {x} /\ c.node[x].size = s
      /\ \A t \in Held(b) : c.node[t].size = b.node[t].size
  BY DEF Adds, Joined
<1>2. c.node[x].bk = x /\ c.node[x].parent # NULL
  BY DEF Adds, Trie
<1>. DEFINE q == <<x>>
<1>3. q \in [1..1 -> Held(c)] /\ q[1] = x
  BY <1>1
<1>. HIDE DEF q
<1>4. \A j \in 1..1 : j = 1
  OBVIOUS
<1>5. InOrder(c, s, 1, q)
  <2>1. \A j \in 2..1 : q[j] = c.node[q[j - 1]].bk
    OBVIOUS
  <2>2. \A t \in Held(c) : c.node[t].size = s => \E j \in 1..1 : q[j] = t
    <3>1. 1 \in 1..1
      OBVIOUS
    <3>. QED
      BY <1>1, <1>3, <3>1
  <2>3. 1 \in Nat \ {0}
    OBVIOUS
  <2>. QED
    BY <1>1, <1>2, <1>3, <1>4, <2>1, <2>2, <2>3 DEF InOrder
<1>. QED
  BY <1>5 DEF q

\* A chunk is the last of its size.
LEMMA WaitsLast ==
    ASSUME NEW b, Rings(b), SizesOnce(b, Trie(b)), NEW x, x \notin Held(b), NEW c, NEW s, Adds(b, c, x, s),
           NEW n, NEW q, InOrder(b, s, n, q)
    PROVE  InOrder(c, s, n + 1, Append(q, x))
<1>. DEFINE p == Append(q, x)
<1>1. /\ n \in Nat \ {0} /\ q \in [1..n -> Held(b)]
      /\ \A j \in 1..n : b.node[q[j]].size = s
      /\ \A t \in Held(b) : b.node[t].size = s => \E j \in 1..n : q[j] = t
      /\ \A j, k \in 1..n : q[j] = q[k] => j = k
      /\ \A j \in 2..n : q[j] = b.node[q[j - 1]].bk
      /\ b.node[q[n]].bk = q[1]
      /\ b.node[q[1]].parent # NULL
  BY DEF InOrder
<1>2. /\ Held(c) = Held(b) \cup {x} /\ c.node[x].size = s
      /\ \A t \in Held(b) : c.node[t].size = b.node[t].size /\ c.node[t].parent = b.node[t].parent
  BY DEF Adds, Joined
<1>3. 1 \in 1..n /\ n \in 1..n /\ n + 1 \in Nat \ {0}
  BY <1>1
<1>4. q[1] \in Trie(b) /\ b.node[q[1]].size = s /\ q[1] \in Held(b)
  BY <1>1, <1>3 DEF Trie
<1>5. PICK t \in Trie(b) :
        /\ b.node[t].size = s
        /\ c.node[x].bk = t /\ c.node[x].parent = NULL
        /\ \A u \in Held(b) : c.node[u].bk = IF b.node[u].bk = t THEN x ELSE b.node[u].bk
  BY <1>4 DEF Adds
<1>6. t = q[1]
  BY <1>4, <1>5 DEF SizesOnce
<1>7. /\ p = [j \in 1..(n + 1) |-> IF j = n + 1 THEN x ELSE q[j]]
      /\ p \in [1..(n + 1) -> Held(c)]
  <2>1. q \in [1..n -> Held(c)] /\ x \in Held(c) /\ n \in Nat
    BY <1>1, <1>2
  <2>2. p = [j \in 1..(n + 1) |-> IF j = n + 1 THEN x ELSE q[j]]
    BY <2>1, AppendIs
  <2>. HIDE DEF p
  <2>. QED
    BY <1>1, <2>1, <2>2
<1>. HIDE DEF p
<1>8. p[n + 1] = x /\ \A j \in 1..n : p[j] = q[j]
  BY <1>1, <1>7
<1>9. \A j \in 1..(n + 1) : j \in 1..n \/ j = n + 1
  BY <1>1
<1>10. \A j \in 1..(n + 1) : c.node[p[j]].size = s
  <2>. SUFFICES ASSUME NEW j \in 1..(n + 1) PROVE c.node[p[j]].size = s
    OBVIOUS
  <2>1. ASSUME j \in 1..n PROVE c.node[p[j]].size = s
    <3>1. p[j] = q[j] /\ q[j] \in Held(b) /\ b.node[q[j]].size = s
      BY <1>1, <1>8, <2>1
    <3>. QED
      BY <1>2, <3>1
  <2>. QED
    BY <1>2, <1>8, <1>9, <2>1
<1>11. \A u \in Held(c) : c.node[u].size = s => \E j \in 1..(n + 1) : p[j] = u
  <2>. SUFFICES ASSUME NEW u \in Held(c), c.node[u].size = s PROVE \E j \in 1..(n + 1) : p[j] = u
    OBVIOUS
  <2>1. CASE u = x
    <3>1. n + 1 \in 1..(n + 1)
      BY <1>1
    <3>. QED
      BY <1>8, <2>1, <3>1
  <2>2. CASE u # x
    <3>1. PICK j \in 1..n : q[j] = u
      BY <1>1, <1>2, <2>2
    <3>2. j \in 1..(n + 1)
      BY <1>1
    <3>. QED
      BY <1>8, <3>1, <3>2
  <2>. QED
    BY <2>1, <2>2
<1>12. \A j, k \in 1..(n + 1) : p[j] = p[k] => j = k
  <2>1. \A j \in 1..n : q[j] # x
    BY <1>1
  <2>. QED
    BY <1>1, <1>8, <1>9, <2>1
<1>13. ASSUME NEW j \in 2..(n + 1) PROVE p[j] = c.node[p[j - 1]].bk
  <2>1. j - 1 \in 1..n /\ p[j - 1] = q[j - 1] /\ q[j - 1] \in Held(b)
    BY <1>1, <1>8
  <2>2. CASE j = n + 1
    <3>1. j - 1 = n /\ b.node[q[j - 1]].bk = t
      BY <1>1, <1>6, <2>2
    <3>. QED
      BY <1>5, <1>8, <2>1, <2>2, <3>1
  <2>3. CASE j # n + 1
    <3>1. j \in 2..n /\ j \in 1..n
      BY <1>1, <2>3
    <3>2. b.node[q[j - 1]].bk = q[j] /\ q[j] # t
      <4>1. j # 1
        BY <3>1
      <4>. QED
        BY <1>1, <1>3, <1>6, <3>1, <4>1
    <3>. QED
      BY <1>5, <1>8, <2>1, <3>1, <3>2
  <2>. QED
    BY <2>2, <2>3
<1>14. c.node[p[n + 1]].bk = p[1] /\ c.node[p[1]].parent # NULL
  BY <1>1, <1>2, <1>3, <1>4, <1>5, <1>6, <1>8
<1>15. InOrder(c, s, n + 1, p)
  BY <1>3, <1>7, <1>10, <1>11, <1>12, <1>13, <1>14 DEF InOrder
<1>. QED
  BY <1>15 DEF p

\* A chunk leaves no queue but that of its size.
LEMMA OthersStay ==
    ASSUME NEW b, Rings(b), NEW x \in Held(b), NEW c, Left(b, c, x), Unlinks(b, c, x),
           NEW u, u # b.node[x].size, NEW n, NEW q, InOrder(b, u, n, q)
    PROVE  InOrder(c, u, n, q)
<1>1. /\ n \in Nat \ {0} /\ q \in [1..n -> Held(b)]
      /\ \A j \in 1..n : b.node[q[j]].size = u
      /\ \A t \in Held(b) : b.node[t].size = u => \E j \in 1..n : q[j] = t
      /\ \A j, k \in 1..n : q[j] = q[k] => j = k
      /\ \A j \in 2..n : q[j] = b.node[q[j - 1]].bk
      /\ b.node[q[n]].bk = q[1]
      /\ b.node[q[1]].parent # NULL
  BY DEF InOrder
<1>2. Held(c) = Held(b) \ {x} /\ \A t \in Held(c) : c.node[t].size = b.node[t].size
  BY DEF Left
<1>3. ASSUME NEW t \in Held(b), b.node[t].size = u
      PROVE  t \in Held(c) /\ c.node[t].bk = b.node[t].bk /\ (b.node[t].parent # NULL => c.node[t].parent # NULL)
  <2>1. b.node[b.node[t].bk].size = u
    BY <1>3 DEF Rings
  <2>. QED
    BY <1>2, <1>3, <2>1 DEF Unlinks
<1>4. \A j \in 1..n : q[j] \in Held(c) /\ c.node[q[j]].size = u /\ c.node[q[j]].bk = b.node[q[j]].bk
  BY <1>1, <1>2, <1>3
<1>5. \A t \in Held(c) : c.node[t].size = u => \E j \in 1..n : q[j] = t
  BY <1>1, <1>2
<1>6. \A j \in 2..n : q[j] = c.node[q[j - 1]].bk
  <2>. SUFFICES ASSUME NEW j \in 2..n PROVE q[j] = c.node[q[j - 1]].bk
    OBVIOUS
  <2>1. j - 1 \in 1..n
    BY <1>1
  <2>. QED
    BY <1>1, <1>4, <2>1
<1>7. 1 \in 1..n /\ n \in 1..n
  BY <1>1
<1>8. c.node[q[n]].bk = q[1] /\ c.node[q[1]].parent # NULL
  BY <1>1, <1>3, <1>4, <1>7
<1>9. q \in [1..n -> Held(c)]
  BY <1>1, <1>4
<1>. QED
  BY <1>1, <1>4, <1>5, <1>6, <1>8, <1>9 DEF InOrder

\* The chunks after one that leaves its queue come a place earlier.
LEMMA WaitsOn ==
    ASSUME NEW b, NEW x \in Held(b), NEW c, Left(b, c, x), Unlinks(b, c, x),
           NEW s, NEW n, NEW q, InOrder(b, s, n, q), NEW k \in 1..n, x = q[k], n # 1
    PROVE  InOrder(c, s, n - 1, RemoveAt(q, k))
<1>. DEFINE p == RemoveAt(q, k)
<1>1. /\ n \in Nat \ {0} /\ q \in [1..n -> Held(b)]
      /\ \A j \in 1..n : b.node[q[j]].size = s
      /\ \A t \in Held(b) : b.node[t].size = s => \E j \in 1..n : q[j] = t
      /\ \A i, j \in 1..n : q[i] = q[j] => i = j
      /\ \A j \in 2..n : q[j] = b.node[q[j - 1]].bk
      /\ b.node[q[n]].bk = q[1]
      /\ b.node[q[1]].parent # NULL
  BY DEF InOrder
<1>2. Held(c) = Held(b) \ {x} /\ \A t \in Held(c) : c.node[t].size = b.node[t].size
  BY DEF Left
<1>3. n \in Nat /\ k \in Nat /\ 1 <= k /\ k <= n /\ n >= 2 /\ 1 \in 1..n /\ n \in 1..n
  BY <1>1
<1>4. /\ p \in [1..(n - 1) -> Held(b)]
      /\ \A j \in 1..(n - 1) : p[j] = IF j < k THEN q[j] ELSE q[j + 1]
  <2>1. Without(p, q, n, k, Held(b))
    BY <1>1, <1>3, RemoveAtIs
  <2>. HIDE DEF p
  <2>. QED
    BY <2>1 DEF Without
<1>. HIDE DEF p
<1>5. ASSUME NEW j \in 1..n, j # k
      PROVE  /\ q[j] \in Held(c) /\ c.node[q[j]].size = s
             /\ c.node[q[j]].bk = IF b.node[q[j]].bk = x THEN b.node[x].bk ELSE b.node[q[j]].bk
             /\ c.node[q[j]].parent # NULL <=>
                  b.node[q[j]].parent # NULL \/ (b.node[x].parent # NULL /\ q[j] = b.node[x].bk)
  <2>1. q[j] # x /\ q[j] \in Held(b) \ {x} /\ b.node[q[j]].size = s
    BY <1>1, <1>5
  <2>. QED
    BY <1>2, <2>1 DEF Unlinks
<1>6. ASSUME NEW j \in 1..(n - 1)
      PROVE  \E i \in 1..n : i # k /\ p[j] = q[i] /\ i = IF j < k THEN j ELSE j + 1
  <2>1. CASE j < k
    BY <1>3, <1>4, <2>1
  <2>2. CASE ~(j < k)
    <3>1. j + 1 \in 1..n /\ j + 1 # k
      BY <1>3, <2>2
    <3>. QED
      BY <1>4, <2>2, <3>1
  <2>. QED
    BY <2>1, <2>2
<1>7. \A j \in 1..(n - 1) : p[j] \in Held(c) /\ c.node[p[j]].size = s
  BY <1>5, <1>6
<1>8. \A t \in Held(c) : c.node[t].size = s => \E j \in 1..(n - 1) : p[j] = t
  <2>. SUFFICES ASSUME NEW t \in Held(c), c.node[t].size = s PROVE \E j \in 1..(n - 1) : p[j] = t
    OBVIOUS
  <2>1. t \in Held(b) /\ t # x /\ b.node[t].size = s
    BY <1>2
  <2>2. PICK i \in 1..n : q[i] = t
    BY <1>1, <2>1
  <2>3. i # k
    BY <2>1, <2>2
  <2>4. CASE i < k
    <3>1. i \in 1..(n - 1) /\ p[i] = q[i]
      BY <1>3, <1>4, <2>4
    <3>. QED
      BY <2>2, <3>1
  <2>5. CASE i > k
    <3>1. i - 1 \in 1..(n - 1) /\ ~(i - 1 < k) /\ (i - 1) + 1 = i
      BY <1>3, <2>5
    <3>2. p[i - 1] = q[i]
      BY <1>4, <3>1
    <3>. QED
      BY <2>2, <3>1, <3>2
  <2>. QED
    BY <1>3, <2>3, <2>4, <2>5
<1>9. ASSUME NEW i \in 1..(n - 1), NEW j \in 1..(n - 1), p[i] = p[j] PROVE i = j
  <2>1. PICK e \in 1..n : p[i] = q[e] /\ e = IF i < k THEN i ELSE i + 1
    BY <1>6
  <2>2. PICK d \in 1..n : p[j] = q[d] /\ d = IF j < k THEN j ELSE j + 1
    BY <1>6
  <2>3. e = d
    <3>1. q[e] = q[d]
      BY <1>9, <2>1, <2>2
    <3>. QED
      BY ONLY <1>1, <3>1, e \in 1..n, d \in 1..n
  <2>. QED
    BY <1>3, <2>1, <2>2, <2>3
<1>10. ASSUME NEW j \in 2..(n - 1) PROVE p[j] = c.node[p[j - 1]].bk
  <2>0. j \in 1..(n - 1) /\ j - 1 \in 1..(n - 1) /\ j - 1 \in 1..n /\ j \in 1..n /\ j + 1 \in 2..n /\ j + 1 \in 1..n
        /\ (j - 1) + 1 = j /\ (j + 1) - 1 = j /\ j \in 2..n
    BY <1>3
  <2>1. b.node[q[j - 1]].bk = q[j] /\ b.node[q[j]].bk = q[j + 1]
    BY <1>1, <2>0
  <2>2. CASE j < k
    <3>1. p[j] = q[j] /\ p[j - 1] = q[j - 1] /\ q[j] # x
      BY <1>1, <1>3, <1>4, <2>0, <2>2
    <3>2. j - 1 # k
      BY <1>3, <2>2
    <3>. QED
      BY <1>5, <2>0, <2>1, <3>1, <3>2
  <2>3. CASE j = k
    <3>1. p[j] = q[j + 1] /\ p[j - 1] = q[j - 1] /\ q[j] = x
      BY <1>3, <1>4, <2>0, <2>3
    <3>2. j - 1 # k
      BY <1>3, <2>3
    <3>. QED
      BY <1>5, <2>0, <2>1, <3>1, <3>2
  <2>4. CASE j > k
    <3>1. p[j] = q[j + 1] /\ p[j - 1] = q[j]
      BY <1>3, <1>4, <2>0, <2>4
    <3>2. q[j + 1] # x
      BY <1>1, <1>3, <2>0, <2>4
    <3>3. j # k
      BY <1>3, <2>4
    <3>. QED
      BY <1>5, <2>0, <2>1, <3>1, <3>2, <3>3
  <2>. QED
    BY <1>3, <2>0, <2>2, <2>3, <2>4
<1>11. 1 \in 1..(n - 1) /\ n - 1 \in 1..(n - 1) /\ n - 1 \in 1..n /\ (n - 1) + 1 = n /\ 2 \in 1..n /\ 2 \in 2..n
  BY <1>3
<1>12. c.node[p[n - 1]].bk = p[1]
  <2>1. CASE k = n
    <3>1. p[n - 1] = q[n - 1] /\ p[1] = q[1]
      BY <1>3, <1>4, <1>11, <2>1
    <3>2. n \in 2..n /\ n - 1 # k
      BY <1>3, <2>1
    <3>3. b.node[q[n - 1]].bk = x
      BY <1>1, <2>1, <3>2
    <3>. QED
      BY <1>1, <1>5, <1>11, <2>1, <3>1, <3>2, <3>3
  <2>2. CASE k # n
    <3>1. p[n - 1] = q[n]
      BY <1>3, <1>4, <1>11, <2>2
    <3>2. c.node[q[n]].bk = IF q[1] = x THEN b.node[x].bk ELSE q[1]
      BY <1>1, <1>3, <1>5, <2>2
    <3>3. CASE k = 1
      <4>1. p[1] = q[2] /\ q[2] = b.node[q[1]].bk
        <5>1. q[2] = b.node[q[2 - 1]].bk /\ 2 - 1 = 1
          BY <1>1, <1>11
        <5>2. p[1] = q[1 + 1]
          BY <1>4, <1>11, <3>3
        <5>. QED
          BY <5>1, <5>2
      <4>. QED
        BY <3>1, <3>2, <3>3, <4>1
    <3>4. CASE k # 1
      <4>1. p[1] = q[1] /\ q[1] # x
        BY <1>1, <1>3, <1>4, <1>11, <3>4
      <4>. QED
        BY <3>1, <3>2, <4>1
    <3>. QED
      BY <3>3, <3>4
  <2>. QED
    BY <2>1, <2>2
<1>13. c.node[p[1]].parent # NULL
  <2>1. CASE k = 1
    <3>1. p[1] = q[1 + 1] /\ 1 + 1 = 2
      BY <1>4, <1>11, <2>1
    <3>2. q[2] = b.node[q[2 - 1]].bk /\ 2 - 1 = 1
      BY <1>1, <1>11
    <3>3. 2 # k
      BY <2>1
    <3>. QED
      BY <1>1, <1>5, <1>11, <2>1, <3>1, <3>2, <3>3
  <2>2. CASE k # 1
    <3>1. p[1] = q[1]
      BY <1>3, <1>4, <1>11, <2>2
    <3>. QED
      BY <1>1, <1>3, <1>5, <2>2, <3>1
  <2>. QED
    BY <2>1, <2>2
<1>14. p \in [1..(n - 1) -> Held(c)] /\ n - 1 \in Nat \ {0}
  BY <1>3, <1>4, <1>7
<1>15. InOrder(c, s, n - 1, p)
  BY <1>7, <1>8, <1>9, <1>10, <1>12, <1>13, <1>14 DEF InOrder
<1>. QED
  BY <1>15 DEF p

\* The sizes that have chunks, and their queues.
SizesOf(b) == {SizeOf(b, t) : t \in DOMAIN b.node}

\* What BestFit sees of the bins: the queue of each size.
FreeOf(b) == [s \in SizesOf(b) |-> Queue(b, s)]

\* The invariant with the queues.
Orderly(b) == TriesInv(b) /\ Waits(b)

\* Each size has its queue.
LEMMA FreeIs ==
    ASSUME NEW b, Orderly(b)
    PROVE  /\ DOMAIN FreeOf(b) = SizesOf(b)
           /\ \A s : s \in SizesOf(b) <=> \E t \in Held(b) : b.node[t].size = s
           /\ SizesOnce(b, Trie(b)) /\ Rings(b) /\ BinsOk(b) /\ \E dep : Good(b, Trie(b), dep)
           /\ \A s \in SizesOf(b) : \E n : InOrder(b, s, n, FreeOf(b)[s])
<1>1. SizesOnce(b, Trie(b)) /\ Rings(b) /\ BinsOk(b) /\ \E dep : Good(b, Trie(b), dep)
  BY DEF Orderly, TriesInv, Tries, Good
<1>2. DOMAIN FreeOf(b) = SizesOf(b) /\ \A s \in SizesOf(b) : FreeOf(b)[s] = Queue(b, s)
  BY DEF FreeOf
<1>3. \A s : s \in SizesOf(b) <=> \E t \in Held(b) : b.node[t].size = s
  BY DEF SizesOf, Held, SizeOf
<1>4. ASSUME NEW s \in SizesOf(b) PROVE \E n : InOrder(b, s, n, FreeOf(b)[s])
  <2>1. PICK t \in Held(b) : b.node[t].size = s
    BY <1>3
  <2>2. \E n, q : InOrder(b, s, n, q)
    BY <2>1 DEF Orderly, Waits
  <2>3. PICK n, q : InOrder(b, s, n, q)
    BY <2>2
  <2>4. FreeOf(b)[s] = q
    BY <1>1, <1>2, <2>3, QueueIs
  <2>. QED
    BY <2>3, <2>4
<1>. QED
  BY <1>1, <1>2, <1>3, <1>4

\* A queue known by its order.
LEMMA FreeAt ==
    ASSUME NEW b, Orderly(b), NEW s, NEW n, NEW q, InOrder(b, s, n, q)
    PROVE  s \in SizesOf(b) /\ FreeOf(b)[s] = q
<1>1. SizesOnce(b, Trie(b)) /\ \A u : u \in SizesOf(b) <=> \E t \in Held(b) : b.node[t].size = u
  BY FreeIs
<1>2. n \in Nat \ {0} /\ q \in [1..n -> Held(b)] /\ \A j \in 1..n : b.node[q[j]].size = s
  BY DEF InOrder
<1>3. 1 \in 1..n
  BY <1>2
<1>4. s \in SizesOf(b)
  BY <1>1, <1>2, <1>3
<1>5. Queue(b, s) = q
  BY <1>1, QueueIs
<1>. QED
  BY <1>4, <1>5 DEF FreeOf

\* What an insertion does to the queues.
Queued(b, c, x, s) ==
    /\ SizesOf(c) = SizesOf(b) \cup {s}
    /\ FreeOf(c)[s] = Append(IF s \in SizesOf(b) THEN FreeOf(b)[s] ELSE <<>>, x)
    /\ \A u \in SizesOf(b) : u # s => FreeOf(c)[u] = FreeOf(b)[u]

\* A chunk that is inserted is the last of its queue.
LEMMA InsertQueues ==
    ASSUME NEW b, Orderly(b), NEW x \in Chunks, x \notin Held(b), NEW s \in LargeSizes,
           NEW c, c = InsertLargeChunk(b, x, s)
    PROVE  Orderly(c) /\ Queued(b, c, x, s) /\ Held(c) = Held(b) \cup {x} /\ c.node[x].size = s
<1>0. TriesInv(b) /\ Adds(b, c, x, s)
  BY InsertAdds DEF Orderly
<1>1. TriesInv(c) /\ Held(c) = Held(b) \cup {x} /\ c.node[x].size = s
      /\ \A t \in Held(b) : c.node[t].size = b.node[t].size
  BY <1>0 DEF Adds, Joined
<1>2. /\ SizesOnce(b, Trie(b)) /\ Rings(b)
      /\ \A u : u \in SizesOf(b) <=> \E t \in Held(b) : b.node[t].size = u
      /\ \A u \in SizesOf(b) : \E n : InOrder(b, u, n, FreeOf(b)[u])
  BY FreeIs
<1>3. ASSUME NEW u \in SizesOf(b), u # s
      PROVE  \E n : InOrder(c, u, n, FreeOf(b)[u])
  BY <1>0, <1>2, <1>3, OthersWait
<1>. DEFINE q == Append(IF s \in SizesOf(b) THEN FreeOf(b)[s] ELSE <<>>, x)
<1>4. \E n : InOrder(c, s, n, q)
  <2>1. CASE s \in SizesOf(b)
    <3>1. PICK n : InOrder(b, s, n, FreeOf(b)[s])
      BY <1>2, <2>1
    <3>2. InOrder(c, s, n + 1, Append(FreeOf(b)[s], x))
      BY <1>0, <1>2, <3>1, WaitsLast
    <3>3. q = Append(FreeOf(b)[s], x)
      BY <2>1
    <3>. QED
      BY <3>2, <3>3
  <2>2. CASE s \notin SizesOf(b)
    <3>1. \A t \in Held(b) : b.node[t].size # s
      BY <1>2, <2>2
    <3>2. InOrder(c, s, 1, <<x>>)
      BY <1>0, <3>1, WaitsAlone
    <3>3. q = <<x>>
      BY <2>2
    <3>. QED
      BY <3>2, <3>3
  <2>. QED
    BY <2>1, <2>2
<1>. HIDE DEF q
<1>5. Waits(c)
  <2>. SUFFICES ASSUME NEW t \in Held(c) PROVE \E n, p : InOrder(c, c.node[t].size, n, p)
    BY DEF Waits
  <2>. DEFINE u == c.node[t].size
  <2>1. u = s \/ (u # s /\ u \in SizesOf(b))
    BY <1>1, <1>2
  <2>. HIDE DEF u
  <2>2. \E n, p : InOrder(c, u, n, p)
    BY <1>3, <1>4, <2>1
  <2>. QED
    BY <2>2 DEF u
<1>6. Orderly(c)
  BY <1>1, <1>5 DEF Orderly
<1>7. \A u : u \in SizesOf(c) <=> \E t \in Held(c) : c.node[t].size = u
  BY <1>6, FreeIs
<1>8. SizesOf(c) = SizesOf(b) \cup {s}
  BY <1>1, <1>2, <1>7
<1>9. FreeOf(c)[s] = q
  BY <1>4, <1>6, FreeAt
<1>10. \A u \in SizesOf(b) : u # s => FreeOf(c)[u] = FreeOf(b)[u]
  BY <1>3, <1>6, FreeAt
<1>. QED
  BY <1>1, <1>6, <1>8, <1>9, <1>10 DEF Queued, q

\* What an unlinking does to the queues.
Unqueued(b, c, x, k) ==
    LET s == b.node[x].size
        q == FreeOf(b)[s]
    IN /\ s \in SizesOf(b) /\ k \in DOMAIN q /\ q[k] = x
       /\ SizesOf(c) = (SizesOf(b) \ {s}) \cup (IF RemoveAt(q, k) = <<>> THEN {} ELSE {s})
       /\ RemoveAt(q, k) # <<>> => FreeOf(c)[s] = RemoveAt(q, k)
       /\ \A u \in SizesOf(b) : u # s => FreeOf(c)[u] = FreeOf(b)[u]

\* A chunk that is unlinked leaves its queue.
LEMMA UnlinkQueues ==
    ASSUME NEW b, Orderly(b), NEW x \in Held(b), NEW c, c = UnlinkLargeChunk(b, x)
    PROVE  Orderly(c) /\ Held(c) = Held(b) \ {x} /\ \E k : Unqueued(b, c, x, k)
<1>0. TriesInv(b) /\ Left(b, c, x) /\ Unlinks(b, c, x)
  BY UnlinkUnlinks DEF Orderly
<1>1. TriesInv(c) /\ Held(c) = Held(b) \ {x} /\ \A t \in Held(c) : c.node[t].size = b.node[t].size
  BY <1>0 DEF Left
<1>2. /\ SizesOnce(b, Trie(b)) /\ Rings(b)
      /\ \A u : u \in SizesOf(b) <=> \E t \in Held(b) : b.node[t].size = u
      /\ \A u \in SizesOf(b) : \E n : InOrder(b, u, n, FreeOf(b)[u])
  BY FreeIs
<1>. DEFINE s == b.node[x].size
            q == FreeOf(b)[s]
<1>3. ASSUME NEW u \in SizesOf(b), u # s
      PROVE  \E n : InOrder(c, u, n, FreeOf(b)[u])
  BY <1>0, <1>2, <1>3, OthersStay
<1>4. s \in SizesOf(b)
  BY <1>2
<1>5. PICK n : InOrder(b, s, n, q)
  BY <1>2, <1>4
<1>. HIDE DEF q
<1>6. /\ n \in Nat \ {0} /\ q \in [1..n -> Held(b)]
      /\ \A j \in 1..n : b.node[q[j]].size = s
      /\ \A t \in Held(b) : b.node[t].size = s => \E j \in 1..n : q[j] = t
      /\ DOMAIN q = 1..n
  BY <1>5 DEF InOrder
<1>7. PICK k \in 1..n : q[k] = x
  BY <1>6
<1>. DEFINE p == RemoveAt(q, k)
<1>8. p \in [1..(n - 1) -> Held(b)] /\ DOMAIN p = 1..(n - 1) /\ p \in Seq(Held(b)) /\ Len(p) = n - 1
  <2>1. Without(p, q, n, k, Held(b)) /\ n \in Nat /\ n - 1 \in Nat
    BY <1>6, RemoveAtIs
  <2>. HIDE DEF p
  <2>2. p \in [1..(n - 1) -> Held(b)]
    BY <2>1 DEF Without
  <2>. QED
    BY <2>1, <2>2, SequenceIs
<1>9. n # 1 => InOrder(c, s, n - 1, p)
  BY <1>0, <1>5, <1>7, WaitsOn
<1>. HIDE DEF p, s
<1>10. p = <<>> <=> n = 1
  BY <1>6, <1>8
<1>11. n = 1 => \A t \in Held(c) : c.node[t].size # s
  <2>. SUFFICES ASSUME n = 1, NEW t \in Held(c), c.node[t].size = s PROVE FALSE
    OBVIOUS
  <2>1. PICK j \in 1..n : q[j] = t
    BY <1>1, <1>6
  <2>. QED
    BY <1>1, <1>6, <1>7, <2>1
<1>12. Waits(c)
  <2>. SUFFICES ASSUME NEW t \in Held(c) PROVE \E m, f : InOrder(c, c.node[t].size, m, f)
    BY DEF Waits
  <2>. DEFINE u == c.node[t].size
  <2>1. (u = s /\ n # 1) \/ (u # s /\ u \in SizesOf(b))
    BY <1>1, <1>2, <1>11
  <2>. HIDE DEF u
  <2>2. \E m, f : InOrder(c, u, m, f)
    BY <1>3, <1>9, <2>1
  <2>. QED
    BY <2>2 DEF u
<1>13. Orderly(c)
  BY <1>1, <1>12 DEF Orderly
<1>14. \A u : u \in SizesOf(c) <=> \E t \in Held(c) : c.node[t].size = u
  BY <1>13, FreeIs
<1>15. \A u \in SizesOf(b) : u # s => u \in SizesOf(c) /\ FreeOf(c)[u] = FreeOf(b)[u]
  BY <1>3, <1>13, FreeAt
<1>16. n # 1 => s \in SizesOf(c) /\ FreeOf(c)[s] = p
  BY <1>9, <1>13, FreeAt
<1>17. SizesOf(c) = (SizesOf(b) \ {s}) \cup (IF p = <<>> THEN {} ELSE {s})
  <2>1. n = 1 => s \notin SizesOf(c)
    BY <1>11, <1>14
  <2>2. \A u : u \in SizesOf(c) => u \in SizesOf(b)
    BY <1>1, <1>2, <1>14
  <2>3. \A u \in SizesOf(b) : u # s => u \in SizesOf(c)
    BY <1>15
  <2>. QED
    BY <1>10, <1>16, <2>1, <2>2, <2>3
<1>18. Unqueued(b, c, x, k)
  <2>1. k \in DOMAIN q
    BY <1>6
  <2>2. p # <<>> => FreeOf(c)[s] = p
    BY <1>10, <1>16
  <2>3. \A u \in SizesOf(b) : u # s => FreeOf(c)[u] = FreeOf(b)[u]
    BY <1>15
  <2>. QED
    BY <1>4, <1>7, <1>17, <2>1, <2>2, <2>3, Zenon DEF Unqueued, p, q, s
<1>. QED
  BY <1>1, <1>13, <1>18

-----------------------------------------------------------------------------
(* Steps of BestFit. *)

\* An insertion adds to the queues.
LEMMA QueueAdd ==
    ASSUME NEW b, Orderly(b), NEW c, NEW x, NEW s, Queued(b, c, x, s)
    PROVE  FreeOf(c) = Promise!Add(FreeOf(b), s, x)
<1>. DEFINE F == FreeOf(b)
            G == FreeOf(c)
            queue == Append(IF s \in DOMAIN F THEN F[s] ELSE <<>>, x)
<1>1. DOMAIN F = SizesOf(b) /\ DOMAIN G = SizesOf(c) /\ G = [u \in DOMAIN G |-> G[u]]
  BY DEF FreeOf
<1>. HIDE DEF F, G
<1>2. /\ DOMAIN G = DOMAIN F \cup {s} /\ G[s] = queue
      /\ \A u \in DOMAIN F : u # s => G[u] = F[u]
  BY <1>1 DEF Queued, F, G
<1>3. queue # <<>>
  <2>1. CASE s \in DOMAIN F
    <3>1. PICK n : InOrder(b, s, n, F[s])
      BY <1>1, <2>1, FreeIs DEF F
    <3>2. n \in Nat /\ F[s] \in [1..n -> Held(b) \cup {x}]
      BY <3>1 DEF InOrder
    <3>3. F[s] \in Seq(Held(b) \cup {x})
      BY <3>2, SequenceIs
    <3>4. Append(F[s], x) # <<>>
      BY <3>3
    <3>. QED
      BY <2>1, <3>4
  <2>2. CASE s \notin DOMAIN F
    BY <2>2
  <2>. QED
    BY <2>1, <2>2
<1>. HIDE DEF queue
<1>4. Promise!With(F, s, queue) = [t \in (DOMAIN F \ {s}) \cup {s} |-> IF t = s THEN queue ELSE F[t]]
  BY <1>3 DEF Promise!With
<1>5. G = [t \in (DOMAIN F \ {s}) \cup {s} |-> IF t = s THEN queue ELSE F[t]]
  <2>1. DOMAIN G = (DOMAIN F \ {s}) \cup {s}
    BY <1>2
  <2>2. \A t \in (DOMAIN F \ {s}) \cup {s} : G[t] = IF t = s THEN queue ELSE F[t]
    BY <1>2
  <2>. QED
    BY <1>1, <2>1, <2>2
<1>6. G = Promise!With(F, s, queue)
  BY <1>4, <1>5
<1>7. Promise!With(F, s, queue) = Promise!Add(F, s, x)
  BY Zenon DEF Promise!Add, queue
<1>. QED
  BY <1>6, <1>7 DEF F, G

\* An unlinking takes one place out of a queue.
LEMMA QueueWith ==
    ASSUME NEW b, NEW c, NEW x, NEW k, Unqueued(b, c, x, k)
    PROVE  LET s == b.node[x].size IN
             /\ s \in DOMAIN FreeOf(b) /\ k \in DOMAIN FreeOf(b)[s] /\ FreeOf(b)[s][k] = x
             /\ FreeOf(c) = Promise!With(FreeOf(b), s, RemoveAt(FreeOf(b)[s], k))
<1>. DEFINE F == FreeOf(b)
            G == FreeOf(c)
            s == b.node[x].size
            queue == RemoveAt(F[s], k)
<1>1. DOMAIN F = SizesOf(b) /\ DOMAIN G = SizesOf(c) /\ G = [u \in DOMAIN G |-> G[u]]
  BY DEF FreeOf
<1>. HIDE DEF F, G, s, queue
<1>2. /\ s \in DOMAIN F /\ k \in DOMAIN F[s] /\ F[s][k] = x
      /\ DOMAIN G = (DOMAIN F \ {s}) \cup (IF queue = <<>> THEN {} ELSE {s})
      /\ queue # <<>> => G[s] = queue
      /\ \A u \in DOMAIN F : u # s => G[u] = F[u]
  BY <1>1, Zenon DEF Unqueued, F, G, s, queue
<1>. DEFINE D == (DOMAIN F \ {s}) \cup (IF queue = <<>> THEN {} ELSE {s})
<1>3. Promise!With(F, s, queue) = [t \in D |-> IF t = s THEN queue ELSE F[t]]
  BY Zenon DEF Promise!With
<1>4. \A t \in D : G[t] = IF t = s THEN queue ELSE F[t]
  BY <1>2
<1>5. DOMAIN G = D
  BY <1>2
<1>. HIDE DEF D
<1>6. G = Promise!With(F, s, queue)
  BY <1>1, <1>3, <1>4, <1>5
<1>. QED
  BY <1>2, <1>6, Zenon DEF F, G, s, queue

\* The chunks of the queues are those in the bins.
LEMMA FreeHeld ==
    ASSUME NEW b, Orderly(b)
    PROVE  Promise!Free(FreeOf(b)) = Held(b)
<1>1. /\ DOMAIN FreeOf(b) = SizesOf(b)
      /\ \A s : s \in SizesOf(b) <=> \E t \in Held(b) : b.node[t].size = s
      /\ \A s \in SizesOf(b) : \E n : InOrder(b, s, n, FreeOf(b)[s])
  BY FreeIs
<1>2. \A t : t \in Promise!Free(FreeOf(b)) <=>
             \E s \in SizesOf(b) : \E i \in DOMAIN FreeOf(b)[s] : FreeOf(b)[s][i] = t
  BY <1>1 DEF Promise!Free, Promise!ToSet
<1>3. ASSUME NEW s \in SizesOf(b), NEW i \in DOMAIN FreeOf(b)[s] PROVE FreeOf(b)[s][i] \in Held(b)
  <2>1. PICK n : InOrder(b, s, n, FreeOf(b)[s])
    BY <1>1
  <2>. QED
    BY <2>1 DEF InOrder
<1>4. ASSUME NEW t \in Held(b) PROVE \E s \in SizesOf(b) : \E i \in DOMAIN FreeOf(b)[s] : FreeOf(b)[s][i] = t
  <2>. DEFINE s == b.node[t].size
  <2>1. s \in SizesOf(b)
    BY <1>1
  <2>2. PICK n : InOrder(b, s, n, FreeOf(b)[s])
    BY <1>1, <2>1
  <2>3. \E i \in DOMAIN FreeOf(b)[s] : FreeOf(b)[s][i] = t
    BY <2>2 DEF InOrder
  <2>. QED
    BY <2>1, <2>3
<1>. QED
  BY <1>2, <1>3, <1>4

\* Each size with chunks has one in the tries, at the head of its queue.
LEMMA HeadInTrie ==
    ASSUME NEW b, Orderly(b), NEW s \in SizesOf(b)
    PROVE  LET q == FreeOf(b)[s] IN
             /\ q[1] \in Trie(b) /\ b.node[q[1]].size = s
             /\ Head(q) = q[1] /\ Tail(q) = RemoveAt(q, 1)
             /\ \A k \in DOMAIN q : q[k] = q[1] => k = 1
<1>. DEFINE q == FreeOf(b)[s]
<1>1. PICK n : InOrder(b, s, n, q)
  BY FreeIs
<1>. HIDE DEF q
<1>2. /\ n \in Nat \ {0} /\ q \in [1..n -> Held(b)] /\ b.node[q[1]].parent # NULL
      /\ \A j \in 1..n : b.node[q[j]].size = s
      /\ \A i, j \in 1..n : q[i] = q[j] => i = j
  BY <1>1 DEF InOrder
<1>3. 1 \in 1..n /\ DOMAIN q = 1..n
  BY <1>2
<1>4. q[1] \in Trie(b) /\ b.node[q[1]].size = s
  BY <1>2, <1>3 DEF Trie
<1>5. Head(q) = q[1] /\ Tail(q) = RemoveAt(q, 1)
  BY <1>2, TailIs
<1>6. \A k \in DOMAIN q : q[k] = q[1] => k = 1
  BY <1>2, <1>3
<1>. QED
  BY <1>4, <1>5, <1>6 DEF q

\* What a best search says of the queues.
LEMMA BestInQueues ==
    ASSUME NEW b, Orderly(b), NEW nb \in Words \ {0}, NEW v, BestOf(b, Trie(b), nb, v)
    PROVE  LET F == FreeOf(b)
               s == b.node[v].size
           IN /\ v = NULL => Promise!Fits(F, nb) = {}
              /\ v # NULL => /\ v \in Trie(b) /\ v \in Held(b) /\ nb <= s /\ s \in LargeSizes
                             /\ s \in SizesOf(b) /\ Promise!Fits(F, nb) # {}
                             /\ Promise!Min(Promise!Fits(F, nb)) = s
                             /\ F[s][1] = v
<1>. DEFINE F == FreeOf(b)
            s == b.node[v].size
            fits == Promise!Fits(F, nb)
<1>1. /\ DOMAIN F = SizesOf(b) /\ BinsOk(b) /\ SizesOnce(b, Trie(b))
      /\ \A u : u \in SizesOf(b) <=> \E t \in Held(b) : b.node[t].size = u
  BY FreeIs
<1>2. \A u \in SizesOf(b) : \E t \in Trie(b) : b.node[t].size = u /\ F[u][1] = t
  BY HeadInTrie
<1>3. SizesOf(b) \subseteq LargeSizes /\ SizesOf(b) \subseteq Nat /\ nb \in Nat
  <2>1. \A t \in Held(b) : b.node[t].size \in LargeSizes
    BY <1>1, NodeFacts
  <2>. QED
    BY <1>1, <2>1, Sizes
<1>. HIDE DEF F
<1>4. fits = {u \in SizesOf(b) : u >= nb}
  BY <1>1 DEF Promise!Fits
<1>5. CASE v = NULL
  <2>1. \A u \in SizesOf(b) : u < nb
    BY <1>2, <1>5 DEF BestOf
  <2>2. fits = {}
    BY <1>3, <1>4, <2>1
  <2>. QED
    BY <1>5, <2>2 DEF F
<1>6. CASE v # NULL
  <2>1. /\ v \in Trie(b) /\ nb <= s
        /\ \A t \in Trie(b) : nb <= b.node[t].size => s <= b.node[t].size
    BY <1>6 DEF BestOf
  <2>2. v \in Held(b) /\ s \in SizesOf(b) /\ s \in LargeSizes
    BY <1>1, <1>3, <2>1 DEF Trie
  <2>3. s \in fits /\ \A u \in fits : s <= u
    BY <1>2, <1>3, <1>4, <2>1, <2>2
  <2>4. fits \in SUBSET Nat
    BY <1>3, <1>4
  <2>5. Promise!Min(fits) = Min(fits)
    BY DEF Promise!Min, Min
  <2>. HIDE DEF fits
  <2>6. Min(fits) \in fits /\ \A u \in fits : Min(fits) <= u
    BY <2>3, <2>4, LeastOf
  <2>7. Min(fits) = s
    <3>. DEFINE m == Min(fits)
    <3>1. m \in fits /\ (\A u \in fits : m <= u) /\ m \in Nat /\ s \in Nat
      BY <2>3, <2>4, <2>6
    <3>2. m <= s /\ s <= m
      BY <2>3, <3>1
    <3>. HIDE DEF m, s
    <3>3. m = s
      BY <3>1, <3>2
    <3>. QED
      BY <3>3 DEF m
  <2>8. F[s][1] = v
    BY <1>1, <1>2, <2>1, <2>2 DEF SizesOnce
  <2>. QED
    BY <1>6, <2>1, <2>2, <2>3, <2>5, <2>7, <2>8 DEF F, fits
<1>. QED
  BY <1>5, <1>6

\* The chunk of a best search is taken from the head of its queue.
LEMMA TakeHead ==
    ASSUME NEW b, Orderly(b), NEW v \in Trie(b), NEW c, c = UnlinkLargeChunk(b, v)
    PROVE  LET s == b.node[v].size IN
             /\ Orderly(c) /\ Held(c) = Held(b) \ {v}
             /\ Head(FreeOf(b)[s]) = v
             /\ FreeOf(c) = Promise!With(FreeOf(b), s, Tail(FreeOf(b)[s]))
<1>. DEFINE s == b.node[v].size
<1>1. v \in Held(b)
  BY DEF Trie
<1>2. Orderly(c) /\ Held(c) = Held(b) \ {v}
  BY <1>1, UnlinkQueues
<1>3. PICK k : Unqueued(b, c, v, k)
  BY <1>1, UnlinkQueues
<1>4. /\ s \in SizesOf(b) /\ k \in DOMAIN FreeOf(b)[s] /\ FreeOf(b)[s][k] = v
      /\ FreeOf(c) = Promise!With(FreeOf(b), s, RemoveAt(FreeOf(b)[s], k))
  BY <1>3, QueueWith DEF FreeOf
<1>. DEFINE q == FreeOf(b)[s]
<1>5. q[1] \in Trie(b) /\ b.node[q[1]].size = s /\ Head(q) = q[1] /\ Tail(q) = RemoveAt(q, 1)
      /\ \A j \in DOMAIN q : q[j] = q[1] => j = 1
  BY <1>4, HeadInTrie
<1>6. q[1] = v
  <2>1. SizesOnce(b, Trie(b))
    BY FreeIs
  <2>. QED
    BY <1>5, <2>1 DEF SizesOnce
<1>7. k = 1
  BY <1>4, <1>5, <1>6
<1>. QED
  BY <1>2, <1>4, <1>5, <1>6, <1>7

\* A step of BestFit between the queues of the bins.
Step ==
    LET F == FreeOf(bins)
        G == FreeOf(bins')
    IN \/ answer' = NoAnswer /\ (Promise!Insert(F, G) \/ Promise!Unlink(F, G))
       \/ answer'.nb > 0 /\ (Promise!Take(F, G) \/ Promise!Refuse(F, G))

\* An insertion is an insertion.
LEMMA InsertSteps ==
    ASSUME Orderly(bins), NEW x \in Chunks, NEW s \in FreeSizes, insert_large_chunk(x, s)
    PROVE  Orderly(bins') /\ Step
<1>. DEFINE b == bins
            c == bins'
            F == FreeOf(b)
            G == FreeOf(c)
<1>1. x \notin Held(b) /\ s \in LargeSizes /\ answer' = NoAnswer /\ c = InsertLargeChunk(b, x, s)
  BY ChunkSizesAssumption DEF insert_large_chunk, InBins, Held
<1>2. Orderly(c) /\ Queued(b, c, x, s) /\ Held(c) = Held(b) \cup {x} /\ c.node[x].size = s
  BY <1>1, InsertQueues
<1>3. G = Promise!Add(F, s, x)
  BY <1>2, QueueAdd
<1>4. s \in DOMAIN G /\ x \in Promise!ToSet(G[s]) /\ x \notin Promise!Free(F)
  <2>1. s \in SizesOf(c) /\ DOMAIN G = SizesOf(c)
    BY <1>2 DEF Queued, FreeOf
  <2>2. PICK n : InOrder(c, s, n, G[s])
    BY <1>2, <2>1, FreeIs
  <2>3. \E j \in DOMAIN G[s] : G[s][j] = x
    <3>1. x \in Held(c)
      BY <1>2
    <3>. HIDE DEF G, c
    <3>2. G[s] \in [1..n -> Held(c)] /\ \A t \in Held(c) : c.node[t].size = s => \E j \in 1..n : G[s][j] = t
      BY <2>2 DEF InOrder
    <3>. QED
      BY <1>2, <3>1, <3>2
  <2>4. x \in Promise!ToSet(G[s])
    BY <2>3 DEF Promise!ToSet
  <2>. QED
    BY <1>1, <2>1, <2>4, FreeHeld
<1>. HIDE DEF F, G
<1>5. Promise!Insert(F, G)
  BY <1>1, <1>3, <1>4 DEF Promise!Insert
<1>. QED
  BY <1>1, <1>2, <1>5 DEF Step, F, G

\* An unlinking is an unlinking.
LEMMA UnlinkSteps ==
    ASSUME Orderly(bins), NEW x \in Chunks, unlink_large_chunk(x)
    PROVE  Orderly(bins') /\ Step
<1>. DEFINE b == bins
            c == bins'
            F == FreeOf(b)
            G == FreeOf(c)
            s == b.node[x].size
<1>1. x \in Held(b) /\ answer' = NoAnswer /\ c = UnlinkLargeChunk(b, x)
  BY DEF unlink_large_chunk, InBins, Held
<1>2. Orderly(c)
  BY <1>1, UnlinkQueues
<1>3. PICK k : Unqueued(b, c, x, k)
  BY <1>1, UnlinkQueues
<1>4. /\ s \in DOMAIN F /\ k \in DOMAIN F[s]
      /\ G = Promise!With(F, s, RemoveAt(F[s], k))
  BY <1>3, QueueWith
<1>. HIDE DEF F, G, s
<1>5. RemoveAt(F[s], k) = Promise!RemoveAt(F[s], k)
  BY DEF RemoveAt, Promise!RemoveAt
<1>6. Promise!Unlink(F, G)
  BY <1>4, <1>5 DEF Promise!Unlink
<1>. QED
  BY <1>1, <1>2, <1>6 DEF Step, F, G

\* A request that a search answers takes the oldest chunk of the least size.
LEMMA TakesHead ==
    ASSUME Orderly(bins), NEW nb \in Words \ {0}, NEW v, BestOf(bins, Trie(bins), nb, v), v # NULL,
           NEW dvsize, answer' = Answer(nb, dvsize, v),
           NEW c, c = UnlinkLargeChunk(bins, v),
           \/ bins' = c
           \/ \E r \in Chunks \ Held(c) : /\ bins.node[v].size - nb >= MinLarge
                                          /\ bins' = InsertLargeChunk(c, r, bins.node[v].size - nb)
    PROVE  Orderly(bins') /\ Step
<1>. DEFINE b == bins
            F == FreeOf(b)
            G == FreeOf(bins')
            s == b.node[v].size
            left == FreeOf(c)
<1>1. /\ v \in Trie(b) /\ v \in Held(b) /\ nb <= s /\ s \in LargeSizes
      /\ s \in SizesOf(b) /\ Promise!Fits(F, nb) # {}
      /\ Promise!Min(Promise!Fits(F, nb)) = s
  BY BestInQueues
<1>2. /\ Orderly(c) /\ Held(c) = Held(b) \ {v}
      /\ Head(F[s]) = v
      /\ left = Promise!With(F, s, Tail(F[s]))
  BY <1>1, TakeHead
<1>3. answer'.nb = nb /\ answer'.chunk = v /\ nb > 0
  BY Sizes DEF Answer
<1>4. Orderly(bins') /\ (\/ G = left
                         \/ \E rest \in {s - nb} \cap LargeSizes \cap DOMAIN G, r \in Chunks \ Promise!Free(left) :
                              G = Promise!Add(left, rest, r))
  <2>1. CASE bins' = c
    BY <1>2, <2>1
  <2>2. ASSUME NEW r \in Chunks \ Held(c), s - nb >= MinLarge, bins' = InsertLargeChunk(c, r, s - nb)
        PROVE  Orderly(bins') /\ \E rest \in {s - nb} \cap LargeSizes \cap DOMAIN G, u \in Chunks \ Promise!Free(left) :
                                   G = Promise!Add(left, rest, u)
    <3>. DEFINE rest == s - nb
    <3>1. rest \in LargeSizes
      <4>1. s \in Nat /\ s \in Words /\ nb \in Nat /\ Pow2[SizeBits] \in Nat /\ MinLarge \in Nat
        BY <1>1, Sizes, PowersPositive, Widths
      <4>2. rest \in 0..(Pow2[SizeBits] - 1)
        BY <1>1, <4>1 DEF Words
      <4>. QED
        BY <2>2, <4>2 DEF LargeSizes, Words
    <3>. HIDE DEF rest
    <3>2. Orderly(bins') /\ Queued(c, bins', r, rest)
      BY <1>2, <2>2, <3>1, InsertQueues DEF rest
    <3>3. G = Promise!Add(left, rest, r)
      BY <1>2, <3>2, QueueAdd
    <3>4. rest \in DOMAIN G
      BY <3>2 DEF Queued, FreeOf
    <3>5. r \in Chunks \ Promise!Free(left)
      BY <1>2, FreeHeld
    <3>6. rest \in {s - nb}
      BY DEF rest
    <3>. QED
      BY <3>1, <3>2, <3>3, <3>4, <3>5, <3>6
  <2>. QED
    BY <2>1, <2>2
<1>. HIDE DEF F, G, s, left
<1>5. Promise!Take(F, G)
  BY <1>1, <1>2, <1>3, <1>4 DEF Promise!Take
<1>. QED
  BY <1>3, <1>4, <1>5 DEF Step, F, G

\* tmalloc_large takes the best fit, or leaves the request to what is elsewhere.
LEMMA LargeSteps ==
    ASSUME Orderly(bins), NEW nb \in Requests, NEW dvsize \in DvSizes, tmalloc_large(nb, dvsize)
    PROVE  Orderly(bins') /\ Step
<1>. DEFINE b == bins
            v == BestLarge(b, nb)
            F == FreeOf(b)
<1>0. nb \in Words \ {0} /\ nb \in LargeSizes /\ dvsize \in Words
  BY ChunkSizesAssumption DEF tmalloc_large, LargeSizes
<1>1. BestOf(b, Trie(b), nb, v)
  <2>1. PICK dep : Good(b, Trie(b), dep)
    BY FreeIs
  <2>. QED
    BY <1>0, <2>1, BestLargeIs
<1>2. IF v = NULL \/ Rest(b, v, nb) >= Minus(dvsize, nb)
      THEN answer' = Answer(nb, dvsize, NULL) /\ UNCHANGED bins
      ELSE LET rest == Rest(b, v, nb)
               without == UnlinkLargeChunk(b, v)
           IN /\ answer' = Answer(nb, dvsize, v)
              /\ IF rest < MinLarge THEN bins' = without
                 ELSE \E r \in Chunks \ DOMAIN without.node :
                        bins' = InsertLargeChunk(without, r, rest)
  BY Zenon DEF tmalloc_large
<1>. HIDE DEF v
<1>3. ASSUME v # NULL
      PROVE  /\ v \in Trie(b) /\ nb <= b.node[v].size /\ b.node[v].size \in LargeSizes
             /\ b.node[v].size \in Words /\ b.node[v].size \in Nat /\ nb \in Nat /\ dvsize \in Nat
             /\ Rest(b, v, nb) = b.node[v].size - nb /\ Rest(b, v, nb) \in Nat
  <2>1. v \in Trie(b) /\ nb <= b.node[v].size /\ b.node[v].size \in LargeSizes
    BY <1>0, <1>1, <1>3, BestInQueues
  <2>2. b.node[v].size \in Words /\ b.node[v].size \in Nat /\ nb \in Nat /\ dvsize \in Nat
    BY <1>0, <2>1, Sizes
  <2>3. Minus(b.node[v].size, nb) = b.node[v].size - nb
    BY <1>0, <2>1, <2>2, MinusOf
  <2>4. Rest(b, v, nb) = b.node[v].size - nb
    BY <2>3 DEF Rest, SizeOf
  <2>. QED
    BY <2>1, <2>2, <2>4
<1>4. CASE v = NULL \/ Rest(b, v, nb) >= Minus(dvsize, nb)
  <2>1. answer' = Answer(nb, dvsize, NULL) /\ bins' = b
    BY <1>2, <1>4
  <2>2. answer'.nb = nb /\ answer'.chunk = NULL /\ answer'.elsewhere = dvsize /\ nb > 0
    BY <1>0, <2>1, Sizes DEF Answer
  <2>3. Promise!Fits(F, nb) = {} \/ (dvsize >= nb /\ dvsize <= Promise!Min(Promise!Fits(F, nb)))
    <3>1. CASE v = NULL
      BY <1>0, <1>1, <3>1, BestInQueues
    <3>2. CASE v # NULL
      <4>1. Promise!Min(Promise!Fits(F, nb)) = b.node[v].size
        BY <1>0, <1>1, <3>2, BestInQueues
      <4>2. b.node[v].size - nb >= Minus(dvsize, nb)
        BY <1>3, <1>4, <3>2
      <4>3. Minus(dvsize, nb) = IF dvsize >= nb THEN dvsize - nb ELSE dvsize + Pow2[SizeBits] - nb
        BY <1>0, MinusOf
      <4>4. b.node[v].size < Pow2[SizeBits] /\ Pow2[SizeBits] \in Nat
        BY <1>3, <3>2, Sizes, PowersPositive, Widths
      <4>5. dvsize >= nb /\ dvsize <= b.node[v].size
        BY <1>3, <3>2, <4>2, <4>3, <4>4
      <4>. QED
        BY <4>1, <4>5
    <3>. QED
      BY <3>1, <3>2
  <2>4. FreeOf(bins') = F /\ Orderly(bins')
    BY <2>1
  <2>. HIDE DEF F
  <2>5. Promise!Refuse(F, F)
    BY <2>2, <2>3 DEF Promise!Refuse
  <2>. QED
    BY <2>2, <2>4, <2>5 DEF Step, F
<1>5. CASE ~(v = NULL \/ Rest(b, v, nb) >= Minus(dvsize, nb))
  <2>. DEFINE c == UnlinkLargeChunk(b, v)
              rest == b.node[v].size - nb
  <2>1. answer' = Answer(nb, dvsize, v) /\ v # NULL
    BY <1>2, <1>5
  <2>2. IF rest < MinLarge THEN bins' = c
        ELSE \E r \in Chunks \ Held(c) : bins' = InsertLargeChunk(c, r, rest)
    BY <1>2, <1>3, <1>5, <2>1 DEF Held
  <2>3. c = UnlinkLargeChunk(b, v)
    OBVIOUS
  <2>. HIDE DEF c
  <2>4. \/ bins' = c
        \/ \E r \in Chunks \ Held(c) : rest >= MinLarge /\ bins' = InsertLargeChunk(c, r, rest)
    <3>1. rest \in Nat /\ MinLarge \in Nat
      BY <1>3, <2>1, Sizes
    <3>. HIDE DEF rest
    <3>. QED
      BY <2>2, <3>1
  <2>. QED
    BY <1>0, <1>1, <2>1, <2>3, <2>4, TakesHead
<1>. QED
  BY <1>4, <1>5

\* tmalloc_small takes the best fit.
LEMMA SmallSteps ==
    ASSUME Orderly(bins), NEW nb \in Requests, tmalloc_small(nb)
    PROVE  Orderly(bins') /\ Step
<1>. DEFINE b == bins
            v == BestSmall(b, nb)
<1>0. nb \in Words \ {0} /\ nb < MinLarge /\ b.treemap # {}
  BY ChunkSizesAssumption DEF tmalloc_small
<1>1. PICK dep : Good(b, Trie(b), dep)
  BY FreeIs
<1>2. BestOf(b, Trie(b), nb, v)
  BY <1>0, <1>1, BestSmallIs
<1>3. v \in Held(b)
  BY <1>0, <1>1, BestSmallIn
<1>4. answer' = Answer(nb, 0, v) /\ bins' = UnlinkLargeChunk(b, v)
  BY DEF tmalloc_small
<1>. HIDE DEF v
<1>5. v # NULL
  BY <1>1, <1>3, Names DEF Good, BinsOk
<1>. QED
  BY <1>0, <1>2, <1>4, <1>5, TakesHead

\* Every step of the bins is a step of BestFit.
LEMMA StepsAre ==
    ASSUME Orderly(bins), Next
    PROVE  Orderly(bins') /\ Step
BY ChunkSizesAssumption, InsertSteps, UnlinkSteps, LargeSteps, SmallSteps DEF Next

\* The queues BestFit is shown are those of the bins.
LEMMA FreeStep ==
    ASSUME Step
    PROVE  Promise!Next
BY Zenon DEF Step, Promise!Next, FreeOf, SizesOf, InBins, Promise!NoAnswer, NoAnswer

\* The empty bins have no queues.
LEMMA FirstQueues ==
    ASSUME Init
    PROVE  Orderly(bins) /\ Promise!Init
<1>1. TriesInv(bins) /\ bins.node = <<>>
  BY EmptyBins DEF Init
<1>2. InBins = {} /\ Held(bins) = {}
  BY <1>1 DEF InBins, Held
<1>3. Waits(bins)
  BY <1>2 DEF Waits
<1>4. [s \in {SizeOf(bins, t) : t \in InBins} |-> Queue(bins, s)] = <<>>
  <2>1. {SizeOf(bins, t) : t \in InBins} = {}
    BY <1>2
  <2>. QED
    BY <2>1
<1>5. answer = Promise!NoAnswer
  BY DEF Init, NoAnswer, Promise!NoAnswer
<1>. QED
  BY <1>1, <1>3, <1>4, <1>5 DEF Orderly, Promise!Init

\* The invariant of the refinement, of the bins of the model.
OrderlyBins == Orderly(bins)

\* A request gets the oldest of the smallest chunks that fit, and inserting and
\* unlinking a chunk moves no other: the tries, their rings and the searches of
\* them implement BestFit.
THEOREM TakesBestFitCorrect == Spec => TakesBestFit
<1>1. Init => OrderlyBins /\ Promise!Init
  BY FirstQueues DEF OrderlyBins
<1>2. OrderlyBins /\ [Next]_vars
      => OrderlyBins' /\ [Promise!Next]_<<[s \in {SizeOf(bins, t) : t \in InBins} |-> Queue(bins, s)], answer>>
  <2>1. ASSUME OrderlyBins, Next PROVE OrderlyBins' /\ Promise!Next
    BY <2>1, StepsAre, FreeStep DEF OrderlyBins
  <2>2. ASSUME OrderlyBins, UNCHANGED vars
        PROVE  OrderlyBins'
               /\ UNCHANGED <<[s \in {SizeOf(bins, t) : t \in InBins} |-> Queue(bins, s)], answer>>
    BY <2>2 DEF OrderlyBins, vars, InBins
  <2>. QED
    BY <2>1, <2>2
<1>. QED
  BY <1>1, <1>2, PTL DEF Spec, TakesBestFit, Promise!Spec

=============================================================================
