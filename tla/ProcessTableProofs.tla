------------------------- MODULE ProcessTableProofs -------------------------
(***************************************************************************)
(* What the operators of the process table return and preserve, for every  *)
(* table.                                                                  *)
(***************************************************************************)
EXTENDS ProcessTable, NaturalsInduction, WellFoundedInduction,
        SequenceTheorems, TLAPS

-----------------------------------------------------------------------------
(* Least and greatest elements. *)

\* A non-empty set of naturals has a least element.
LEMMA LeastExists ==
    ASSUME NEW S \in SUBSET Nat, NEW x \in S
    PROVE  \E i \in S : \A j \in S : i <= j
<1>1. IsWellFoundedOn(OpToRel(<, Nat), Nat)
  BY NatLessThanWellFounded
<1>2. PICK m \in S : \A y \in S : ~ (<<y, m>> \in OpToRel(<, Nat))
  <2>1. S # {}
    OBVIOUS
  <2>2. S \subseteq Nat
    OBVIOUS
  <2>. QED
    BY <1>1, <2>1, <2>2, WFMin
<1>3. \A y \in S : ~ (y < m)
  BY <1>2 DEF OpToRel
<1>. QED
  BY <1>3

\* Among finitely many naturals there is a greatest one.
LEMMA GreatestExists ==
    ASSUME NEW n \in Nat, NEW S \in SUBSET (1..n), NEW s \in S,
           NEW f, \A i \in S : f[i] \in Nat
    PROVE  \E i \in S : \A j \in S : f[j] <= f[i]
<1>1. PICK x \in S : \A j \in S : x <= j
  <2>. S \in SUBSET Nat
    OBVIOUS
  <2>. QED
    BY LeastExists
<1>. DEFINE Top(k, i) == i \in S /\ i <= k /\ \A j \in S : j <= k => f[j] <= f[i]
            Bad == {k \in x..n : ~ \E i \in S : Top(k, i)}
<1>2. Bad = {}
  <2>1. SUFFICES ASSUME NEW b \in Bad PROVE FALSE
    OBVIOUS
  <2>2. PICK k \in Bad : \A l \in Bad : k <= l
    <3>. Bad \in SUBSET Nat
      OBVIOUS
    <3>. QED
      BY LeastExists
  <2>3. CASE k = x
    <3>1. Top(k, x)
      BY <1>1, <2>3
    <3>. QED
      BY <3>1
  <2>4. CASE k > x
    <3>1. k - 1 \in x..n /\ k - 1 \notin Bad
      <4>. HIDE DEF Top
      <4>1. k \in x..n /\ x \in Nat
        OBVIOUS
      <4>. HIDE DEF Bad
      <4>2. k - 1 \notin Bad
        BY <2>2, <4>1
      <4>. QED
        BY <4>1, <4>2, <2>4
    <3>2. PICK i \in S : Top(k - 1, i)
      <4>. HIDE DEF Top
      <4>. QED
        BY <3>1
    <3>5. f[i] \in Nat /\ i \in Nat /\ k \in Nat /\ \A j \in S : j \in Nat /\ f[j] \in Nat
      BY <2>2
    <3>6. \A j \in S : j <= k => j <= k - 1 \/ j = k
      BY <3>5
    <3>3. CASE k \in S /\ f[i] <= f[k]
      <4>1. Top(k, k)
        BY <3>2, <3>3, <3>5, <3>6
      <4>. QED
        BY <4>1, <3>3
    <3>4. CASE k \in S => f[k] <= f[i]
      <4>1. Top(k, i)
        BY <3>2, <3>4, <3>5, <3>6
      <4>. QED
        BY <4>1
    <3>. QED
      BY <3>3, <3>4
  <2>. QED
    BY <2>2, <2>3, <2>4
<1>3. n \in x..n
  OBVIOUS
<1>4. PICK i \in S : Top(n, i)
  BY <1>2, <1>3
<1>. QED
  BY <1>4
-----------------------------------------------------------------------------
(* Find. *)

\* What Find needs of the table: the multimap's entries are the objects.
WellFormed(list, idMap) ==
    /\ list \in Seq(Process)
    /\ idMap \in [1..Len(list) -> 1..Len(list)]
    /\ Len(idMap) = Len(list)
    /\ \A n \in 1..Len(list) : \E i \in 1..Len(list) : idMap[i] = n

\* No two objects share a process id: an object is made only where Find finds
\* none, and Find finds one of some process as soon as the id has an object,
\* so that the multimap never holds the several processes of an id it is for.
OnePerPid(list) ==
    \A m, n \in 1..Len(list) : list[m].pid = list[n].pid => m = n

\* The first entry of a non-empty set of entries is one of them, and none
\* precedes it.
LEMMA FirstOfIs ==
    ASSUME NEW n \in Nat, NEW S \in SUBSET (1..n), NEW s \in S, NEW idMap
    PROVE  \E i \in S : (\A j \in S : i <= j) /\ FirstOf(idMap, S) = idMap[i]
<1>1. \E i \in S : \A j \in S : i <= j
  <2>. S \in SUBSET Nat
    OBVIOUS
  <2>. QED
    BY LeastExists
<1>. QED
  BY <1>1 DEF FirstOf

\* Entries lead to objects, and an entry of the id is among those scanned.
LEMMA Entries ==
    ASSUME NEW list, NEW idMap, WellFormed(list, idMap)
    PROVE  /\ Len(list) \in Nat
           /\ \A i \in 1..Len(list) : /\ idMap[i] \in 1..Len(list)
                                      /\ list[idMap[i]] \in Process
           /\ \A pid : Scanned(list, idMap, pid) \in SUBSET (1..Len(list))
           /\ \A i \in 1..Len(list) : i \in Scanned(list, idMap, list[idMap[i]].pid)
<1>1. Len(list) \in Nat
  BY DEF WellFormed
<1>2. \A i \in 1..Len(list) : idMap[i] \in 1..Len(list) /\ list[idMap[i]] \in Process
  <2>1. \A i \in 1..Len(list) : idMap[i] \in 1..Len(list)
    BY DEF WellFormed
  <2>2. \A n \in 1..Len(list) : list[n] \in Process
    BY DEF WellFormed
  <2>. QED
    BY <2>1, <2>2
<1>3. \A pid : Scanned(list, idMap, pid) \in SUBSET (1..Len(list))
  BY DEF WellFormed, Scanned
<1>4. ASSUME NEW i \in 1..Len(list)
      PROVE  i \in Scanned(list, idMap, list[idMap[i]].pid)
  <2>1. i \in 1..i
    BY <1>1
  <2>2. PidAt(list, idMap, i) = list[idMap[i]].pid
    BY DEF PidAt
  <2>3. i \in 1..Len(idMap)
    BY DEF WellFormed
  <2>. QED
    BY <2>1, <2>2, <2>3 DEF Scanned
<1>. QED
  BY <1>1, <1>2, <1>3, <1>4

\* Find returns nothing or an object of the table.
LEMMA FindRange ==
    ASSUME NEW list, NEW idMap, WellFormed(list, idMap), NEW pid
    PROVE  Find(list, idMap, pid) \in 0..Len(list)
<1>. DEFINE scanned == Scanned(list, idMap, pid)
            alive   == {i \in scanned : list[idMap[i]].alive}
            latest  == {i \in scanned :
                          /\ list[idMap[i]].ctime > 0
                          /\ \A j \in scanned :
                                list[idMap[j]].ctime <= list[idMap[i]].ctime}
<1>1. Len(list) \in Nat
  BY DEF WellFormed
<1>2. scanned \in SUBSET (1..Len(list))
  BY DEF WellFormed, Scanned
<1>3. ASSUME NEW S \in SUBSET scanned, S # {}
      PROVE  FirstOf(idMap, S) \in 1..Len(list)
  <2>1. PICK s \in S : TRUE
    BY <1>3
  <2>2. S \in SUBSET (1..Len(list))
    BY <1>2
  <2>3. PICK i \in S : FirstOf(idMap, S) = idMap[i]
    BY <1>1, <2>1, <2>2, FirstOfIs
  <2>. QED
    BY <2>2, <2>3 DEF WellFormed
<1>4. alive \in SUBSET scanned /\ latest \in SUBSET scanned
  OBVIOUS
<1>. HIDE DEF scanned, alive, latest
<1>5. alive # {} => FirstOf(idMap, alive) \in 1..Len(list)
  BY <1>3, <1>4
<1>6. latest # {} => FirstOf(idMap, latest) \in 1..Len(list)
  BY <1>3, <1>4
<1>7. Find(list, idMap, pid) =
        IF alive # {} THEN FirstOf(idMap, alive)
        ELSE IF latest # {} THEN FirstOf(idMap, latest) ELSE NULL
  BY DEF Find, scanned, alive, latest
<1>. QED
  BY <1>1, <1>5, <1>6, <1>7 DEF NULL

\* Find returns an object whenever one of the id is alive or has a creation
\* time, so that the creation handler never makes a second one.
LEMMA FindsSomething ==
    ASSUME NEW list, NEW idMap, WellFormed(list, idMap), NEW pid,
           NEW n \in 1..Len(list), list[n].pid = pid,
           list[n].alive \/ list[n].ctime > 0
    PROVE  Find(list, idMap, pid) # NULL
<1>. DEFINE scanned == Scanned(list, idMap, pid)
            alive   == {i \in scanned : list[idMap[i]].alive}
            latest  == {i \in scanned :
                          /\ list[idMap[i]].ctime > 0
                          /\ \A j \in scanned :
                                list[idMap[j]].ctime <= list[idMap[i]].ctime}
            f == [i \in scanned |-> list[idMap[i]].ctime]
<1>1. Len(list) \in Nat
  BY DEF WellFormed
<1>2. scanned \in SUBSET (1..Len(list))
  BY DEF WellFormed, Scanned
<1>3. PICK i \in 1..Len(list) : idMap[i] = n
  BY DEF WellFormed
<1>4. i \in scanned
  BY <1>3, Entries
<1>5. \A j \in scanned : idMap[j] \in 1..Len(list) /\ list[idMap[j]].ctime \in Nat
  <2>. HIDE DEF scanned
  <2>1. \A j \in 1..Len(list) : idMap[j] \in 1..Len(list) /\ list[idMap[j]] \in Process
    BY Entries
  <2>2. \A j \in scanned : list[idMap[j]] \in Process
    BY <1>2, <2>1
  <2>. QED
    BY <1>2, <2>1, <2>2 DEF Process
<1>6. PICK k \in scanned : \A j \in scanned : f[j] <= f[k]
  <2>. HIDE DEF scanned
  <2>1. \A j \in scanned : f[j] \in Nat
    BY <1>5
  <2>. HIDE DEF f
  <2>. QED
    BY <1>1, <1>2, <1>4, <2>1, GreatestExists
<1>7. alive # {} \/ latest # {}
  <2>. HIDE DEF scanned
  <2>1. CASE list[n].alive
    BY <1>3, <1>4, <2>1
  <2>2. CASE list[n].ctime > 0
    <3>1. list[idMap[k]].ctime > 0
      BY <1>3, <1>4, <1>5, <1>6, <2>2
    <3>2. k \in latest
      BY <1>6, <3>1
    <3>. QED
      BY <3>2
  <2>. QED
    BY <2>1, <2>2
<1>8. ASSUME NEW S \in SUBSET scanned, S # {}
      PROVE  FirstOf(idMap, S) # 0
  <2>1. PICK s \in S : TRUE
    BY <1>8
  <2>2. S \in SUBSET (1..Len(list))
    BY <1>2
  <2>3. PICK j \in S : FirstOf(idMap, S) = idMap[j]
    BY <1>1, <2>1, <2>2, FirstOfIs
  <2>. QED
    BY <1>5, <2>3
<1>9. alive \in SUBSET scanned /\ latest \in SUBSET scanned
  OBVIOUS
<1>10. Find(list, idMap, pid) =
        IF alive # {} THEN FirstOf(idMap, alive)
        ELSE IF latest # {} THEN FirstOf(idMap, latest) ELSE NULL
  BY DEF Find
<1>. HIDE DEF scanned, alive, latest
<1>. QED
  BY <1>7, <1>8, <1>9, <1>10 DEF NULL

\* With one object per id, Find returns the living object of an id.
LEMMA FindsLiving ==
    ASSUME NEW list, NEW idMap, WellFormed(list, idMap), OnePerPid(list),
           NEW n \in 1..Len(list), list[n].alive
    PROVE  Find(list, idMap, list[n].pid) = n
<1>. DEFINE scanned == Scanned(list, idMap, list[n].pid)
            alive   == {i \in scanned : list[idMap[i]].alive}
<1>1. Len(list) \in Nat
  BY DEF WellFormed
<1>2. scanned \in SUBSET (1..Len(list))
  BY DEF WellFormed, Scanned
<1>3. PICK i \in 1..Len(list) : idMap[i] = n
  BY DEF WellFormed
<1>4. i \in scanned
  BY <1>3, Entries
<1>5. i \in alive
  BY <1>3, <1>4
<1>6. alive \in SUBSET (1..Len(list))
  BY <1>2
<1>7. PICK k \in alive : /\ \A j \in alive : k <= j
                         /\ FirstOf(idMap, alive) = idMap[k]
  <2>. HIDE DEF alive
  <2>. QED
    BY <1>1, <1>5, <1>6, FirstOfIs
<1>8. PICK j \in 1..k : PidAt(list, idMap, j) = list[n].pid
  BY DEF Scanned
<1>13. j \in 1..Len(list) /\ idMap[j] \in 1..Len(list)
  BY <1>1, <1>2, Entries
<1>9. idMap[j] = n
  BY <1>8, <1>13 DEF OnePerPid, PidAt
<1>10. j \in alive
  BY <1>9, <1>13, Entries
<1>11. k = j
  BY <1>2, <1>7, <1>8, <1>10
<1>12. Find(list, idMap, list[n].pid) = FirstOf(idMap, alive)
  BY <1>5 DEF Find
<1>. QED
  BY <1>7, <1>9, <1>11, <1>12

\* Find returns nothing for an id that no object has.
LEMMA FindsNothing ==
    ASSUME NEW list, NEW idMap, WellFormed(list, idMap), NEW pid,
           \A n \in 1..Len(list) : list[n].pid # pid
    PROVE  Find(list, idMap, pid) = NULL
<1>1. Len(list) \in Nat /\ Len(idMap) = Len(list)
  BY DEF WellFormed
<1>2. \A i \in 1..Len(list) : PidAt(list, idMap, i) # pid
  BY Entries DEF PidAt
<1>3. Scanned(list, idMap, pid) = {}
  BY <1>1, <1>2 DEF Scanned
<1>. QED
  BY <1>3 DEF Find

\* While the object of an id is alive or there is none, Find returns no
\* object of another id.
LEMMA FindsOwn ==
    ASSUME NEW list, NEW idMap, WellFormed(list, idMap), OnePerPid(list), NEW pid,
           \A n \in 1..Len(list) : list[n].pid = pid => list[n].alive,
           Find(list, idMap, pid) # NULL
    PROVE  /\ Find(list, idMap, pid) \in 1..Len(list)
           /\ list[Find(list, idMap, pid)].pid = pid
<1>1. PICK n \in 1..Len(list) : list[n].pid = pid
  BY FindsNothing
<1>2. Find(list, idMap, list[n].pid) = n
  BY <1>1, FindsLiving
<1>. QED
  BY <1>1, <1>2
-----------------------------------------------------------------------------
(* The operators that change the table. *)

\* What updating one field of an object does to it.
LEMMA SetFields ==
    ASSUME NEW e \in Process, NEW v \in Nat
    PROVE  /\ [e EXCEPT !.parent = v] \in Process
           /\ [e EXCEPT !.children = Append(@, v)] \in Process
           /\ [e EXCEPT !.alive = FALSE] \in Process
<1>1. Append(e.children, v) \in Seq(Nat)
  <2>1. e.children \in Seq(Nat)
    BY DEF Process
  <2>. QED
    BY <2>1, AppendProperties
<1>. QED
  BY <1>1 DEF Process

\* The constructor makes an object.
LEMMA NewObject ==
    ASSUME NEW pid \in Ids, NEW ppid \in Ids, NEW ctime \in Nat
    PROVE  CUniqueProcess(pid, ppid, ctime) \in Process
  BY DEF CUniqueProcess, Process, NULL

\* FillParent changes nothing but one parent pointer and one child list.
LEMMA FillParentEffect ==
    ASSUME NEW list, NEW idMap, WellFormed(list, idMap),
           NEW n \in 1..Len(list), NEW new, new = FillParent(list, idMap, n)
    PROVE  /\ new \in Seq(Process)
           /\ Len(new) = Len(list)
           /\ \A m \in 1..Len(list) :
                /\ new[m].pid = list[m].pid
                /\ new[m].ppid = list[m].ppid
                /\ new[m].ctime = list[m].ctime
                /\ new[m].alive = list[m].alive
           /\ LET p == Find(list, idMap, list[n].ppid)
              IN  \A m \in 1..Len(list) :
                    /\ new[m].parent = IF m = n /\ p # NULL THEN p ELSE list[m].parent
                    /\ new[m].children = IF m = p THEN Append(list[m].children, n)
                                                ELSE list[m].children
<1>. DEFINE p == Find(list, idMap, list[n].ppid)
            one == [list EXCEPT ![n] = [list[n] EXCEPT !.parent = p]]
<1>1. /\ Len(list) \in Nat
      /\ list \in [1..Len(list) -> Process]
      /\ list \in Seq(Process)
  BY DEF WellFormed
<1>2. p \in 0..Len(list)
  BY FindRange
<1>3. CASE p = NULL
  BY <1>1, <1>3 DEF FillParent, NULL
<1>4. CASE p # NULL
  <2>1. p \in 1..Len(list)
    BY <1>2, <1>4 DEF NULL
  <2>. HIDE DEF p
  <2>2. list[n] \in Process
    BY <1>1
  <2>3. [list[n] EXCEPT !.parent = p] \in Process
    <3>1. p \in Nat
      BY <1>1, <2>1
    <3>. QED
      BY <2>2, <3>1, SetFields
  <2>4. one \in Seq(Process) /\ Len(one) = Len(list)
    BY <2>3, <1>1, ExceptSeq
  <2>5. one[p] \in Process
    BY <2>1, <2>4
  <2>6. [one[p] EXCEPT !.children = Append(@, n)] \in Process
    <3>1. n \in Nat
      BY <1>1
    <3>. QED
      BY <2>5, <3>1, SetFields
  <2>7. new = [one EXCEPT ![p] = [one[p] EXCEPT !.children = Append(@, n)]]
    BY <1>4 DEF FillParent, p
  <2>8. new \in Seq(Process) /\ Len(new) = Len(list)
    BY <2>1, <2>4, <2>6, <2>7, ExceptSeq
  <2>9. \A m \in 1..Len(list) : one[m] = IF m = n THEN [list[n] EXCEPT !.parent = p] ELSE list[m]
    BY <1>1
  <2>10. \A m \in 1..Len(list) :
            new[m] = IF m = p THEN [one[p] EXCEPT !.children = Append(@, n)] ELSE one[m]
    BY <2>4, <2>7
  <2>11. \A m \in 1..Len(list) : list[m] \in Process
    BY <1>1
  <2>. HIDE DEF one
  <2>12. \A m \in 1..Len(list) :
            /\ one[m].pid = list[m].pid
            /\ one[m].ppid = list[m].ppid
            /\ one[m].ctime = list[m].ctime
            /\ one[m].alive = list[m].alive
            /\ one[m].parent = IF m = n THEN p ELSE list[m].parent
            /\ one[m].children = list[m].children
    BY <2>9, <2>11 DEF Process
  <2>13. \A m \in 1..Len(list) : one[m] \in Process
    BY <2>4
  <2>14. \A m \in 1..Len(list) :
            /\ new[m].pid = one[m].pid
            /\ new[m].ppid = one[m].ppid
            /\ new[m].ctime = one[m].ctime
            /\ new[m].alive = one[m].alive
            /\ new[m].parent = one[m].parent
            /\ new[m].children = IF m = p THEN Append(one[m].children, n)
                                        ELSE one[m].children
    BY <2>1, <2>10, <2>13 DEF Process
  <2>. QED
    BY <1>4, <2>8, <2>12, <2>14 DEF p
<1>. QED
  BY <1>3, <1>4

\* Marking an object dead changes nothing else.
LEMMA KillEffect ==
    ASSUME NEW list \in Seq(Process), NEW n \in 0..Len(list),
           NEW new, new = Kill(list, n)
    PROVE  /\ new \in Seq(Process)
           /\ Len(new) = Len(list)
           /\ \A m \in 1..Len(list) :
                /\ new[m].pid = list[m].pid
                /\ new[m].ppid = list[m].ppid
                /\ new[m].ctime = list[m].ctime
                /\ new[m].parent = list[m].parent
                /\ new[m].children = list[m].children
                /\ m # n => new[m].alive = list[m].alive
                /\ m = n => ~ new[m].alive
<1>1. Len(list) \in Nat /\ list \in [1..Len(list) -> Process]
  OBVIOUS
<1>2. CASE n = 0
  BY <1>1, <1>2 DEF Kill, NULL
<1>3. CASE n \in 1..Len(list)
  <2>1. \A m \in 1..Len(list) : list[m] \in Process
    BY <1>1
  <2>2. [list[n] EXCEPT !.alive = FALSE] \in Process
    BY <1>3, <2>1 DEF Process
  <2>3. new = [list EXCEPT ![n] = [list[n] EXCEPT !.alive = FALSE]]
    BY <1>3 DEF Kill, NULL
  <2>4. new \in Seq(Process) /\ Len(new) = Len(list)
    BY <1>3, <2>2, <2>3, ExceptSeq
  <2>5. \A m \in 1..Len(list) :
          new[m] = IF m = n THEN [list[n] EXCEPT !.alive = FALSE] ELSE list[m]
    BY <1>1, <2>3
  <2>6. \A m \in 1..Len(list) : m # n => new[m] = list[m]
    BY <2>5
  <2>7. new[n] = [list[n] EXCEPT !.alive = FALSE] /\ list[n] \in Process
    BY <1>3, <2>1, <2>5
  <2>8. /\ new[n].pid = list[n].pid
        /\ new[n].ppid = list[n].ppid
        /\ new[n].ctime = list[n].ctime
        /\ new[n].parent = list[n].parent
        /\ new[n].children = list[n].children
        /\ ~ new[n].alive
    BY <2>7 DEF Process
  <2>. QED
    BY <2>4, <2>6, <2>8
<1>. QED
  BY <1>2, <1>3

\* After an insertion the table is well formed again, in whatever order the
\* container now walks its entries.
LEMMA InsertWellFormed ==
    ASSUME NEW list \in Seq(Process), NEW up \in Process,
           NEW order \in IdMapOrders(ListWith(list, up))
    PROVE  /\ ListWith(list, up) \in Seq(Process)
           /\ Len(ListWith(list, up)) = Len(list) + 1
           /\ \A m \in 1..Len(list) : ListWith(list, up)[m] = list[m]
           /\ ListWith(list, up)[Len(list) + 1] = up
           /\ WellFormed(ListWith(list, up), order)
           /\ order \in Seq(Nat)
           /\ \A i, j \in 1..Len(order) : order[i] = order[j] => i = j
<1>. DEFINE new == ListWith(list, up)
<1>1. /\ new \in Seq(Process)
      /\ Len(new) = Len(list) + 1
      /\ \A m \in 1..Len(list) : new[m] = list[m]
      /\ new[Len(list) + 1] = up
  BY AppendProperties DEF ListWith
<1>. HIDE DEF new
<1>2. Len(new) \in Nat
  BY <1>1
<1>3. /\ order \in [1..Len(new) -> 1..Len(new)]
      /\ \A i, j \in 1..Len(new) : order[i] = order[j] => i = j
      /\ \A v \in 1..Len(new) : \E i \in 1..Len(new) : order[i] = v
  BY DEF new, IdMapOrders
<1>4. order \in Seq(Nat) /\ Len(order) = Len(new)
  <2>1. \A i \in 1..Len(new) : order[i] \in Nat
    BY <1>2, <1>3
  <2>2. order \in [1..Len(new) -> Nat]
    BY <1>3, <2>1
  <2>. QED
    BY <1>2, <2>2
<1>. QED
  BY <1>1, <1>3, <1>4 DEF new, WellFormed
-----------------------------------------------------------------------------
(* What every operation keeps of the table. *)

KeysMatch(list, keyMap) ==
    \A n \in 1..Len(list) :
        /\ <<list[n].pid, list[n].ctime>> \in DOMAIN keyMap
        /\ keyMap[<<list[n].pid, list[n].ctime>>] = n

LinksMatch(list) ==
    \A m \in 1..Len(list) :
        /\ \A i \in 1..Len(list[m].children) :
             /\ list[m].children[i] \in 1..Len(list)
             /\ list[list[m].children[i]].parent = m
        /\ \A i, j \in 1..Len(list[m].children) :
             list[m].children[i] = list[m].children[j] => i = j
        /\ \A n \in 1..Len(list) :
             list[n].parent = m =>
               \E i \in 1..Len(list[m].children) : list[m].children[i] = n

TableInv(list, keyMap, idMap) ==
    /\ WellFormed(list, idMap)
    /\ idMap \in Seq(Nat)
    /\ \A i, j \in 1..Len(idMap) : idMap[i] = idMap[j] => i = j
    /\ \A n \in 1..Len(list) : list[n].parent \in 0..Len(list)
    /\ OnePerPid(list)
    /\ KeysMatch(list, keyMap)
    /\ LinksMatch(list)

\* Inserting an object whose id the table does not have.
LEMMA InsertKeeps ==
    ASSUME NEW list, NEW keyMap, NEW idMap, TableInv(list, keyMap, idMap),
           NEW pid \in Ids, NEW ppid \in Ids, NEW ctime \in Nat,
           \A n \in 1..Len(list) : list[n].pid # pid,
           NEW up, up = CUniqueProcess(pid, ppid, ctime),
           NEW order \in IdMapOrders(ListWith(list, up))
    PROVE  TableInv(ListWith(list, up), KeyMapWith(keyMap, up, Len(list) + 1), order)
<1>. DEFINE new == ListWith(list, up)
            keys == KeyMapWith(keyMap, up, Len(list) + 1)
<1>1. /\ up \in Process
      /\ up.pid = pid /\ up.ctime = ctime /\ up.parent = 0 /\ up.children = <<>>
  BY DEF CUniqueProcess, Process, NULL
<1>2. /\ list \in Seq(Process)
      /\ Len(list) \in Nat
      /\ \A n \in 1..Len(list) : list[n] \in Process
  BY DEF TableInv, WellFormed
<1>3. /\ new \in Seq(Process)
      /\ Len(new) = Len(list) + 1
      /\ \A m \in 1..Len(list) : new[m] = list[m]
      /\ new[Len(list) + 1] = up
      /\ WellFormed(new, order)
      /\ order \in Seq(Nat)
      /\ \A i, j \in 1..Len(order) : order[i] = order[j] => i = j
  <2>1. list \in Seq(Process) /\ up \in Process
    BY <1>1, <1>2
  <2>2. /\ ListWith(list, up) \in Seq(Process)
        /\ Len(ListWith(list, up)) = Len(list) + 1
        /\ \A m \in 1..Len(list) : ListWith(list, up)[m] = list[m]
        /\ ListWith(list, up)[Len(list) + 1] = up
        /\ WellFormed(ListWith(list, up), order)
        /\ order \in Seq(Nat)
        /\ \A i, j \in 1..Len(order) : order[i] = order[j] => i = j
    <3>. HIDE DEF new, keys
    <3>. QED
      BY <2>1, InsertWellFormed
  <2>. QED
    BY <2>2
<1>. HIDE DEF new
<1>4. \A m \in 1..Len(new) : m \in 1..Len(list) \/ (m = Len(list) + 1 /\ m \notin 1..Len(list))
  BY <1>2, <1>3
<1>5. \A n \in 1..Len(new) : new[n].parent \in 0..Len(new)
  <2>1. \A n \in 1..Len(list) : new[n].parent \in 0..Len(list)
    BY <1>3 DEF TableInv
  <2>2. new[Len(list) + 1].parent = 0
    BY <1>1, <1>3
  <2>. QED
    BY <1>2, <1>3, <1>4, <2>1, <2>2
<1>6. OnePerPid(new)
  <2>1. \A m \in 1..Len(list) : new[m].pid = list[m].pid /\ new[m].pid # pid
    BY <1>3
  <2>2. new[Len(list) + 1].pid = pid
    BY <1>1, <1>3
  <2>3. OnePerPid(list)
    BY DEF TableInv
  <2>. QED
    BY <1>4, <2>1, <2>2, <2>3 DEF OnePerPid
<1>7. KeysMatch(new, keys)
  <2>1. ASSUME NEW n \in 1..Len(list)
        PROVE  /\ <<new[n].pid, new[n].ctime>> \in DOMAIN keys
               /\ keys[<<new[n].pid, new[n].ctime>>] = n
    <3>1. <<list[n].pid, list[n].ctime>> # <<up.pid, up.ctime>>
      BY <1>1
    <3>2. /\ <<list[n].pid, list[n].ctime>> \in DOMAIN keyMap
          /\ keyMap[<<list[n].pid, list[n].ctime>>] = n
      BY DEF TableInv, KeysMatch
    <3>. QED
      BY <3>1, <3>2, <1>3 DEF KeyMapWith
  <2>2. /\ <<up.pid, up.ctime>> \in DOMAIN keys
        /\ keys[<<up.pid, up.ctime>>] = Len(list) + 1
    BY DEF KeyMapWith
  <2>. QED
    BY <2>1, <2>2, <1>3, <1>4 DEF KeysMatch
<1>8. LinksMatch(new)
  <2>1. \A n \in 1..Len(new) : new[n].parent \in 0..Len(list)
    BY <1>1, <1>2, <1>3, <1>4 DEF TableInv
  <2>2. ASSUME NEW m \in 1..Len(list)
        PROVE  /\ \A i \in 1..Len(new[m].children) :
                    /\ new[m].children[i] \in 1..Len(new)
                    /\ new[new[m].children[i]].parent = m
               /\ \A i, j \in 1..Len(new[m].children) :
                    new[m].children[i] = new[m].children[j] => i = j
               /\ \A n \in 1..Len(new) : new[n].parent = m =>
                    \E i \in 1..Len(new[m].children) : new[m].children[i] = n
    <3>1. new[m] = list[m]
      BY <1>3
    <3>. LinksMatch(list)
      BY DEF TableInv
    <3>6. \A i \in 1..Len(list[m].children) :
            /\ list[m].children[i] \in 1..Len(list)
            /\ list[list[m].children[i]].parent = m
      BY DEF LinksMatch
    <3>2. \A i \in 1..Len(list[m].children) :
            /\ list[m].children[i] \in 1..Len(list)
            /\ new[list[m].children[i]].parent = m
      BY <1>3, <3>6
    <3>3. \A i, j \in 1..Len(list[m].children) :
            list[m].children[i] = list[m].children[j] => i = j
      BY DEF LinksMatch
    <3>4. ASSUME NEW n \in 1..Len(new), new[n].parent = m
          PROVE  \E i \in 1..Len(list[m].children) : list[m].children[i] = n
      <4>1. n \in 1..Len(list)
        BY <1>1, <1>2, <1>3, <1>4, <3>4
      <4>2. list[n].parent = m
        BY <4>1, <3>4, <1>3
      <4>. QED
        BY <4>1, <4>2 DEF LinksMatch
    <3>5. \A i \in 1..Len(list) : i \in 1..Len(new)
      BY <1>2, <1>3
    <3>. QED
      BY <3>1, <3>2, <3>3, <3>4, <3>5
  <2>3. \A n \in 1..Len(new) : new[n].parent # Len(list) + 1
    BY <1>2, <2>1
  <2>4. new[Len(list) + 1].children = <<>>
    BY <1>1, <1>3
  <2>. QED
    BY <1>4, <2>2, <2>3, <2>4 DEF LinksMatch
<1>. QED
  BY <1>3, <1>5, <1>6, <1>7, <1>8 DEF TableInv, new
\* Only parent pointers and child lists matter to LinksMatch.
LEMMA LinksSame ==
    ASSUME NEW list, NEW new, LinksMatch(list), Len(new) = Len(list),
           \A m \in 1..Len(list) : new[m].parent = list[m].parent,
           \A m \in 1..Len(list) : new[m].children = list[m].children
    PROVE  LinksMatch(new)
<1>1. ASSUME NEW m \in 1..Len(list), NEW i \in 1..Len(list[m].children)
      PROVE  /\ list[m].children[i] \in 1..Len(list)
             /\ new[list[m].children[i]].parent = m
  <2>1. /\ list[m].children[i] \in 1..Len(list)
        /\ list[list[m].children[i]].parent = m
    BY DEF LinksMatch
  <2>. QED
    BY <2>1
<1>2. ASSUME NEW m \in 1..Len(list), NEW n \in 1..Len(list), new[n].parent = m
      PROVE  \E i \in 1..Len(list[m].children) : list[m].children[i] = n
  BY <1>2 DEF LinksMatch
<1>3. ASSUME NEW m \in 1..Len(list), NEW i \in 1..Len(list[m].children),
             NEW j \in 1..Len(list[m].children),
             list[m].children[i] = list[m].children[j]
      PROVE  i = j
  BY <1>3 DEF LinksMatch
<1>4. ASSUME NEW m \in 1..Len(new)
      PROVE  /\ \A i \in 1..Len(new[m].children) :
                  /\ new[m].children[i] \in 1..Len(new)
                  /\ new[new[m].children[i]].parent = m
             /\ \A i, j \in 1..Len(new[m].children) :
                  new[m].children[i] = new[m].children[j] => i = j
             /\ \A n \in 1..Len(new) : new[n].parent = m =>
                  \E i \in 1..Len(new[m].children) : new[m].children[i] = n
  <2>1. new[m].children = list[m].children /\ m \in 1..Len(list)
    OBVIOUS
  <2>2. \A i \in 1..Len(list[m].children) :
          /\ list[m].children[i] \in 1..Len(list)
          /\ new[list[m].children[i]].parent = m
    BY <1>1, <2>1
  <2>3. \A i, j \in 1..Len(list[m].children) :
          list[m].children[i] = list[m].children[j] => i = j
    BY <1>3, <2>1
  <2>4. \A n \in 1..Len(list) : new[n].parent = m =>
          \E i \in 1..Len(list[m].children) : list[m].children[i] = n
    BY <1>2, <2>1
  <2>. QED
    BY <2>1, <2>2, <2>3, <2>4
<1>. QED
  BY <1>4 DEF LinksMatch

\* FillParent of an object that has no parent yet.
LEMMA FillParentKeeps ==
    ASSUME NEW list, NEW keyMap, NEW idMap, TableInv(list, keyMap, idMap),
           NEW n \in 1..Len(list), list[n].parent = NULL
    PROVE  TableInv(FillParent(list, idMap, n), keyMap, idMap)
<1>. DEFINE new == FillParent(list, idMap, n)
            p == Find(list, idMap, list[n].ppid)
<1>1. /\ WellFormed(list, idMap)
      /\ list \in Seq(Process)
      /\ Len(list) \in Nat
      /\ \A m \in 1..Len(list) : list[m] \in Process
  <2>1. list \in Seq(Process) /\ WellFormed(list, idMap)
    BY DEF TableInv, WellFormed
  <2>. QED
    BY <2>1
<1>2. /\ new \in Seq(Process)
      /\ Len(new) = Len(list)
      /\ \A m \in 1..Len(list) :
           /\ new[m].pid = list[m].pid
           /\ new[m].ctime = list[m].ctime
           /\ new[m].parent = IF m = n /\ p # NULL THEN p ELSE list[m].parent
           /\ new[m].children = IF m = p THEN Append(list[m].children, n)
                                       ELSE list[m].children
  <2>. HIDE DEF new
  <2>1. new = FillParent(list, idMap, n)
    BY DEF new
  <2>. QED
    BY <1>1, <2>1, FillParentEffect
<1>3. p \in 0..Len(list)
  BY <1>1, FindRange
<1>. HIDE DEF new, p
<1>4. WellFormed(new, idMap)
  BY <1>1, <1>2 DEF WellFormed
<1>5. OnePerPid(new) /\ KeysMatch(new, keyMap)
  <2>1. OnePerPid(list) /\ KeysMatch(list, keyMap)
    BY DEF TableInv
  <2>2. \A m \in 1..Len(list) : new[m].pid = list[m].pid /\ new[m].ctime = list[m].ctime
    BY <1>2
  <2>3. Len(new) = Len(list)
    BY <1>2
  <2>. QED
    BY <2>1, <2>2, <2>3 DEF OnePerPid, KeysMatch
<1>6. \A m \in 1..Len(new) : new[m].parent \in 0..Len(new)
  BY <1>1, <1>2, <1>3 DEF TableInv
<1>7. LinksMatch(new)
  <2>. LinksMatch(list)
    BY DEF TableInv
  <2>1. \A m \in 1..Len(list) : list[m].children \in Seq(Nat)
    BY <1>1 DEF Process
  <2>2. CASE p = NULL
    <3>1. \A m \in 1..Len(list) : /\ new[m].parent = list[m].parent
                                 /\ new[m].children = list[m].children
      BY <1>2, <2>2 DEF NULL
    <3>. QED
      BY <1>2, <3>1, LinksSame
  <2>3. CASE p # NULL
    <3>1. p \in 1..Len(list)
      BY <1>3, <2>3 DEF NULL
    <3>2. /\ new[n].parent = p
          /\ \A m \in 1..Len(list) : m # n => new[m].parent = list[m].parent
          /\ new[p].children = Append(list[p].children, n)
          /\ \A m \in 1..Len(list) : m # p => new[m].children = list[m].children
      BY <1>2, <2>3, <3>1
    <3>3. \A m \in 1..Len(list) : \A i \in 1..Len(list[m].children) :
            /\ list[m].children[i] \in 1..Len(list)
            /\ list[m].children[i] # n
            /\ list[list[m].children[i]].parent = m
      BY DEF LinksMatch, NULL
    <3>4. \A m \in 1..Len(list) : Len(list[m].children) \in Nat
      BY <2>1
    <3>5. /\ Len(new[p].children) = Len(list[p].children) + 1
          /\ \A i \in 1..Len(list[p].children) : new[p].children[i] = list[p].children[i]
          /\ new[p].children[Len(list[p].children) + 1] = n
      BY <1>1, <2>1, <3>1, <3>2, AppendProperties
    <3>6. \A i \in 1..Len(new[p].children) :
            \/ i \in 1..Len(list[p].children)
            \/ i = Len(list[p].children) + 1
      BY <3>1, <3>4, <3>5
    <3>7. ASSUME NEW m \in 1..Len(list), NEW i \in 1..Len(new[m].children)
          PROVE  /\ new[m].children[i] \in 1..Len(list)
                 /\ new[new[m].children[i]].parent = m
      <4>1. CASE m = p /\ i \in 1..Len(list[p].children)
        <5>1. new[m].children[i] = list[m].children[i]
          BY <3>5, <4>1
        <5>2. /\ list[m].children[i] \in 1..Len(list)
              /\ list[m].children[i] # n
              /\ list[list[m].children[i]].parent = m
          BY <3>3, <4>1
        <5>. QED
          BY <3>2, <5>1, <5>2
      <4>2. CASE m = p /\ i = Len(list[p].children) + 1
        BY <3>2, <3>5, <4>2
      <4>3. CASE m # p
        <5>1. new[m].children = list[m].children
          BY <3>2, <4>3
        <5>2. /\ list[m].children[i] \in 1..Len(list)
              /\ list[m].children[i] # n
              /\ list[list[m].children[i]].parent = m
          BY <3>3, <5>1
        <5>. QED
          BY <3>2, <5>1, <5>2
      <4>. QED
        BY <3>6, <4>1, <4>2, <4>3
    <3>8. ASSUME NEW m \in 1..Len(list), NEW i \in 1..Len(new[m].children),
                 NEW j \in 1..Len(new[m].children),
                 new[m].children[i] = new[m].children[j]
          PROVE  i = j
      <4>1. \A k, l \in 1..Len(list[m].children) :
               list[m].children[k] = list[m].children[l] => k = l
        BY DEF LinksMatch
      <4>2. CASE m = p
        <5>1. \A k \in 1..Len(list[p].children) :
                 new[p].children[k] = list[p].children[k] /\ list[p].children[k] # n
          BY <3>1, <3>3, <3>5
        <5>2. CASE i \in 1..Len(list[p].children) /\ j \in 1..Len(list[p].children)
          BY <3>8, <4>1, <4>2, <5>1, <5>2
        <5>3. CASE i \notin 1..Len(list[p].children) \/ j \notin 1..Len(list[p].children)
          BY <3>5, <3>6, <3>8, <4>2, <5>1, <5>3
        <5>. QED
          BY <5>2, <5>3
      <4>3. CASE m # p
        BY <3>2, <3>8, <4>1, <4>3
      <4>. QED
        BY <4>2, <4>3
    <3>9. ASSUME NEW m \in 1..Len(list), NEW k \in 1..Len(list), new[k].parent = m
          PROVE  \E i \in 1..Len(new[m].children) : new[m].children[i] = k
      <4>1. CASE k = n
        <5>1. m = p
          BY <3>2, <3>9, <4>1
        <5>2. Len(list[p].children) + 1 \in 1..Len(new[p].children)
          BY <3>1, <3>4, <3>5
        <5>. QED
          BY <3>5, <4>1, <5>1, <5>2
      <4>2. CASE k # n
        <5>1. list[k].parent = m
          BY <3>2, <3>9, <4>2
        <5>2. PICK i \in 1..Len(list[m].children) : list[m].children[i] = k
          BY <5>1 DEF LinksMatch
        <5>3. CASE m = p
          <6>1. i \in 1..Len(new[p].children)
            BY <3>1, <3>4, <3>5, <5>2, <5>3
          <6>. QED
            BY <3>5, <5>2, <5>3, <6>1
        <5>4. CASE m # p
          BY <3>2, <5>2, <5>4
        <5>. QED
          BY <5>3, <5>4
      <4>. QED
        BY <4>1, <4>2
    <3>. QED
      BY <1>2, <3>7, <3>8, <3>9 DEF LinksMatch
  <2>. QED
    BY <2>2, <2>3
<1>8. /\ idMap \in Seq(Nat)
      /\ \A i, j \in 1..Len(idMap) : idMap[i] = idMap[j] => i = j
  BY DEF TableInv
<1>. QED
  BY <1>4, <1>5, <1>6, <1>7, <1>8 DEF TableInv, new

\* Marking an object dead.
LEMMA KillKeeps ==
    ASSUME NEW list, NEW keyMap, NEW idMap, TableInv(list, keyMap, idMap),
           NEW n \in 0..Len(list)
    PROVE  TableInv(Kill(list, n), keyMap, idMap)
<1>. DEFINE new == Kill(list, n)
<1>1. list \in Seq(Process)
  BY DEF TableInv, WellFormed
<1>2. /\ new \in Seq(Process)
      /\ Len(new) = Len(list)
      /\ \A m \in 1..Len(list) :
           /\ new[m].pid = list[m].pid
           /\ new[m].ctime = list[m].ctime
           /\ new[m].parent = list[m].parent
           /\ new[m].children = list[m].children
  <2>. HIDE DEF new
  <2>1. new = Kill(list, n)
    BY DEF new
  <2>. QED
    BY <1>1, <2>1, KillEffect
<1>. HIDE DEF new
<1>3. WellFormed(new, idMap)
  BY <1>2 DEF TableInv, WellFormed
<1>4. OnePerPid(new) /\ KeysMatch(new, keyMap)
  BY <1>2 DEF TableInv, OnePerPid, KeysMatch
<1>5. LinksMatch(new)
  <2>. LinksMatch(list)
    BY DEF TableInv
  <2>. QED
    BY <1>2, LinksSame
<1>. QED
  BY <1>2, <1>3, <1>4, <1>5 DEF TableInv, new
=============================================================================
