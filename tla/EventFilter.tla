---------------------------- MODULE EventFilter ----------------------------
(***************************************************************************)
(* The filters of CEventMgr: reference counted objects, listed in          *)
(* m_FilterList and once more by key in m_KeyFilterList, and DoFilter,     *)
(* which decides by them whether an event is shown.                        *)
(*                                                                         *)
(* LoadFilters and GetFilters are the interface for the program this       *)
(* library is embedded in, which is external: it copies the list, edits    *)
(* the copy, loads it and gives up what it allocated.  LoadFilters takes   *)
(* no lock; the model is of a program that loads while no event is being   *)
(* filtered.                                                               *)
(*                                                                         *)
(* A string is the set of the words it contains, case folded: Contain is   *)
(* then inclusion.                                                         *)
(***************************************************************************)
EXTENDS Integers, FiniteSetsExt, SequencesExt

CONSTANTS Self,       \* id of the monitor's own process
          Filters,    \* filters the embedding program makes
          Events,     \* events put to DoFilter
          MaxObjects  \* bound: filter objects ever made

SystemPid == 4

Numbers == {"PID", "SessionId"}
Strings == {"ProcessName", "ProcessPath", "EventPath", "BriefResult"}
Enums   == {"Arch", "EventType", "EventClass"}
Kinds   == Numbers \cup Strings \cup Enums

\* The relations the DoFilter of a class knows; any other is never passed.
Relations(kind) ==
    {"Is", "IsNot"} \cup IF kind \in Numbers THEN {"LargerThan", "SmallerThan"}
                         ELSE IF kind \in Strings THEN {"Contain", "NotContain"}
                         ELSE {}

ASSUME SelfAssumption == Self \in Nat /\ MaxObjects \in Nat
ASSUME FiltersAssumption ==
    \A f \in Filters : /\ DOMAIN f = {"kind", "rel", "include", "value"}
                       /\ f.kind \in Kinds
                       /\ f.rel \in Relations(f.kind)
                       /\ f.include \in BOOLEAN

VARIABLES
    heap,        \* every filter made; refs is m_RefCount, deleted once it was 0
    filterList,  \* m_FilterList
    keyLists,    \* m_KeyFilterList
    draft,       \* the embedding program's copy of the list
    held         \* filters it holds the reference of their creation of

filterVars == <<heap, filterList, keyLists, draft, held>>

-----------------------------------------------------------------------------
(* CEventFilter. *)

PidFilter(pid) == [kind |-> "PID", rel |-> "Is", include |-> FALSE, value |-> pid]

\* new: the constructor counts its caller's reference.
New(f) == [filter |-> f, refs |-> 1, deleted |-> FALSE]

Occurrences(l, n) == Cardinality({i \in 1..Len(l) : l[i] = n})

\* Reference every filter of the list.
Reference(h, l) == [n \in DOMAIN h |-> [h[n] EXCEPT !.refs = @ + Occurrences(l, n)]]

\* Dereference every filter of the list: one that reaches 0 deletes itself.
Dereference(h, l) ==
    [n \in DOMAIN h |->
       LET left == h[n].refs - Occurrences(l, n)
       IN  [h[n] EXCEPT !.refs = left, !.deleted = @ \/ left = 0]]

\* GetKey.  The result filter answers with the key of the path filter.
Key(f) == IF f.kind = "BriefResult" THEN "EventPath" ELSE f.kind

\* The DoFilter of the classes: ">=" and "<=", and substrings.
Passes(f, ev) ==
    LET v == ev[f.kind]
    IN  CASE f.rel = "Is"          -> v = f.value
          [] f.rel = "IsNot"       -> v # f.value
          [] f.rel = "LargerThan"  -> v >= f.value
          [] f.rel = "SmallerThan" -> v <= f.value
          [] f.rel = "Contain"     -> f.value \subseteq v
          [] f.rel = "NotContain"  -> ~(f.value \subseteq v)

-----------------------------------------------------------------------------
(* CEventMgr. *)

\* Mutant: an include filter that passes does not end the scan of its key.
Mutant_Scan(l, ev) ==
    FoldLeft(LAMBDA s, n :
               LET f == heap[n].filter
               IN  IF s.hidden THEN s
                   ELSE [any    |-> s.any \/ f.include,
                         pass   |-> s.pass \/ (f.include /\ Passes(f, ev)),
                         hidden |-> ~f.include /\ Passes(f, ev)],
             [any |-> FALSE, pass |-> FALSE, hidden |-> FALSE], l)

\* The scan of one key's filters: any is bAnyInclude, pass is bKeyPass, and
\* the first filter that passes ends it.
Scan(l, ev) ==
    LET scan[i \in 0..Len(l)] ==
          IF i = 0 THEN [any |-> FALSE, pass |-> FALSE, hidden |-> FALSE]
          ELSE LET s == scan[i - 1]
                   f == heap[l[i]].filter
               IN  IF s.pass \/ s.hidden THEN s
                   ELSE [any    |-> s.any \/ f.include,
                         pass   |-> f.include /\ Passes(f, ev),
                         hidden |-> ~f.include /\ Passes(f, ev)]
    IN  scan[Len(l)]

\* CEventMgr::DoFilter.
DoFilter(ev) ==
    \A key \in Kinds :
      LET s == Scan(keyLists[key], ev)
      IN  ~s.hidden /\ (s.any => s.pass)

\* Initialize adds two filters and keeps the reference of their creation
\* beside the list's.
InitFilters ==
    /\ heap = [n \in 1..2 |-> [New(PidFilter(IF n = 1 THEN Self ELSE SystemPid)) EXCEPT !.refs = 2]]
    /\ filterList = <<1, 2>>
    /\ keyLists = [key \in Kinds |-> IF key = "PID" THEN <<1, 2>> ELSE <<>>]
    /\ draft = <<>>
    /\ held = {}

\* GetFilters copies the list and counts nothing.
GetFilters ==
    /\ draft' = filterList
    /\ UNCHANGED <<heap, filterList, keyLists, held>>

\* The filters of one key, in the order of the list.
ByKey(l, key) ==
    LET filled[i \in 0..Len(l)] ==
          IF i = 0 THEN <<>>
          ELSE IF Key(heap[l[i]].filter) = key THEN Append(filled[i - 1], l[i])
          ELSE filled[i - 1]
    IN  filled[Len(l)]

\* Mutant: the old list is released first.
Mutant_LoadFilters ==
    /\ keyLists' = [key \in Kinds |-> ByKey(draft, key)]
    /\ heap' = Reference(Dereference(heap, filterList), draft)
    /\ filterList' = draft
    /\ draft' = <<>>
    /\ UNCHANGED held

\* Mutant: the new list is not referenced.
Mutant_LoadFilters_Count ==
    /\ keyLists' = [key \in Kinds |-> ByKey(draft, key)]
    /\ heap' = Dereference(heap, filterList)
    /\ filterList' = draft
    /\ draft' = <<>>
    /\ UNCHANGED held

\* LoadFilters: fill the cleared lists by key, reference the new list, then
\* dereference the old one.  The program drops its copy, which nothing keeps
\* alive.
LoadFilters ==
    /\ keyLists' = [key \in Kinds |-> ByKey(draft, key)]
    /\ heap' = Dereference(Reference(heap, draft), filterList)
    /\ filterList' = draft
    /\ draft' = <<>>
    /\ UNCHANGED held

\* The embedding program edits its copy.
AddFilter(f) ==
    /\ Len(heap) < MaxObjects
    /\ heap' = Append(heap, New(f))
    /\ draft' = Append(draft, Len(heap'))
    /\ held' = held \cup {Len(heap')}
    /\ UNCHANGED <<filterList, keyLists>>

RemoveFilter(i) ==
    /\ draft' = RemoveAt(draft, i)
    /\ UNCHANGED <<heap, filterList, keyLists, held>>

\* It gives up a filter it made, once its copy does not name it.
Release(n) ==
    /\ Occurrences(draft, n) = 0
    /\ heap' = Dereference(heap, <<n>>)
    /\ held' = held \ {n}
    /\ UNCHANGED <<filterList, keyLists, draft>>

NextFilters ==
    \/ GetFilters
    \/ LoadFilters
    \/ \E f \in Filters : AddFilter(f)
    \/ \E i \in 1..Len(draft) : RemoveFilter(i)
    \/ \E n \in held : Release(n)

SpecFilters == InitFilters /\ [][NextFilters]_filterVars

-----------------------------------------------------------------------------
(* Properties. *)

Basic == {1, 2}

\* Lists name filters that were made; a count is never negative.
TypeOK ==
    /\ heap \in Seq([filter : Filters \cup {PidFilter(Self), PidFilter(SystemPid)},
                     refs : Nat, deleted : BOOLEAN])
    /\ filterList \in Seq(1..Len(heap))
    /\ draft \in Seq(1..Len(heap))
    /\ held \subseteq 1..Len(heap)

\* A reference count is the number of references: one of the list, one of the
\* program that made the filter until it gives it up, and the one Initialize
\* keeps.
CountsRight ==
    \A n \in 1..Len(heap) :
      heap[n].refs = Occurrences(filterList, n)
                       + (IF n \in held THEN 1 ELSE 0)
                       + (IF n \in Basic THEN 1 ELSE 0)

\* No list, the lists by key and the program's copy included, names a deleted
\* filter: DoFilter calls each of them.
ListsAlive ==
    \A n \in 1..Len(heap) :
      heap[n].deleted => Occurrences(filterList, n) = 0 /\ Occurrences(draft, n) = 0

KeyListsAlive ==
    \A n \in 1..Len(heap) :
      heap[n].deleted => \A key \in Kinds : Occurrences(keyLists[key], n) = 0

NoDangling == ListsAlive /\ KeyListsAlive

\* What the list of filters says of an event: a filter that excludes it counts
\* unless an earlier one of its key includes it, and a key with include filters
\* wants one of them to pass.
Shown(ev) ==
    LET F(i) == heap[filterList[i]].filter
        Included(key, before) ==
            \E i \in 1..before : Key(F(i)) = key /\ F(i).include /\ Passes(F(i), ev)
    IN  \A i \in 1..Len(filterList) :
          IF F(i).include THEN Included(Key(F(i)), Len(filterList))
          ELSE Passes(F(i), ev) => Included(Key(F(i)), i - 1)

\* Whatever filters are loaded, dropped and loaded again, in any order:
\* DoFilter says of every event what the list of filters says.
ShownAsListed == \A ev \in Events : DoFilter(ev) <=> Shown(ev)
=============================================================================
