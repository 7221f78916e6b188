---------------------------- MODULE ProcessTable ----------------------------
(***************************************************************************)
(* The process table of CProcessMgr (ProcessMgr.h, ProcessMgr.cpp) as pure *)
(* operators, shared by the modules that compose it with its callers.      *)
(*                                                                         *)
(*   list    m_List: the process objects in the order they were inserted;  *)
(*           an object is named by its index, and an object is never       *)
(*           removed (Uninitialize is commented out)                       *)
(*   idMap   m_IdMap: the iteration order of the multimap from process id  *)
(*           to object; Find walks this order                              *)
(*   keyMap  m_KeyMap: (process id, creation time) to object               *)
(***************************************************************************)
EXTENDS Integers, Sequences

CONSTANT Pids       \* process ids the system hands out

NULL == 0           \* the null CUniqueProcess pointer
SystemPid == 4      \* process id of the System process

\* What a process id's field may hold: the parent's id of System is 0.
Ids == Pids \cup {0, SystemPid}

(***************************************************************************)
(* The fields of an object that decide control: paths, command line, icon  *)
(* and session only decorate it.                                           *)
(***************************************************************************)
Process == [pid : Ids, ppid : Ids, ctime : Nat, alive : BOOLEAN,
            parent : Nat, children : Seq(Nat)]

\* The constructor: alive, with no parent object and no children yet.
CUniqueProcess(pid, ppid, ctime) ==
    [pid |-> pid, ppid |-> ppid, ctime |-> ctime, alive |-> TRUE,
     parent |-> NULL, children |-> <<>>]

PidAt(list, idMap, i) == list[idMap[i]].pid

\* Mutant: the walk starts at the beginning of the multimap.
Mutant_ScannedAll(list, idMap, pid) ==
    {i \in 1..Len(idMap) : \E j \in 1..Len(idMap) : PidAt(list, idMap, j) = pid}

(***************************************************************************)
(* Find starts at the first entry of the process id and walks to the end   *)
(* of the whole multimap, not to the end of the id's own entries.          *)
(***************************************************************************)
Scanned(list, idMap, pid) ==
    {i \in 1..Len(idMap) : \E j \in 1..i : PidAt(list, idMap, j) = pid}

FirstOf(idMap, S) == idMap[CHOOSE i \in S : \A j \in S : i <= j]

\* Mutant: Find prefers the latest process to a living one.
Mutant_FindLatest(list, idMap, pid) ==
    LET scanned == Scanned(list, idMap, pid)
    IN  IF scanned = {} THEN NULL
        ELSE FirstOf(idMap, {i \in scanned : \A j \in scanned :
                               list[idMap[j]].ctime <= list[idMap[i]].ctime})

Find(list, idMap, pid) ==
    LET scanned == Scanned(list, idMap, pid)
        alive   == {i \in scanned : list[idMap[i]].alive}
        latest  == {i \in scanned :
                      /\ list[idMap[i]].ctime > 0
                      /\ \A j \in scanned :
                            list[idMap[j]].ctime <= list[idMap[i]].ctime}
    IN  IF alive # {} THEN FirstOf(idMap, alive)
        ELSE IF latest # {} THEN FirstOf(idMap, latest)
        ELSE NULL

(***************************************************************************)
(* InsertProcess(up).  The object is appended to the list, overwrites the  *)
(* entry of its key, and enters the multimap: the container keeps entries  *)
(* of one process id together and may otherwise reorder everything on an   *)
(* insertion that rehashes, so every such order is possible.               *)
(***************************************************************************)
ListWith(list, up) == Append(list, up)

IdMapOrders(list) ==
    {s \in [1..Len(list) -> 1..Len(list)] :
       /\ \A i, j \in 1..Len(list) : s[i] = s[j] => i = j
       /\ \A v \in 1..Len(list) : \E i \in 1..Len(list) : s[i] = v
       /\ \A i, j, k \in 1..Len(list) :
            i < j /\ j < k /\ PidAt(list, s, i) = PidAt(list, s, k)
              => PidAt(list, s, j) = PidAt(list, s, i)}

\* Mutant: the index is taken before the object is appended.
Mutant_KeyMapWith(keyMap, up, n) ==
    [key \in DOMAIN keyMap \cup {<<up.pid, up.ctime>>} |->
       IF key = <<up.pid, up.ctime>> THEN n - 1 ELSE keyMap[key]]

KeyMapWith(keyMap, up, n) ==
    [key \in DOMAIN keyMap \cup {<<up.pid, up.ctime>>} |->
       IF key = <<up.pid, up.ctime>> THEN n ELSE keyMap[key]]

\* Mutant: the parent's process id is stored where its object belongs.
Mutant_FillParentId(list, idMap, n) ==
    [list EXCEPT ![n].parent = list[n].ppid]

\* Mutant: the child is not entered in its parent's list.
Mutant_FillParentOneWay(list, idMap, n) ==
    [list EXCEPT ![n].parent = Find(list, idMap, list[n].ppid)]

\* FillParent(up) for the object n: link it to what Find returns for its
\* parent's process id, if anything.
FillParent(list, idMap, n) ==
    LET p == Find(list, idMap, list[n].ppid)
    IN  IF p = NULL THEN list
        ELSE [list EXCEPT ![n].parent = p, ![p].children = Append(@, n)]

\* Mutant: the object stays alive.
Mutant_Kill(list, n) == list

\* What the exit notification does to the object Find returned.
Kill(list, n) == IF n = NULL THEN list ELSE [list EXCEPT ![n].alive = FALSE]
=============================================================================
