-------------------------- MODULE ProcessMgrProofs --------------------------
(***************************************************************************)
(* The process table's invariants hold for every set of process ids, every *)
(* order of notifications and every reuse of ids.                          *)
(***************************************************************************)
EXTENDS ProcessMgr, ProcessTableProofs

-----------------------------------------------------------------------------
(* The inductive invariant. *)

\* An object other than the System process has an id of the system's and a
\* creation time, so that Find can always return it.
Known ==
    \A n \in 1..Len(list) :
        list[n].pid = SystemPid \/ (list[n].pid \in Pids /\ list[n].ctime > 0)

\* A notification carries the creation time of its process.
Queued == \A i \in 1..Len(queue) : queue[i].ctime > 0

\* What the main thread has done so far: before it starts the worker, the
\* table has no object for a process still to be visited, and no object has
\* a parent unless FillList's loop has passed it.
Phases ==
    /\ pc \in {"capture", "modules"} => Len(list) = 0
    /\ pc = "snapshot" => \A n \in 1..Len(list) : list[n].pid = SystemPid
    /\ pc \in {"base", "path"} => \A n \in 1..Len(list) : list[n].pid \notin toEnum
    /\ pc = "path" => /\ base.pid \in Pids \ toEnum
                      /\ base.ctime > 0
                      /\ \A n \in 1..Len(list) : list[n].pid # base.pid
    /\ pc \notin {"parents", "run"} => cursor = 1
    /\ cursor >= 1
    /\ pc # "run" => \A n \in 1..Len(list) : n >= cursor => list[n].parent = NULL

\* No entry of the multimap leads to the object of another one.
Distinct(order) == \A i, j \in 1..Len(order) : order[i] = order[j] => i = j

IInv ==
    /\ TypeOK
    /\ TableInv(list, keyMap, idMap)
    /\ Distinct(idMap)
    /\ Known
    /\ Queued
    /\ Phases

-----------------------------------------------------------------------------
\* The invariant holds of the empty table main starts with.
LEMMA InitIInv == Init => IInv
<1>. SUFFICES ASSUME Init PROVE IInv
  OBVIOUS
<1>1. Len(list) = 0 /\ Len(idMap) = 0 /\ Len(queue) = 0
  BY DEF Init
<1>2. os \in [Pids -> OsEntry] /\ used \subseteq Parents /\ reused \in BOOLEAN /\ clock \in Nat
  BY BoundsAssumption DEF Init, OsInit, OsEntry, Live, Parents
<1>3. TypeOK
  <2>1. list \in Seq(Process) /\ idMap \in Seq(Nat) /\ queue \in Seq(Notice)
    BY DEF Init
  <2>2. \A n \in Objects : list[n].parent \in 0..Len(list)
    BY <1>1 DEF Objects
  <2>3. psSystem \in 0..Len(list) /\ cursor \in Nat
    BY <1>1 DEF Init, NULL
  <2>4. base \in [pid : Ids, ppid : Ids, ctime : Nat]
    BY DEF Init, NoBase, Ids
  <2>5. toEnum \subseteq Pids /\ unread \subseteq Pids /\ capture \in BOOLEAN
    BY DEF Init
  <2>6. pc \in {"capture", "modules", "snapshot", "base", "path", "parents", "run"}
    BY DEF Init
  <2>. QED
    BY <1>2, <2>1, <2>2, <2>3, <2>4, <2>5, <2>6 DEF TypeOK
<1>4. TableInv(list, keyMap, idMap) /\ Distinct(idMap)
  BY <1>1 DEF Init, TableInv, WellFormed, OnePerPid, KeysMatch, LinksMatch, Distinct
<1>5. Known /\ Queued /\ Phases
  BY <1>1 DEF Init, Known, Queued, Phases
<1>. QED
  BY <1>3, <1>4, <1>5 DEF IInv

\* The system's steps change nothing but the system and the queue.
LEMMA SystemIInv == IInv /\ System => IInv'
<1>. SUFFICES ASSUME IInv, System PROVE IInv'
  OBVIOUS
<1>. USE DEF IInv
<1>1. \A p \in Parents : p \in Nat
  BY PidsAssumption DEF Parents, SystemPid
<1>2. \E m \in Notice : m.ctime > 0 /\ Notify(m)
  <2>1. ASSUME NEW p \in Pids, NEW parent \in Parents, OsCreate(p, parent)
        PROVE  \E m \in Notice : m.ctime > 0 /\ Notify(m)
    <3>. DEFINE m == [create |-> TRUE, pid |-> p, ppid |-> parent, ctime |-> clock + 1]
    <3>1. m \in Notice /\ m.ctime > 0
      BY DEF Notice, TypeOK
    <3>. QED
      BY <2>1, <3>1 DEF OsCreate
  <2>2. ASSUME NEW p \in Pids, OsExit(p)
        PROVE  \E m \in Notice : m.ctime > 0 /\ Notify(m)
    <3>. DEFINE m == [create |-> FALSE, pid |-> p, ppid |-> os[p].ppid, ctime |-> os[p].ctime]
    <3>1. os[p] \in OsEntry /\ os[p].ctime > 0
      BY <2>2 DEF TypeOK, OsExit, Live
    <3>2. m \in Notice /\ m.ctime > 0
      BY <3>1 DEF Notice, OsEntry
    <3>. QED
      BY <2>2, <3>2 DEF OsExit
  <2>. QED
    BY <2>1, <2>2 DEF System
<1>3. UNCHANGED <<table, main, unread, capture>>
  BY DEF System, OsCreate, OsExit
<1>4. os' \in [Pids -> OsEntry] /\ clock' \in Nat /\ used' \subseteq Parents /\ reused' \in BOOLEAN
  <2>1. ASSUME NEW p \in Pids, NEW parent \in Parents, OsCreate(p, parent)
        PROVE  os' \in [Pids -> OsEntry] /\ clock' \in Nat /\ used' \subseteq Parents /\ reused' \in BOOLEAN
    BY <2>1 DEF OsCreate, TypeOK, OsEntry, Parents
  <2>2. ASSUME NEW p \in Pids, OsExit(p)
        PROVE  os' \in [Pids -> OsEntry] /\ clock' \in Nat /\ used' \subseteq Parents /\ reused' \in BOOLEAN
    BY <2>2 DEF OsExit, TypeOK, OsEntry, Parents
  <2>. QED
    BY <2>1, <2>2 DEF System
<1>5. queue' \in Seq(Notice) /\ Queued'
  <2>1. PICK m \in Notice : m.ctime > 0 /\ Notify(m)
    BY <1>2
  <2>2. queue \in Seq(Notice)
    BY DEF TypeOK
  <2>3. CASE queue' = queue
    BY <2>2, <2>3 DEF Queued
  <2>4. CASE queue' = Append(queue, m)
    <3>1. /\ queue' \in Seq(Notice)
          /\ Len(queue') = Len(queue) + 1
          /\ \A i \in 1..Len(queue) : queue'[i] = queue[i]
          /\ queue'[Len(queue) + 1] = m
      BY <2>2, <2>4, AppendProperties
    <3>. QED
      BY <2>1, <2>2, <3>1 DEF Queued
  <2>. QED
    BY <2>1, <2>3, <2>4 DEF Notify
<1>6. TypeOK'
  BY <1>3, <1>4, <1>5 DEF TypeOK, Objects, table, main
<1>7. TableInv(list, keyMap, idMap)' /\ Distinct(idMap)' /\ Known' /\ Phases'
  BY <1>3 DEF Known, Phases, table, main
<1>. QED
  BY <1>5, <1>6, <1>7
-----------------------------------------------------------------------------
(* Steps that insert an object. *)

\* An insertion of a process the table does not know keeps what the
\* invariant says of the table and leaves the other objects alone.
LEMMA Inserted ==
    ASSUME IInv, NEW up, NEW pid \in Ids, NEW ppid \in Ids, NEW ctime \in Nat,
           up = CUniqueProcess(pid, ppid, ctime),
           pid = SystemPid \/ (pid \in Pids /\ ctime > 0),
           \A n \in 1..Len(list) : list[n].pid # pid,
           NEW order \in IdMapOrders(ListWith(list, up)), NEW new,
           new = ListWith(list, up)
    PROVE  /\ TableInv(new, KeyMapWith(keyMap, up, Len(list) + 1), order)
           /\ new \in Seq(Process)
           /\ order \in Seq(Nat)
           /\ Distinct(order)
           /\ Len(list) \in Nat
           /\ Len(new) = Len(list) + 1
           /\ \A n \in 1..Len(list) : new[n] = list[n]
           /\ new[Len(list) + 1].pid = pid
           /\ new[Len(list) + 1].parent = NULL
           /\ \A n \in 1..Len(new) : new[n].parent \in 0..Len(new)
           /\ \A n \in 1..Len(new) :
                new[n].pid = SystemPid \/ (new[n].pid \in Pids /\ new[n].ctime > 0)
<1>. USE DEF IInv
<1>1. list \in Seq(Process) /\ Len(list) \in Nat
  BY DEF TypeOK
<1>2. up \in Process /\ up.pid = pid /\ up.ctime = ctime /\ up.parent = 0
  BY DEF CUniqueProcess, Process, NULL
<1>3. /\ new \in Seq(Process)
      /\ Len(new) = Len(list) + 1
      /\ \A n \in 1..Len(list) : new[n] = list[n]
      /\ new[Len(list) + 1] = up
      /\ order \in Seq(Nat)
      /\ \A i, j \in 1..Len(order) : order[i] = order[j] => i = j
  BY <1>1, <1>2, InsertWellFormed
<1>4. TableInv(new, KeyMapWith(keyMap, up, Len(list) + 1), order)
  BY InsertKeeps
<1>5. \A n \in 1..Len(list) : list[n].parent \in 0..Len(list)
  BY DEF TypeOK, Objects
<1>6. \A n \in 1..Len(new) : n \in 1..Len(list) \/ n = Len(list) + 1
  BY <1>1, <1>3
<1>7. \A n \in 1..Len(new) : new[n].parent \in 0..Len(new)
  BY <1>1, <1>2, <1>3, <1>5, <1>6
<1>8. \A n \in 1..Len(new) :
        new[n].pid = SystemPid \/ (new[n].pid \in Pids /\ new[n].ctime > 0)
  BY <1>2, <1>3, <1>6 DEF Known
<1>. QED
  BY <1>1, <1>2, <1>3, <1>4, <1>7, <1>8 DEF Distinct, NULL

\* The object of System, the first of the table, keeps it.
LEMMA EnumSystemModulesIInv == IInv /\ EnumSystemModules => IInv'
<1>. SUFFICES ASSUME IInv, EnumSystemModules PROVE IInv'
  OBVIOUS
<1>. USE DEF IInv
<1>1. /\ pc = "modules" /\ pc' = "snapshot" /\ Len(list) = 0 /\ cursor = 1
      /\ UNCHANGED <<toEnum, base, cursor, unread, capture, queue, sys>>
  BY DEF EnumSystemModules, Phases
<1>2. CASE UNCHANGED table
  <2>1. TypeOK'
    BY <1>1, <1>2 DEF TypeOK, Objects, table, sys
  <2>2. TableInv(list, keyMap, idMap)' /\ Distinct(idMap)' /\ Known' /\ Queued'
    BY <1>1, <1>2 DEF Known, Queued, table
  <2>3. Phases'
    BY <1>1, <1>2 DEF Phases, table
  <2>. QED
    BY <2>1, <2>2, <2>3
<1>3. ASSUME NEW t \in {0, 1}, InsertProcess(CUniqueProcess(SystemPid, 0, t)),
             psSystem' = Len(list) + 1
      PROVE  IInv'
  <2>. DEFINE up == CUniqueProcess(SystemPid, 0, t)
  <2>0. SystemPid \in Ids /\ t \in Nat /\ 0 \in Ids
    BY DEF Ids
  <2>1. /\ TableInv(list', KeyMapWith(keyMap, up, Len(list) + 1), idMap')
        /\ list' \in Seq(Process)
        /\ idMap' \in Seq(Nat)
        /\ Distinct(idMap')
        /\ Len(list) \in Nat
        /\ Len(list') = Len(list) + 1
        /\ list'[Len(list) + 1].pid = SystemPid
        /\ list'[Len(list) + 1].parent = NULL
        /\ \A n \in 1..Len(list') : list'[n].parent \in 0..Len(list')
        /\ \A n \in 1..Len(list') :
             list'[n].pid = SystemPid \/ (list'[n].pid \in Pids /\ list'[n].ctime > 0)
    <3>1. \A n \in 1..Len(list) : list[n].pid # SystemPid
      BY <1>1
    <3>2. idMap' \in IdMapOrders(ListWith(list, up)) /\ list' = ListWith(list, up)
      BY <1>3 DEF InsertProcess
    <3>. HIDE DEF IInv
    <3>3. up = CUniqueProcess(SystemPid, 0, t)
      OBVIOUS
    <3>. HIDE DEF up
    <3>. QED
      BY <2>0, <3>1, <3>2, <3>3, Inserted
  <2>2. keyMap' = KeyMapWith(keyMap, up, Len(list) + 1)
    BY <1>3 DEF InsertProcess
  <2>. HIDE DEF up
  <2>3. TypeOK'
    <3>1. psSystem' \in 0..Len(list')
      BY <1>1, <1>3, <2>1
    <3>. QED
      BY <1>1, <2>1, <3>1 DEF TypeOK, Objects, sys
  <2>4. \A n \in 1..Len(list') : n = 1
    BY <1>1, <2>1
  <2>5. Phases'
    BY <1>1, <2>1, <2>4 DEF Phases
  <2>6. Known' /\ Queued'
    BY <1>1, <2>1 DEF Known, Queued
  <2>. QED
    BY <2>1, <2>2, <2>3, <2>5, <2>6
<1>. QED
  BY <1>2, <1>3 DEF EnumSystemModules

\* The second driver call of the enumeration: the visited process enters the
\* table, in which it was not.
LEMMA GetProcessImagePathIInv == IInv /\ GetProcessImagePath => IInv'
<1>. SUFFICES ASSUME IInv, GetProcessImagePath PROVE IInv'
  OBVIOUS
<1>. USE DEF IInv
<1>1. /\ pc = "path" /\ pc' = "base" /\ cursor = 1
      /\ base.pid \in Pids \ toEnum /\ base.ctime > 0
      /\ \A n \in 1..Len(list) : list[n].pid # base.pid
      /\ base' = NoBase
      /\ unread' \subseteq Pids
      /\ UNCHANGED <<psSystem, toEnum, cursor, capture, queue, sys>>
  BY DEF GetProcessImagePath, Phases, TypeOK
<1>2. base.pid \in Ids /\ base.ppid \in Ids /\ base.ctime \in Nat /\ base' \in [pid : Ids, ppid : Ids, ctime : Nat]
  BY <1>1 DEF TypeOK, NoBase, Ids
<1>3. CASE UNCHANGED <<list, keyMap, idMap>>
  <2>1. TypeOK'
    BY <1>1, <1>2, <1>3 DEF TypeOK, Objects, sys
  <2>2. TableInv(list, keyMap, idMap)' /\ Distinct(idMap)' /\ Known' /\ Queued'
    BY <1>1, <1>3 DEF Known, Queued
  <2>3. Phases'
    BY <1>1, <1>3 DEF Phases
  <2>. QED
    BY <2>1, <2>2, <2>3
<1>4. CASE InsertProcess(CUniqueProcess(base.pid, base.ppid, base.ctime))
  <2>. DEFINE up == CUniqueProcess(base.pid, base.ppid, base.ctime)
  <2>1. /\ TableInv(list', KeyMapWith(keyMap, up, Len(list) + 1), idMap')
        /\ list' \in Seq(Process)
        /\ idMap' \in Seq(Nat)
        /\ Distinct(idMap')
        /\ Len(list) \in Nat
        /\ Len(list') = Len(list) + 1
        /\ \A n \in 1..Len(list) : list'[n] = list[n]
        /\ list'[Len(list) + 1].pid = base.pid
        /\ list'[Len(list) + 1].parent = NULL
        /\ \A n \in 1..Len(list') : list'[n].parent \in 0..Len(list')
        /\ \A n \in 1..Len(list') :
             list'[n].pid = SystemPid \/ (list'[n].pid \in Pids /\ list'[n].ctime > 0)
    <3>1. idMap' \in IdMapOrders(ListWith(list, up)) /\ list' = ListWith(list, up)
      BY <1>4 DEF InsertProcess
    <3>2. base.pid \in Pids
      BY <1>1
    <3>3. up = CUniqueProcess(base.pid, base.ppid, base.ctime)
      OBVIOUS
    <3>. HIDE DEF up, IInv
    <3>4. ASSUME NEW pid \in Ids, NEW ppid \in Ids, NEW ctime \in Nat, NEW order, NEW new,
                 pid = base.pid, ppid = base.ppid, ctime = base.ctime,
                 order = idMap', new = list'
          PROVE  /\ TableInv(new, KeyMapWith(keyMap, up, Len(list) + 1), order)
                 /\ new \in Seq(Process)
                 /\ order \in Seq(Nat)
                 /\ Distinct(order)
                 /\ Len(list) \in Nat
                 /\ Len(new) = Len(list) + 1
                 /\ \A n \in 1..Len(list) : new[n] = list[n]
                 /\ new[Len(list) + 1].pid = pid
                 /\ new[Len(list) + 1].parent = NULL
                 /\ \A n \in 1..Len(new) : new[n].parent \in 0..Len(new)
                 /\ \A n \in 1..Len(new) :
                      new[n].pid = SystemPid \/ (new[n].pid \in Pids /\ new[n].ctime > 0)
      <4>1. up = CUniqueProcess(pid, ppid, ctime)
        BY <3>3, <3>4
      <4>2. pid \in Pids /\ ctime > 0 /\ \A n \in 1..Len(list) : list[n].pid # pid
        BY <1>1, <3>4
      <4>3. order \in IdMapOrders(ListWith(list, up)) /\ new = ListWith(list, up)
        BY <3>1, <3>4
      <4>. QED
        BY <4>1, <4>2, <4>3, Inserted
    <3>. QED
      BY <1>2, <3>4
  <2>2. keyMap' = KeyMapWith(keyMap, up, Len(list) + 1)
    BY <1>4 DEF InsertProcess
  <2>. HIDE DEF up
  <2>3. \A n \in 1..Len(list') : n \in 1..Len(list) \/ n = Len(list) + 1
    BY <2>1
  <2>4. TypeOK'
    <3>1. psSystem' \in 0..Len(list')
      BY <1>1, <2>1 DEF TypeOK
    <3>. QED
      BY <1>1, <1>2, <2>1, <3>1 DEF TypeOK, Objects, sys
  <2>5. Phases'
    <3>1. \A n \in 1..Len(list') : list'[n].pid \notin toEnum'
      BY <1>1, <2>1, <2>3 DEF Phases
    <3>2. \A n \in 1..Len(list') : n >= cursor => list'[n].parent = NULL
      BY <1>1, <2>1, <2>3 DEF Phases
    <3>. QED
      BY <1>1, <3>1, <3>2 DEF Phases
  <2>6. Known' /\ Queued'
    BY <1>1, <2>1 DEF Known, Queued
  <2>. QED
    BY <2>1, <2>2, <2>4, <2>5, <2>6
<1>. QED
  BY <1>3, <1>4 DEF GetProcessImagePath

-----------------------------------------------------------------------------
(* The other steps of the main thread. *)

\* FillParent for the next object keeps the table's invariant: no object the
\* loop has not reached has a parent.
LEMMA FillNextParentIInv == IInv /\ FillNextParent => IInv'
<1>. SUFFICES ASSUME IInv, FillNextParent PROVE IInv'
  OBVIOUS
<1>. USE DEF IInv
<1>. DEFINE p == Find(list, idMap, list[cursor].ppid)
<1>1. /\ pc = "parents" /\ cursor <= Len(list) /\ cursor' = cursor + 1
      /\ list' = FillParent(list, idMap, cursor)
      /\ UNCHANGED <<keyMap, idMap, psSystem, pc, toEnum, base, unread, capture, queue, sys>>
  BY DEF FillNextParent
<1>2. Len(list) \in Nat /\ cursor \in Nat
  BY DEF TypeOK
<1>3. CASE cursor \in 1..Len(list)
  <2>1. list[cursor].parent = NULL
    BY <1>1, <1>2, <1>3 DEF Phases
  <2>2. TableInv(list', keyMap, idMap)
    BY <1>1, <1>3, <2>1, FillParentKeeps
  <2>3. WellFormed(list, idMap)
    BY DEF TableInv
  <2>4. p \in 0..Len(list)
    BY <2>3, FindRange
  <2>5. /\ list' \in Seq(Process)
        /\ Len(list') = Len(list)
        /\ \A m \in 1..Len(list) :
             /\ list'[m].pid = list[m].pid
             /\ list'[m].ctime = list[m].ctime
             /\ m = cursor => list'[m].parent \in {p, list[m].parent}
             /\ m # cursor => list'[m].parent = list[m].parent
    BY <1>1, <1>3, <2>3, FillParentEffect
  <2>. HIDE DEF p
  <2>6. \A m \in 1..Len(list) : list[m].parent \in 0..Len(list)
    BY DEF TypeOK, Objects
  <2>7. TypeOK'
    <3>1. \A m \in 1..Len(list') : list'[m].parent \in 0..Len(list')
      BY <2>4, <2>5, <2>6
    <3>2. psSystem' \in 0..Len(list')
      BY <1>1, <2>5 DEF TypeOK
    <3>. QED
      BY <1>1, <1>2, <2>5, <3>1, <3>2 DEF TypeOK, Objects, sys
  <2>8. Known' /\ Queued'
    BY <1>1, <2>5 DEF Known, Queued
  <2>9. Phases'
    <3>1. \A m \in 1..Len(list') : m >= cursor' => list'[m].parent = NULL
      BY <1>1, <1>2, <2>5 DEF Phases
    <3>2. pc' = "parents" /\ cursor' >= 1
      BY <1>1, <1>2, <1>3
    <3>. QED
      BY <3>1, <3>2 DEF Phases
  <2>. QED
    BY <1>1, <2>2, <2>7, <2>8, <2>9
<1>4. cursor >= 1
  BY DEF Phases
<1>. QED
  BY <1>1, <1>2, <1>3, <1>4

\* The steps that leave the table alone.
LEMMA MainIInv == IInv /\ Main => IInv'
<1>. SUFFICES ASSUME IInv, Main PROVE IInv'
  OBVIOUS
<1>. USE DEF IInv
<1>1. CASE UNCHANGED <<table, capture, queue, sys>> /\ (EnumProcesses \/ EnumProcessesDone \/ StartWorker)
  <2>1. TypeOK'
    BY <1>1 DEF TypeOK, Objects, table, sys, EnumProcesses, EnumProcessesDone, StartWorker, Live
  <2>2. TableInv(list, keyMap, idMap)' /\ Distinct(idMap)' /\ Known' /\ Queued'
    BY <1>1 DEF Known, Queued, table
  <2>3. Phases'
    <3>1. CASE EnumProcesses
      <4>1. pc = "snapshot" /\ pc' = "base" /\ toEnum' \subseteq Pids /\ UNCHANGED <<list, cursor>>
        BY <3>1 DEF EnumProcesses, Live, table
      <4>2. SystemPid \notin Pids
        BY PidsAssumption DEF SystemPid
      <4>. QED
        BY <4>1, <4>2 DEF Phases
    <3>2. CASE EnumProcessesDone
      BY <3>2 DEF EnumProcessesDone, Phases, table
    <3>3. CASE StartWorker
      BY <3>3 DEF StartWorker, Phases, table
    <3>. QED
      BY <1>1, <3>1, <3>2, <3>3
  <2>. QED
    BY <2>1, <2>2, <2>3
<1>2. CASE SetCaptureEnable
  <2>1. TypeOK'
    BY <1>2 DEF TypeOK, Objects, table, sys, SetCaptureEnable
  <2>2. TableInv(list, keyMap, idMap)' /\ Distinct(idMap)' /\ Known' /\ Queued' /\ Phases'
    BY <1>2 DEF Known, Queued, Phases, table, SetCaptureEnable
  <2>. QED
    BY <2>1, <2>2
<1>3. ASSUME NEW p \in Pids, GetProcessBaseInfo(p)
      PROVE  IInv'
  <2>1. os[p] \in [ctime : Nat, ppid : Parents] /\ p \in Ids /\ Parents \subseteq Ids
    BY DEF TypeOK, OsEntry, Parents, Ids
  <2>2. /\ base' = [pid |-> p, ppid |-> os[p].ppid, ctime |-> os[p].ctime] \/ base' = base
        /\ toEnum' = toEnum \ {p} /\ p \in toEnum
        /\ UNCHANGED <<table, cursor, unread, capture, queue, sys>>
        /\ pc = "base"
        /\ \/ p \in Live /\ pc' = "path" /\ base' = [pid |-> p, ppid |-> os[p].ppid, ctime |-> os[p].ctime]
           \/ pc' = "base"
    BY <1>3 DEF GetProcessBaseInfo
  <2>3. base' \in [pid : Ids, ppid : Ids, ctime : Nat]
    <3>1. os[p].ppid \in Ids /\ os[p].ctime \in Nat
      BY <2>1
    <3>2. base \in [pid : Ids, ppid : Ids, ctime : Nat]
      BY DEF TypeOK
    <3>3. [pid |-> p, ppid |-> os[p].ppid, ctime |-> os[p].ctime]
            \in [pid : Ids, ppid : Ids, ctime : Nat]
      BY <2>1, <3>1
    <3>. QED
      BY <2>2, <3>2, <3>3
  <2>4. TypeOK'
    BY <2>2, <2>3 DEF TypeOK, Objects, table, sys
  <2>5. TableInv(list, keyMap, idMap)' /\ Distinct(idMap)' /\ Known' /\ Queued'
    BY <2>2 DEF Known, Queued, table
  <2>6. Phases'
    BY <2>2 DEF Phases, table, Live
  <2>. QED
    BY <2>4, <2>5, <2>6
<1>4. EnumProcesses \/ EnumProcessesDone \/ StartWorker => UNCHANGED <<table, capture, queue, sys>>
  BY DEF EnumProcesses, EnumProcessesDone, StartWorker
<1>. HIDE DEF IInv
<1>. QED
  BY <1>1, <1>2, <1>3, <1>4, EnumSystemModulesIInv, GetProcessImagePathIInv, FillNextParentIInv DEF Main

-----------------------------------------------------------------------------
(* The worker. *)

\* Taking the oldest notification leaves a queue of notifications.
LEMMA Taken ==
    ASSUME IInv, queue # <<>>, queue' = Tail(queue)
    PROVE  /\ queue' \in Seq(Notice)
           /\ Queued'
           /\ Head(queue) \in Notice
           /\ Head(queue).ctime > 0
<1>1. queue \in Seq(Notice) /\ \A i \in 1..Len(queue) : queue[i].ctime > 0
  BY DEF IInv, TypeOK, Queued
<1>2. /\ Head(queue) = queue[1] /\ Head(queue) \in Notice
      /\ Tail(queue) \in Seq(Notice)
      /\ Len(Tail(queue)) = Len(queue) - 1
      /\ \A i \in 1..Len(Tail(queue)) : Tail(queue)[i] = queue[i + 1]
      /\ Len(queue) \in Nat \ {0}
  BY <1>1, HeadTailProperties
<1>3. \A i \in 1..Len(Tail(queue)) : Tail(queue)[i].ctime > 0
  BY <1>1, <1>2
<1>. QED
  BY <1>1, <1>2, <1>3 DEF Queued

\* A creation inserts an object only when the table has none for the id, and
\* links it at once.
LEMMA OnPsCreateIInv == IInv /\ OnPsCreate => IInv'
<1>. SUFFICES ASSUME IInv, OnPsCreate PROVE IInv'
  OBVIOUS
<1>1. /\ pc = "run" /\ pc' = "run" /\ queue # <<>> /\ queue' = Tail(queue)
      /\ UNCHANGED <<psSystem, main, unread, capture, sys>>
  BY DEF OnPsCreate, main
<1>2. queue' \in Seq(Notice) /\ Queued' /\ Head(queue) \in Notice /\ Head(queue).ctime > 0
  BY <1>1, Taken
<1>3. CASE UNCHANGED <<list, keyMap, idMap>>
  <2>. USE DEF IInv
  <2>1. TypeOK'
    BY <1>1, <1>2, <1>3 DEF TypeOK, Objects, main, sys
  <2>2. TableInv(list, keyMap, idMap)' /\ Distinct(idMap)' /\ Known' /\ Phases'
    BY <1>1, <1>3 DEF Known, Phases, main
  <2>. QED
    BY <1>2, <2>1, <2>2
<1>4. ASSUME NEW m \in Notice, m = Head(queue), NEW up,
             up = CUniqueProcess(m.pid, m.ppid, m.ctime),
             Find(list, idMap, m.pid) = NULL,
             NEW order \in IdMapOrders(ListWith(list, up)), idMap' = order,
             list' = FillParent(ListWith(list, up), order, Len(list) + 1),
             keyMap' = KeyMapWith(keyMap, up, Len(list) + 1)
      PROVE  IInv'
  <2>. DEFINE new == ListWith(list, up)
  <2>1. m.pid \in Pids /\ m.ppid \in Ids /\ m.ctime \in Nat /\ m.ctime > 0 /\ m.pid \in Ids
    <3>1. m.pid \in Pids /\ m.ppid \in Parents /\ m.ctime \in Nat
      BY <1>4 DEF Notice
    <3>2. m.ctime > 0
      BY <1>2, <1>4
    <3>3. Pids \subseteq Ids /\ Parents \subseteq Ids
      BY DEF Parents, Ids
    <3>. QED
      BY <3>1, <3>2, <3>3
  <2>2. WellFormed(list, idMap)
    BY DEF IInv, TableInv
  <2>3. \A n \in 1..Len(list) : list[n].pid # m.pid
    <3>1. SUFFICES ASSUME NEW n \in 1..Len(list), list[n].pid = m.pid PROVE FALSE
      OBVIOUS
    <3>2. list[n].ctime > 0
      BY <2>1, <3>1, PidsAssumption DEF IInv, Known, SystemPid
    <3>. QED
      BY <1>4, <2>2, <3>1, <3>2, FindsSomething
  <2>4. /\ TableInv(new, KeyMapWith(keyMap, up, Len(list) + 1), order)
        /\ new \in Seq(Process)
        /\ order \in Seq(Nat)
        /\ Distinct(order)
        /\ Len(list) \in Nat
        /\ Len(new) = Len(list) + 1
        /\ new[Len(list) + 1].parent = NULL
        /\ \A n \in 1..Len(new) : new[n].parent \in 0..Len(new)
        /\ \A n \in 1..Len(new) :
             new[n].pid = SystemPid \/ (new[n].pid \in Pids /\ new[n].ctime > 0)
    <3>1. ASSUME NEW pid \in Ids, NEW ppid \in Ids, NEW ctime \in Nat,
                 pid = m.pid, ppid = m.ppid, ctime = m.ctime, NEW l, l = new
          PROVE  /\ TableInv(l, KeyMapWith(keyMap, up, Len(list) + 1), order)
                 /\ l \in Seq(Process)
                 /\ order \in Seq(Nat)
                 /\ Distinct(order)
                 /\ Len(list) \in Nat
                 /\ Len(l) = Len(list) + 1
                 /\ l[Len(list) + 1].parent = NULL
                 /\ \A n \in 1..Len(l) : l[n].parent \in 0..Len(l)
                 /\ \A n \in 1..Len(l) :
                      l[n].pid = SystemPid \/ (l[n].pid \in Pids /\ l[n].ctime > 0)
      <4>1. up = CUniqueProcess(pid, ppid, ctime)
        BY <1>4, <3>1
      <4>2. pid \in Pids /\ ctime > 0 /\ \A n \in 1..Len(list) : list[n].pid # pid
        BY <2>1, <2>3, <3>1
      <4>3. l = ListWith(list, up)
        BY <3>1
      <4>. QED
        BY <1>4, <4>1, <4>2, <4>3, Inserted
    <3>. HIDE DEF new
    <3>. QED
      BY <2>1, <3>1
  <2>5. list' = FillParent(new, order, Len(list) + 1)
    BY <1>4
  <2>. HIDE DEF new
  <2>6. Len(list) + 1 \in 1..Len(new) /\ WellFormed(new, order)
    BY <2>4 DEF TableInv
  <2>7. TableInv(list', keyMap', idMap')
    BY <1>4, <2>4, <2>5, <2>6, FillParentKeeps
  <2>8. Find(new, order, new[Len(list) + 1].ppid) \in 0..Len(new)
    BY <2>6, FindRange
  <2>9. /\ list' \in Seq(Process)
        /\ Len(list') = Len(new)
        /\ \A n \in 1..Len(new) :
             /\ list'[n].pid = new[n].pid
             /\ list'[n].ctime = new[n].ctime
             /\ list'[n].parent \in {Find(new, order, new[Len(list) + 1].ppid), new[n].parent}
    BY <2>5, <2>6, FillParentEffect
  <2>10. \A n \in 1..Len(list') : list'[n].parent \in 0..Len(list')
    BY <2>4, <2>8, <2>9
  <2>11. psSystem' \in 0..Len(list')
    <3>1. psSystem \in 0..Len(list)
      BY DEF IInv, TypeOK
    <3>. QED
      BY <1>1, <2>4, <2>9, <3>1
  <2>12. TypeOK'
    <3>. USE DEF IInv
    <3>. QED
      BY <1>1, <1>2, <1>4, <2>4, <2>9, <2>10, <2>11 DEF TypeOK, Objects, main, sys
  <2>13. Known'
    BY <2>4, <2>9 DEF Known
  <2>14. Phases'
    BY <1>1 DEF IInv, Phases, main
  <2>. QED
    BY <1>2, <1>4, <2>4, <2>7, <2>12, <2>13, <2>14 DEF IInv
<1>. QED
  BY <1>2, <1>3, <1>4 DEF OnPsCreate

\* An exit marks one object dead, or none.
LEMMA OnPsDestroyIInv == IInv /\ OnPsDestroy => IInv'
<1>. SUFFICES ASSUME IInv, OnPsDestroy PROVE IInv'
  OBVIOUS
<1>1. /\ pc = "run" /\ pc' = "run" /\ queue # <<>> /\ queue' = Tail(queue)
      /\ list' = Kill(list, Find(list, idMap, Head(queue).pid))
      /\ UNCHANGED <<keyMap, idMap, psSystem, main, unread, capture, sys>>
  BY DEF OnPsDestroy, main
<1>2. queue' \in Seq(Notice) /\ Queued'
  BY <1>1, Taken
<1>3. Find(list, idMap, Head(queue).pid) \in 0..Len(list)
  BY FindRange DEF IInv, TableInv
<1>4. TableInv(list', keyMap, idMap)
  BY <1>1, <1>3, KillKeeps DEF IInv
<1>5. list \in Seq(Process)
  BY DEF IInv, TypeOK
<1>6. /\ list' \in Seq(Process)
      /\ Len(list') = Len(list)
      /\ \A n \in 1..Len(list) : /\ list'[n].pid = list[n].pid
                                 /\ list'[n].ctime = list[n].ctime
                                 /\ list'[n].parent = list[n].parent
  BY <1>1, <1>3, <1>5, KillEffect
<1>. USE DEF IInv
<1>7. TypeOK'
  BY <1>1, <1>2, <1>6 DEF TypeOK, Objects, main, sys
<1>8. Known' /\ Phases'
  BY <1>1, <1>6 DEF Known, Phases, main
<1>. QED
  BY <1>1, <1>2, <1>4, <1>7, <1>8

-----------------------------------------------------------------------------
(* The theorems. *)

\* The table's invariant holds in every behaviour: the main thread's
\* enumeration, the worker's notifications and the system interleave freely.
THEOREM Invariance == Spec => []IInv
<1>1. IInv /\ [Next]_vars => IInv'
  <2>1. IInv /\ UNCHANGED vars => IInv'
    BY DEF IInv, TypeOK, Objects, Known, Queued, Phases, Distinct, vars, table, main, sys
  <2>. QED
    BY <2>1, MainIInv, OnPsCreateIInv, OnPsDestroyIInv, SystemIInv DEF Next, Worker
<1>. QED
  BY <1>1, InitIInv, PTL DEF Spec

\* Object references (parent, m_PsSystemProcess) never leave the list, and
\* the other variables keep their types.
THEOREM TypeCorrect == Spec => []TypeOK
<1>1. IInv => TypeOK
  BY DEF IInv
<1>. QED
  BY <1>1, Invariance, PTL

\* m_IdMap lists every object of m_List exactly once, and m_KeyMap leads from
\* the key of every object to that object (InsertProcess).
THEOREM ContainersCorrect == Spec => []ContainersAgree
<1>1. IInv => IdMapIsList
  BY DEF IInv, IdMapIsList, Objects, TableInv, WellFormed, Distinct
<1>2. IInv => KeyMapIsList
  BY DEF IInv, KeyMapIsList, Objects, TableInv, KeysMatch
<1>3. IInv => ContainersAgree
  BY <1>1, <1>2 DEF ContainersAgree
<1>. QED
  BY <1>3, Invariance, PTL

\* Find returns the living object of an id although it walks past the id's
\* own entries.
THEOREM FindCorrect == Spec => []FindsTheLiving
<1>1. IInv => FindsTheLiving
  BY FindsLiving DEF IInv, FindsTheLiving, Objects, TableInv
<1>. QED
  BY <1>1, Invariance, PTL

\* FillParent, called by the enumeration's loop and by the worker, keeps
\* parent pointers and child lists the mirror of each other.
THEOREM LinksCorrect == Spec => []LinksMirror
<1>1. IInv => LinksMirror
  BY DEF IInv, LinksMirror, Objects, TableInv, LinksMatch
<1>. QED
  BY <1>1, Invariance, PTL

-----------------------------------------------------------------------------
(* What the table, the queue and the system say of one another while no    *)
(* process id is reused.                                                   *)

\* The birth of a process: what an object, a notification, the system and the
\* visited process each remember of it.
Birth(x) == [pid |-> x.pid, ppid |-> x.ppid, ctime |-> x.ctime]

Births ==
    {Birth(list[n]) : n \in {k \in 1..Len(list) : list[k].pid # SystemPid}}
    \cup {Birth(queue[i]) : i \in 1..Len(queue)}
    \cup {[pid |-> p, ppid |-> os[p].ppid, ctime |-> os[p].ctime] : p \in Live}
    \cup {b \in {Birth(base)} : pc = "path"}

\* All of them agree on each process, and a parent is older than its child.
Genealogy ==
    /\ \A b \in Births : b.ctime \in 1..clock /\ b.pid \in used /\ b.ppid \in used \cup {SystemPid}
    /\ \A b, c \in Births : b.pid = c.pid => b = c
    /\ \A b, c \in Births : b.ppid = c.pid => c.ctime < b.ctime

\* Capture is decided before anything can be queued.
Captured ==
    /\ pc = "capture" => ~capture
    /\ ~capture => Len(queue) = 0

ExitQueued(p, i) == \E j \in 1..Len(queue) : j > i /\ queue[j].pid = p /\ ~queue[j].create

\* A process is created once and ends once, in this order; it and its parent
\* end after its creation, if they do.
OneLife ==
    /\ \A i, j \in 1..Len(queue) : i < j /\ queue[i].pid = queue[j].pid
                                     => queue[i].create /\ ~queue[j].create
    /\ \A i \in 1..Len(queue) : ~queue[i].create => queue[i].pid \notin Live
    /\ \A i \in 1..Len(queue) : queue[i].create =>
         \A p \in {queue[i].pid, queue[i].ppid} \ {SystemPid} : p \in Live \/ ExitQueued(p, i)

\* Nothing more is to come of a process whose object is dead.
Deaths ==
    \A n \in 1..Len(list) : ~list[n].alive =>
        /\ pc = "run"
        /\ list[n].pid \in Pids \ Live
        /\ \A i \in 1..Len(queue) : queue[i].pid # list[n].pid

\* A link leads to an object of the parent's id; the System process has none.
Links ==
    \A n \in 1..Len(list) : /\ list[n].parent # NULL => list[list[n].parent].pid = list[n].ppid
                            /\ list[n].pid = SystemPid => list[n].ppid = 0

\* The process p is in the table, or will be.
Expected(p) ==
    \/ \E n \in 1..Len(list) : list[n].pid = p /\ list[n].alive
    \/ \E i \in 1..Len(queue) : queue[i].pid = p /\ queue[i].create
    \/ pc \in {"modules", "snapshot"}
    \/ pc \in {"base", "path"} /\ p \in toEnum
    \/ pc = "path" /\ p = base.pid

\* A living object is a running process or one whose exit is still queued,
\* and a running process is in the table, or will be.
Tracked ==
    capture =>
      /\ \A n \in 1..Len(list) : list[n].alive /\ list[n].pid # SystemPid
           => list[n].pid \in Live \/ ExitQueued(list[n].pid, 0)
      /\ \A p \in Live \ unread : Expected(p)

History == Genealogy /\ OneLife /\ Deaths /\ Links /\ Tracked

HInv == IInv /\ Captured /\ (~reused => History)

-----------------------------------------------------------------------------
(* What each step does to the objects of the table.                        *)

\* An object keeps what it remembers of its process' birth.
SameBirths(new) ==
    \A n \in 1..Len(list) : /\ new[n].pid = list[n].pid
                            /\ new[n].ppid = list[n].ppid
                            /\ new[n].ctime = list[n].ctime

\* The System process enters an empty table, or nothing does.
LEMMA EnumSystemModulesEffect ==
    ASSUME IInv, EnumSystemModules
    PROVE  /\ pc = "modules" /\ pc' = "snapshot"
           /\ UNCHANGED <<toEnum, base, cursor, unread, capture, queue, sys>>
           /\ Len(list) = 0
           /\ \/ list' = list
              \/ /\ Len(list') = 1
                 /\ list'[1].pid = SystemPid
                 /\ list'[1].ppid = 0
                 /\ list'[1].parent = NULL
                 /\ list'[1].alive
<1>1. Len(list) = 0 /\ list = <<>>
  BY EmptySeq DEF EnumSystemModules, IInv, Phases, TypeOK
<1>2. ASSUME NEW t \in {0, 1}, list' = ListWith(list, CUniqueProcess(SystemPid, 0, t))
      PROVE  /\ Len(list') = 1
             /\ list'[1].pid = SystemPid
             /\ list'[1].ppid = 0
             /\ list'[1].parent = NULL
             /\ list'[1].alive
  <2>1. list' = <<CUniqueProcess(SystemPid, 0, t)>>
    BY <1>1, <1>2 DEF ListWith
  <2>. QED
    BY <2>1 DEF CUniqueProcess
<1>. QED
  BY <1>1, <1>2 DEF EnumSystemModules, InsertProcess, table

\* The visited process enters the table, or nothing does.
LEMMA GetProcessImagePathEffect ==
    ASSUME IInv, GetProcessImagePath
    PROVE  /\ pc = "path" /\ pc' = "base"
           /\ UNCHANGED <<toEnum, cursor, capture, queue, sys>>
           /\ unread \subseteq unread'
           /\ Len(list) \in Nat
           /\ \/ /\ list' = list
                 /\ base.pid \in Live => base.pid \in unread'
              \/ /\ base.pid \in Live
                 /\ Len(list') = Len(list) + 1
                 /\ \A n \in 1..Len(list) : list'[n] = list[n]
                 /\ list'[Len(list) + 1] = CUniqueProcess(base.pid, base.ppid, base.ctime)
<1>1. list \in Seq(Process) /\ Len(list) \in Nat
  BY DEF IInv, TypeOK
<1>2. base \in [pid : Ids, ppid : Ids, ctime : Nat]
  BY DEF IInv, TypeOK
<1>3. CUniqueProcess(base.pid, base.ppid, base.ctime) \in Process
  BY <1>2, NewObject
<1>4. CASE base.pid \in Live \ Unqueryable
  <2>1. list' = Append(list, CUniqueProcess(base.pid, base.ppid, base.ctime))
    BY <1>4 DEF GetProcessImagePath, InsertProcess, ListWith
  <2>2. /\ Len(list') = Len(list) + 1
        /\ \A n \in 1..Len(list) : list'[n] = list[n]
        /\ list'[Len(list) + 1] = CUniqueProcess(base.pid, base.ppid, base.ctime)
    BY <1>1, <1>3, <2>1, AppendProperties
  <2>. QED
    BY <1>1, <1>4, <2>2 DEF GetProcessImagePath
<1>5. CASE ~ (base.pid \in Live \ Unqueryable)
  BY <1>1, <1>5 DEF GetProcessImagePath
<1>. QED
  BY <1>4, <1>5

\* FillList's loop links one object, to what Find returns for its parent.
LEMMA FillNextParentEffect ==
    ASSUME IInv, FillNextParent
    PROVE  /\ pc = "parents" /\ pc' = "parents"
           /\ UNCHANGED <<toEnum, base, unread, capture, queue, sys>>
           /\ cursor \in 1..Len(list)
           /\ Len(list') = Len(list)
           /\ SameBirths(list')
           /\ \A n \in 1..Len(list) :
                /\ list'[n].alive = list[n].alive
                /\ list'[n].parent = IF n = cursor /\ Find(list, idMap, list[cursor].ppid) # NULL
                                       THEN Find(list, idMap, list[cursor].ppid)
                                       ELSE list[n].parent
<1>1. cursor \in 1..Len(list) /\ WellFormed(list, idMap)
  BY DEF FillNextParent, IInv, TypeOK, Phases, TableInv
<1>2. list' = FillParent(list, idMap, cursor)
  BY DEF FillNextParent
<1>. QED
  BY <1>1, <1>2, FillParentEffect DEF FillNextParent, SameBirths

\* A creation enters the table linked, or its process is in it.
LEMMA OnPsCreateEffect ==
    ASSUME IInv, OnPsCreate, NEW m, m = Head(queue)
    PROVE  /\ pc = "run" /\ queue # <<>> /\ m.create
           /\ queue' = Tail(queue)
           /\ UNCHANGED <<main, unread, capture, sys>>
           /\ Len(list) \in Nat
           /\ \/ list' = list /\ \E n \in 1..Len(list) : list[n].pid = m.pid
              \/ /\ Len(list') = Len(list) + 1
                 /\ SameBirths(list')
                 /\ \A n \in 1..Len(list) : /\ list'[n].alive = list[n].alive
                                            /\ list'[n].parent = list[n].parent
                                            /\ list[n].pid # m.pid
                 /\ list'[Len(list) + 1].pid = m.pid
                 /\ list'[Len(list) + 1].ppid = m.ppid
                 /\ list'[Len(list) + 1].ctime = m.ctime
                 /\ list'[Len(list) + 1].alive
                 /\ /\ \A n \in 1..Len(list') : list'[n].pid = m.ppid => list'[n].alive
                    /\ list'[Len(list) + 1].parent # NULL
                    => list'[list'[Len(list) + 1].parent].pid = m.ppid
<1>1. /\ pc = "run" /\ queue # <<>> /\ m.create /\ queue' = Tail(queue)
      /\ UNCHANGED <<main, unread, capture, sys>>
  BY DEF OnPsCreate
<1>2. list \in Seq(Process) /\ Len(list) \in Nat /\ WellFormed(list, idMap)
  BY DEF IInv, TypeOK, TableInv
<1>3. m \in Notice /\ m.ctime > 0
  BY <1>1, Taken
<1>. DEFINE up == CUniqueProcess(m.pid, m.ppid, m.ctime)
            new == ListWith(list, up)
<1>4. up \in Process /\ m.pid \in Pids
  <2>1. m.pid \in Pids /\ m.ppid \in Parents /\ m.ctime \in Nat
    BY <1>3 DEF Notice
  <2>2. Pids \subseteq Ids /\ Parents \subseteq Ids
    BY DEF Parents, Ids
  <2>3. m.pid \in Ids /\ m.ppid \in Ids /\ m.ctime \in Nat
    BY <2>1, <2>2
  <2>. QED
    BY <2>1, <2>3, NewObject
<1>5. CASE Find(list, idMap, m.pid) # NULL
  <2>1. list' = list
    BY <1>5 DEF OnPsCreate
  <2>2. \E n \in 1..Len(list) : list[n].pid = m.pid
    BY <1>2, <1>5, FindsNothing
  <2>. QED
    BY <1>1, <1>2, <2>1, <2>2
<1>6. ASSUME Find(list, idMap, m.pid) = NULL,
             NEW order \in IdMapOrders(new), list' = FillParent(new, order, Len(list) + 1)
      PROVE  /\ Len(list') = Len(list) + 1
             /\ SameBirths(list')
             /\ \A n \in 1..Len(list) : /\ list'[n].alive = list[n].alive
                                        /\ list'[n].parent = list[n].parent
                                        /\ list[n].pid # m.pid
             /\ list'[Len(list) + 1].pid = m.pid
             /\ list'[Len(list) + 1].ppid = m.ppid
             /\ list'[Len(list) + 1].ctime = m.ctime
             /\ list'[Len(list) + 1].alive
             /\ /\ \A n \in 1..Len(list') : list'[n].pid = m.ppid => list'[n].alive
                /\ list'[Len(list) + 1].parent # NULL
                => list'[list'[Len(list) + 1].parent].pid = m.ppid
  <2>1. \A n \in 1..Len(list) : list[n].pid # m.pid
    <3>1. SUFFICES ASSUME NEW n \in 1..Len(list), list[n].pid = m.pid PROVE FALSE
      OBVIOUS
    <3>2. list[n].ctime > 0
      BY <1>4, <3>1, PidsAssumption DEF IInv, Known, SystemPid
    <3>. QED
      BY <1>2, <1>6, <3>1, <3>2, FindsSomething
  <2>2. /\ up.pid = m.pid /\ up.ppid = m.ppid /\ up.ctime = m.ctime
        /\ up.alive /\ up.parent = NULL
    BY DEF CUniqueProcess
  <2>. HIDE DEF up
  <2>3. /\ new \in Seq(Process)
        /\ Len(new) = Len(list) + 1
        /\ \A n \in 1..Len(list) : new[n] = list[n]
        /\ new[Len(list) + 1] = up
        /\ WellFormed(new, order)
    BY <1>2, <1>4, <1>6, InsertWellFormed
  <2>. DEFINE k == Len(list) + 1
              p == Find(new, order, m.ppid)
  <2>4. k \in 1..Len(new) /\ \A n \in 1..Len(list) : n \in 1..Len(new) /\ n # k
    BY <1>2, <2>3
  <2>. HIDE DEF new
  <2>5. /\ Len(list') = Len(new)
        /\ \A n \in 1..Len(new) : /\ list'[n].pid = new[n].pid
                                  /\ list'[n].ppid = new[n].ppid
                                  /\ list'[n].ctime = new[n].ctime
                                  /\ list'[n].alive = new[n].alive
                                  /\ list'[n].parent = IF n = k /\ Find(new, order, new[k].ppid) # NULL
                                                         THEN Find(new, order, new[k].ppid)
                                                         ELSE new[n].parent
    BY <1>6, <2>3, <2>4, FillParentEffect
  <2>6. new[k].ppid = m.ppid
    BY <2>2, <2>3
  <2>7. list'[k].parent = p
    BY <2>2, <2>3, <2>4, <2>5, <2>6 DEF NULL
  <2>8. OnePerPid(new)
    <3>1. OnePerPid(list)
      BY DEF IInv, TableInv
    <3>2. \A n \in 1..Len(new) : n \in 1..Len(list) \/ n = k
      BY <1>2, <2>3
    <3>. QED
      BY <2>1, <2>2, <2>3, <3>1, <3>2 DEF OnePerPid
  <2>9. ASSUME \A n \in 1..Len(list') : list'[n].pid = m.ppid => list'[n].alive,
               list'[k].parent # NULL
        PROVE  list'[list'[k].parent].pid = m.ppid
    <3>1. \A n \in 1..Len(new) : new[n].pid = m.ppid => new[n].alive
      BY <2>5, <2>9
    <3>2. p \in 1..Len(new) /\ new[p].pid = m.ppid
      BY <2>3, <2>7, <2>8, <2>9, <3>1, FindsOwn
    <3>. QED
      BY <2>5, <2>7, <3>2
  <2>10. SameBirths(list')
    BY <2>3, <2>4, <2>5 DEF SameBirths
  <2>11. \A n \in 1..Len(list) : list'[n].alive = list[n].alive /\ list'[n].parent = list[n].parent
    BY <2>3, <2>4, <2>5
  <2>. QED
    BY <2>1, <2>2, <2>3, <2>4, <2>5, <2>9, <2>10, <2>11
<1>7. CASE Find(list, idMap, m.pid) = NULL
  <2>1. PICK order \in IdMapOrders(new) : list' = FillParent(new, order, Len(list) + 1)
    BY <1>7 DEF OnPsCreate
  <2>. HIDE DEF new
  <2>. QED
    BY <1>1, <1>2, <1>6, <1>7, <2>1
<1>. QED
  BY <1>5, <1>7

\* An exit marks the object of its id dead, when it is the living one.
LEMMA OnPsDestroyEffect ==
    ASSUME IInv, OnPsDestroy, NEW m, m = Head(queue),
           \A n \in 1..Len(list) : list[n].pid = m.pid => list[n].alive
    PROVE  /\ pc = "run" /\ queue # <<>> /\ ~m.create
           /\ queue' = Tail(queue)
           /\ UNCHANGED <<main, unread, capture, sys>>
           /\ Len(list') = Len(list)
           /\ SameBirths(list')
           /\ \A n \in 1..Len(list) : /\ list'[n].parent = list[n].parent
                                      /\ list[n].pid # m.pid => list'[n].alive = list[n].alive
                                      /\ list[n].pid = m.pid => ~list'[n].alive
<1>1. /\ pc = "run" /\ queue # <<>> /\ ~m.create /\ queue' = Tail(queue)
      /\ UNCHANGED <<main, unread, capture, sys>>
      /\ list' = Kill(list, Find(list, idMap, m.pid))
  BY DEF OnPsDestroy
<1>2. list \in Seq(Process) /\ WellFormed(list, idMap) /\ OnePerPid(list)
  BY DEF IInv, TypeOK, TableInv
<1>. DEFINE p == Find(list, idMap, m.pid)
<1>3. p \in 0..Len(list)
  BY <1>2, FindRange
<1>4. \A n \in 1..Len(list) : list[n].pid = m.pid <=> n = p
  <2>1. ASSUME NEW n \in 1..Len(list), list[n].pid = m.pid PROVE n = p
    BY <1>2, <2>1, FindsLiving
  <2>2. ASSUME NEW n \in 1..Len(list), n = p PROVE list[n].pid = m.pid
    <3>1. p # NULL
      BY <1>2, <2>2 DEF NULL
    <3>. QED
      BY <1>2, <2>2, <3>1, FindsOwn
  <2>. QED
    BY <2>1, <2>2
<1>. HIDE DEF p
<1>5. list' = Kill(list, p)
  BY <1>1 DEF p
<1>6. /\ Len(list') = Len(list)
      /\ \A n \in 1..Len(list) : /\ list'[n].pid = list[n].pid
                                 /\ list'[n].ppid = list[n].ppid
                                 /\ list'[n].ctime = list[n].ctime
                                 /\ list'[n].parent = list[n].parent
                                 /\ n # p => list'[n].alive = list[n].alive
                                 /\ n = p => ~list'[n].alive
  BY <1>2, <1>3, <1>5, KillEffect
<1>. QED
  BY <1>1, <1>4, <1>6 DEF SameBirths

-----------------------------------------------------------------------------
(* The queue.                                                              *)

\* The worker takes the oldest notification.
LEMMA QueueTaken ==
    ASSUME IInv, queue # <<>>, queue' = Tail(queue)
    PROVE  /\ Len(queue) \in Nat
           /\ 1 \in 1..Len(queue)
           /\ Head(queue) = queue[1]
           /\ Len(queue') = Len(queue) - 1
           /\ \A i \in 1..Len(queue') : i + 1 \in 1..Len(queue) /\ queue'[i] = queue[i + 1]
           /\ \A i \in 1..Len(queue) : i = 1 \/ (i - 1 \in 1..Len(queue') /\ queue'[i - 1] = queue[i])
<1>1. queue \in Seq(Notice)
  BY DEF IInv, TypeOK
<1>2. /\ Len(Tail(queue)) = Len(queue) - 1
      /\ \A i \in 1..Len(Tail(queue)) : Tail(queue)[i] = queue[i + 1]
  BY <1>1, HeadTailProperties
<1>3. Len(queue) \in Nat /\ Len(queue) # 0 /\ Head(queue) = queue[1]
  BY <1>1
<1>. QED
  BY <1>2, <1>3

\* The driver queues a notification behind the others, or drops it.
LEMMA QueueSent ==
    ASSUME IInv, NEW m \in Notice, Notify(m)
    PROVE  /\ Len(queue) \in Nat
           /\ \/ ~capture /\ queue' = queue
              \/ /\ capture
                 /\ Len(queue') = Len(queue) + 1
                 /\ \A i \in 1..Len(queue) : queue'[i] = queue[i]
                 /\ queue'[Len(queue) + 1] = m
<1>1. queue \in Seq(Notice)
  BY DEF IInv, TypeOK
<1>2. CASE capture
  BY <1>1, <1>2, AppendProperties DEF Notify
<1>3. CASE ~capture
  BY <1>1, <1>3 DEF Notify
<1>. QED
  BY <1>2, <1>3

\* The notification of a creation, and of an exit.
LEMMA OsCreateEffect ==
    ASSUME IInv, NEW p \in Pids, NEW parent \in Parents, OsCreate(p, parent),
           NEW m, m = [create |-> TRUE, pid |-> p, ppid |-> parent, ctime |-> clock + 1]
    PROVE  /\ m \in Notice /\ Notify(m)
           /\ UNCHANGED <<table, main, unread, capture>>
           /\ p \notin Live /\ parent \in Live \cup {SystemPid}
           /\ Live' = Live \cup {p}
           /\ \A q \in Live : q # p /\ os'[q] = os[q]
           /\ os'[p].ppid = parent /\ os'[p].ctime = clock + 1
           /\ clock \in Nat /\ clock' = clock + 1
           /\ used' = used \cup {p}
           /\ ~reused' => ~reused /\ p \notin used
<1>1. clock \in Nat /\ os \in [Pids -> OsEntry]
  BY DEF IInv, TypeOK
<1>2. os' = [os EXCEPT ![p] = [ctime |-> clock + 1, ppid |-> parent]]
  BY DEF OsCreate
<1>3. /\ os'[p].ppid = parent /\ os'[p].ctime = clock + 1
      /\ \A q \in Pids \ {p} : os'[q] = os[q]
  BY <1>1, <1>2
<1>4. Live' = Live \cup {p}
  BY <1>1, <1>3 DEF Live
<1>5. Live \subseteq Pids /\ p \notin Live
  BY DEF OsCreate, Live
<1>6. ~reused' => ~reused /\ p \notin used
  BY DEF OsCreate
<1>7. m \in Notice
  BY <1>1 DEF Notice
<1>8. \A q \in Live : q # p /\ os'[q] = os[q]
  BY <1>3, <1>5
<1>9. /\ Notify(m) /\ UNCHANGED <<table, main, unread, capture>>
      /\ parent \in Live \cup {SystemPid} /\ clock' = clock + 1 /\ used' = used \cup {p}
  BY DEF OsCreate
<1>. QED
  BY <1>1, <1>3, <1>4, <1>5, <1>6, <1>7, <1>8, <1>9

LEMMA OsExitEffect ==
    ASSUME IInv, NEW p \in Pids, OsExit(p),
           NEW m, m = [create |-> FALSE, pid |-> p, ppid |-> os[p].ppid, ctime |-> os[p].ctime]
    PROVE  /\ m \in Notice /\ Notify(m)
           /\ UNCHANGED <<table, main, unread, capture, clock, used, reused>>
           /\ p \in Live
           /\ Live' = Live \ {p}
           /\ \A q \in Live' : os'[q] = os[q]
<1>1. os \in [Pids -> OsEntry]
  BY DEF IInv, TypeOK
<1>2. os' = [os EXCEPT ![p] = [ctime |-> 0, ppid |-> SystemPid]]
  BY DEF OsExit
<1>3. os'[p].ctime = 0 /\ \A q \in Pids \ {p} : os'[q] = os[q]
  BY <1>1, <1>2
<1>4. Live' = Live \ {p}
  BY <1>1, <1>3 DEF Live
<1>5. \A q \in Live' : os'[q] = os[q]
  BY <1>3, <1>4 DEF Live
<1>6. m \in Notice
  BY <1>1 DEF Notice, OsEntry
<1>. QED
  BY <1>4, <1>5, <1>6 DEF OsExit

-----------------------------------------------------------------------------
(* Births.                                                                 *)

LEMMA KnownBirths ==
    /\ \A n \in 1..Len(list) : list[n].pid # SystemPid => Birth(list[n]) \in Births
    /\ \A i \in 1..Len(queue) : Birth(queue[i]) \in Births
    /\ \A p \in Live : [pid |-> p, ppid |-> os[p].ppid, ctime |-> os[p].ctime] \in Births
    /\ pc = "path" => Birth(base) \in Births
  BY DEF Births

LEMMA NextBirths ==
    ASSUME NEW b \in Births'
    PROVE  \/ \E n \in 1..Len(list') : list'[n].pid # SystemPid /\ b = Birth(list'[n])
           \/ \E i \in 1..Len(queue') : b = Birth(queue'[i])
           \/ \E p \in Live' : b = [pid |-> p, ppid |-> os'[p].ppid, ctime |-> os'[p].ctime]
           \/ pc' = "path" /\ b = Birth(base')
  BY DEF Births, Birth

\* Two objects with the same fields remember the same birth.
LEMMA SameBirth ==
    ASSUME NEW x, NEW y, x.pid = y.pid, x.ppid = y.ppid, x.ctime = y.ctime
    PROVE  Birth(x) = Birth(y)
  BY DEF Birth

\* What is true of births stays true while nothing is born.
LEMMA GenealogyKept ==
    ASSUME Genealogy, Births' \subseteq Births, UNCHANGED <<clock, used>>
    PROVE  Genealogy'
  BY DEF Genealogy

\* An exit adds nothing to what is known of its process.
LEMMA OsExitBirths == ASSUME IInv, NEW p \in Pids, OsExit(p) PROVE Births' \subseteq Births
<1>. DEFINE m == [create |-> FALSE, pid |-> p, ppid |-> os[p].ppid, ctime |-> os[p].ctime]
<1>1. /\ m \in Notice /\ Notify(m) /\ p \in Live
      /\ UNCHANGED <<table, main, unread, capture, clock, used, reused>>
      /\ Live' = Live \ {p} /\ \A q \in Live' : os'[q] = os[q]
  BY OsExitEffect
<1>2. Birth(m) = [pid |-> p, ppid |-> os[p].ppid, ctime |-> os[p].ctime]
  BY DEF Birth
<1>. HIDE DEF m
<1>3. Birth(m) \in Births
  BY <1>1, <1>2, KnownBirths
<1>4. SUFFICES ASSUME NEW b \in Births' PROVE b \in Births
  OBVIOUS
<1>5. CASE \E n \in 1..Len(list') : list'[n].pid # SystemPid /\ b = Birth(list'[n])
  BY <1>1, <1>5, KnownBirths DEF table
<1>6. ASSUME NEW i \in 1..Len(queue'), b = Birth(queue'[i]) PROVE b \in Births
  <2>1. (i \in 1..Len(queue) /\ queue'[i] = queue[i]) \/ queue'[i] = m
    BY <1>1, <1>6, QueueSent
  <2>. QED
    BY <1>3, <1>6, <2>1, KnownBirths
<1>7. ASSUME NEW q \in Live', b = [pid |-> q, ppid |-> os'[q].ppid, ctime |-> os'[q].ctime]
      PROVE  b \in Births
  BY <1>1, <1>7, KnownBirths
<1>8. CASE pc' = "path" /\ b = Birth(base')
  BY <1>1, <1>8, KnownBirths DEF main
<1>. QED
  BY <1>5, <1>6, <1>7, <1>8, NextBirths

\* The main thread hands what it knows from the system to the table.
LEMMA MainBirths == ASSUME IInv, Main PROVE Births' \subseteq Births
<1>1. SUFFICES ASSUME NEW b \in Births' PROVE b \in Births
  OBVIOUS
<1>2. UNCHANGED <<queue, sys>>
  BY DEF Main, SetCaptureEnable, EnumSystemModules, EnumProcesses, GetProcessBaseInfo,
         GetProcessImagePath, EnumProcessesDone, FillNextParent, StartWorker
<1>3. CASE \E i \in 1..Len(queue') : b = Birth(queue'[i])
  BY <1>2, <1>3, KnownBirths
<1>4. CASE \E p \in Live' : b = [pid |-> p, ppid |-> os'[p].ppid, ctime |-> os'[p].ctime]
  BY <1>2, <1>4, KnownBirths DEF Live, sys
<1>5. CASE pc' = "path" /\ b = Birth(base')
  <2>1. PICK p \in Pids : GetProcessBaseInfo(p)
    BY <1>5 DEF Main, SetCaptureEnable, EnumSystemModules, EnumProcesses,
                GetProcessImagePath, EnumProcessesDone, FillNextParent, StartWorker
  <2>2. p \in Live /\ base' = [pid |-> p, ppid |-> os[p].ppid, ctime |-> os[p].ctime]
    BY <1>5, <2>1 DEF GetProcessBaseInfo
  <2>. QED
    BY <1>5, <2>2, KnownBirths DEF Birth
<1>6. ASSUME NEW n \in 1..Len(list'), list'[n].pid # SystemPid, b = Birth(list'[n])
      PROVE  b \in Births
  <2>1. CASE EnumSystemModules
    <3>1. Len(list) = 0
      BY <2>1, EnumSystemModulesEffect
    <3>. QED
      BY <1>6, <2>1, <3>1, EnumSystemModulesEffect, KnownBirths
  <2>2. CASE GetProcessImagePath
    <3>1. \/ n \in 1..Len(list) /\ list'[n] = list[n]
          \/ n = Len(list) + 1 /\ list'[n] = CUniqueProcess(base.pid, base.ppid, base.ctime)
      BY <1>6, <2>2, GetProcessImagePathEffect
    <3>3. pc = "path"
      BY <2>2, GetProcessImagePathEffect
    <3>2. Birth(CUniqueProcess(base.pid, base.ppid, base.ctime)) = Birth(base)
      BY DEF Birth, CUniqueProcess
    <3>. QED
      BY <1>6, <3>1, <3>2, <3>3, KnownBirths
  <2>3. CASE FillNextParent
    <3>1. n \in 1..Len(list) /\ list'[n].pid = list[n].pid
            /\ list'[n].ppid = list[n].ppid /\ list'[n].ctime = list[n].ctime
      BY <2>3, FillNextParentEffect DEF SameBirths
    <3>. QED
      BY <1>6, <3>1, KnownBirths, SameBirth
  <2>4. CASE UNCHANGED list
    BY <1>6, <2>4, KnownBirths
  <2>. QED
    BY <2>1, <2>2, <2>3, <2>4 DEF Main, SetCaptureEnable, EnumProcesses, GetProcessBaseInfo,
       EnumProcessesDone, StartWorker, table
<1>. QED
  BY <1>3, <1>4, <1>5, <1>6, NextBirths

\* The worker hands what it knows from a notification to the table.
LEMMA WorkerBirths ==
    ASSUME IInv, Deaths, Worker
    PROVE  Births' \subseteq Births /\ UNCHANGED <<main, unread, capture, sys>>
<1>. DEFINE m == Head(queue)
<1>1. UNCHANGED <<main, unread, capture, sys>> /\ queue # <<>> /\ queue' = Tail(queue)
  BY DEF Worker, OnPsCreate, OnPsDestroy
<1>2. SUFFICES ASSUME NEW b \in Births' PROVE b \in Births
  BY <1>1
<1>3. CASE \E p \in Live' : b = [pid |-> p, ppid |-> os'[p].ppid, ctime |-> os'[p].ctime]
  BY <1>1, <1>3, KnownBirths DEF Live, sys
<1>4. CASE pc' = "path" /\ b = Birth(base')
  BY <1>1, <1>4, KnownBirths DEF main
<1>5. CASE \E i \in 1..Len(queue') : b = Birth(queue'[i])
  BY <1>1, <1>5, KnownBirths, QueueTaken
<1>6. Birth(m) \in Births
  BY <1>1, KnownBirths, QueueTaken
<1>7. ASSUME NEW n \in 1..Len(list'), list'[n].pid # SystemPid, b = Birth(list'[n])
      PROVE  b \in Births
  <2>1. \/ /\ n \in 1..Len(list) /\ list'[n].pid = list[n].pid
           /\ list'[n].ppid = list[n].ppid /\ list'[n].ctime = list[n].ctime
        \/ list'[n].pid = m.pid /\ list'[n].ppid = m.ppid /\ list'[n].ctime = m.ctime
    <3>1. CASE OnPsCreate
      <4>. HIDE DEF m
      <4>1. ASSUME NEW h, h = Head(queue)
            PROVE  \/ /\ n \in 1..Len(list) /\ list'[n].pid = list[n].pid
                      /\ list'[n].ppid = list[n].ppid /\ list'[n].ctime = list[n].ctime
                   \/ list'[n].pid = h.pid /\ list'[n].ppid = h.ppid /\ list'[n].ctime = h.ctime
        BY <3>1, <4>1, OnPsCreateEffect DEF SameBirths
      <4>. QED
        BY <4>1 DEF m
    <3>2. CASE OnPsDestroy
      <4>1. \A k \in 1..Len(list) : list[k].pid = m.pid => list[k].alive
        BY <1>1, QueueTaken DEF Deaths
      <4>. HIDE DEF m
      <4>2. ASSUME NEW h, h = Head(queue), h = m
            PROVE  /\ n \in 1..Len(list) /\ list'[n].pid = list[n].pid
                   /\ list'[n].ppid = list[n].ppid /\ list'[n].ctime = list[n].ctime
        BY <3>2, <4>1, <4>2, OnPsDestroyEffect DEF SameBirths
      <4>. QED
        BY <4>2 DEF m
    <3>. QED
      BY <3>1, <3>2 DEF Worker
  <2>. QED
    BY <1>6, <1>7, <2>1, KnownBirths, SameBirth
<1>. QED
  BY <1>3, <1>4, <1>5, <1>7, NextBirths

\* A birth: the new process is the youngest, and nobody knows its id yet.
LEMMA OsCreateGenealogy ==
    ASSUME IInv, Genealogy, NEW p \in Pids, NEW parent \in Parents, OsCreate(p, parent), ~reused'
    PROVE  Genealogy'
<1>. DEFINE m  == [create |-> TRUE, pid |-> p, ppid |-> parent, ctime |-> clock + 1]
            nb == [pid |-> p, ppid |-> parent, ctime |-> clock + 1]
<1>1. /\ m \in Notice /\ Notify(m)
      /\ UNCHANGED <<table, main, unread, capture>>
      /\ p \notin Live /\ parent \in Live \cup {SystemPid}
      /\ Live' = Live \cup {p}
      /\ \A q \in Live : q # p /\ os'[q] = os[q]
      /\ os'[p].ppid = parent /\ os'[p].ctime = clock + 1
      /\ clock \in Nat /\ clock' = clock + 1
      /\ used' = used \cup {p}
      /\ p \notin used
  BY OsCreateEffect
<1>2. Birth(m) = nb
  BY DEF Birth
<1>. HIDE DEF m
<1>3. ASSUME NEW b \in Births' PROVE b \in Births \/ b = nb
  <2>1. CASE \E n \in 1..Len(list') : list'[n].pid # SystemPid /\ b = Birth(list'[n])
    BY <1>1, <2>1, KnownBirths DEF table
  <2>2. ASSUME NEW i \in 1..Len(queue'), b = Birth(queue'[i]) PROVE b \in Births \/ b = nb
    <3>1. (i \in 1..Len(queue) /\ queue'[i] = queue[i]) \/ queue'[i] = m
      BY <1>1, <2>2, QueueSent
    <3>. QED
      BY <1>2, <2>2, <3>1, KnownBirths
  <2>3. ASSUME NEW q \in Live', b = [pid |-> q, ppid |-> os'[q].ppid, ctime |-> os'[q].ctime]
        PROVE  b \in Births \/ b = nb
    BY <1>1, <2>3, KnownBirths
  <2>4. CASE pc' = "path" /\ b = Birth(base')
    BY <1>1, <2>4, KnownBirths DEF main
  <2>. QED
    BY <2>1, <2>2, <2>3, <2>4, NextBirths
<1>4. nb.pid = p /\ nb.ppid = parent /\ nb.ctime = clock + 1
  OBVIOUS
<1>. HIDE DEF nb
<1>5. p # SystemPid
  BY PidsAssumption DEF SystemPid
<1>6. parent # p /\ parent \in used \cup {SystemPid}
  <2>1. ASSUME parent \in Live PROVE parent \in used
    <3>1. [pid |-> parent, ppid |-> os[parent].ppid, ctime |-> os[parent].ctime] \in Births
      BY <2>1, KnownBirths
    <3>2. \A b \in Births : b.pid \in used
      BY DEF Genealogy
    <3>. QED
      BY <3>1, <3>2
  <2>. QED
    BY <1>1, <1>5, <2>1
<1>7. \A b \in Births : /\ b.ctime \in 1..clock
                        /\ b.pid \in used /\ b.ppid \in used \cup {SystemPid}
                        /\ b.pid # p /\ b.ppid # p
  BY <1>1, <1>5 DEF Genealogy
<1>8. \A b \in Births' : /\ b.ctime \in 1..clock'
                         /\ b.pid \in used' /\ b.ppid \in used' \cup {SystemPid}
  BY <1>1, <1>3, <1>4, <1>6, <1>7
<1>9. \A b, c \in Births' : b.pid = c.pid => b = c
  <2>1. \A b, c \in Births : b.pid = c.pid => b = c
    BY DEF Genealogy
  <2>. QED
    BY <1>3, <1>4, <1>7, <2>1
<1>10. \A b, c \in Births' : b.ppid = c.pid => c.ctime < b.ctime
  <2>1. \A b, c \in Births : b.ppid = c.pid => c.ctime < b.ctime
    BY DEF Genealogy
  <2>2. ASSUME NEW c \in Births, nb.ppid = c.pid PROVE c.ctime < nb.ctime
    BY <1>1, <1>4, <1>7
  <2>3. ~ (nb.ppid = nb.pid) /\ \A b \in Births : ~ (b.ppid = nb.pid)
    BY <1>4, <1>6, <1>7
  <2>. QED
    BY <1>3, <2>1, <2>2, <2>3
<1>. QED
  BY <1>8, <1>9, <1>10 DEF Genealogy

LEMMA GenealogyNext == ASSUME HInv, Next, ~reused, ~reused' PROVE Genealogy'
<1>1. IInv /\ Genealogy /\ Deaths
  BY DEF HInv, History
<1>2. CASE Main
  <2>1. UNCHANGED <<clock, used>>
    BY <1>2 DEF Main, SetCaptureEnable, EnumSystemModules, EnumProcesses, GetProcessBaseInfo,
           GetProcessImagePath, EnumProcessesDone, FillNextParent, StartWorker, sys
  <2>. QED
    BY <1>1, <1>2, <2>1, MainBirths, GenealogyKept
<1>3. CASE Worker
  BY <1>1, <1>3, WorkerBirths, GenealogyKept DEF sys
<1>4. CASE System
  <2>1. ASSUME NEW p \in Pids, OsExit(p) PROVE Genealogy'
    BY <1>1, <2>1, OsExitBirths, OsExitEffect, GenealogyKept
  <2>2. ASSUME NEW p \in Pids, NEW parent \in Parents, OsCreate(p, parent) PROVE Genealogy'
    BY <1>1, <2>2, OsCreateGenealogy
  <2>. QED
    BY <1>4, <2>1, <2>2 DEF System
<1>. QED
  BY <1>2, <1>3, <1>4 DEF Next

\* Every id the table and the queue know was handed out.
LEMMA KnownIds ==
    ASSUME Genealogy
    PROVE  /\ \A n \in 1..Len(list) : list[n].pid # SystemPid => list[n].pid \in used
           /\ \A i \in 1..Len(queue) : queue[i].pid \in used
<1>1. \A b \in Births : b.pid \in used
  BY DEF Genealogy
<1>2. \A n \in 1..Len(list) : Birth(list[n]).pid = list[n].pid
  BY DEF Birth
<1>3. \A i \in 1..Len(queue) : Birth(queue[i]).pid = queue[i].pid
  BY DEF Birth
<1>. QED
  BY <1>1, <1>2, <1>3, KnownBirths

-----------------------------------------------------------------------------
(* Lives.                                                                  *)

\* A queued exit stays queued while others are sent, or taken before it.
LEMMA ExitStays ==
    ASSUME IInv, NEW m \in Notice, Notify(m), NEW p, NEW i, ExitQueued(p, i)
    PROVE  ExitQueued(p, i)'
<1>1. PICK j \in 1..Len(queue) : j > i /\ queue[j].pid = p /\ ~queue[j].create
  BY DEF ExitQueued
<1>2. j \in 1..Len(queue') /\ queue'[j] = queue[j]
  BY QueueSent
<1>. QED
  BY <1>1, <1>2 DEF ExitQueued

LEMMA ExitAdvances ==
    ASSUME IInv, queue # <<>>, queue' = Tail(queue), NEW p, NEW i \in Nat, ExitQueued(p, i + 1)
    PROVE  ExitQueued(p, i)'
<1>1. PICK j \in 1..Len(queue) : j > i + 1 /\ queue[j].pid = p /\ ~queue[j].create
  BY DEF ExitQueued
<1>2. j - 1 \in 1..Len(queue') /\ queue'[j - 1] = queue[j] /\ j - 1 > i
  BY <1>1, QueueTaken
<1>. QED
  BY <1>1, <1>2 DEF ExitQueued

\* The exit of a process is queued last and leaves its life complete.
LEMMA OneLifeNext == ASSUME HInv, Next, ~reused, ~reused' PROVE OneLife'
<1>1. IInv /\ Genealogy /\ OneLife /\ Captured
  BY DEF HInv, History
<1>2. CASE Main
  <2>1. UNCHANGED <<queue, os>>
    BY <1>2 DEF Main, SetCaptureEnable, EnumSystemModules, EnumProcesses, GetProcessBaseInfo,
           GetProcessImagePath, EnumProcessesDone, FillNextParent, StartWorker, sys
  <2>. QED
    BY <1>1, <2>1 DEF OneLife, ExitQueued, Live
<1>3. CASE Worker
  <2>1. queue # <<>> /\ queue' = Tail(queue) /\ os' = os
    BY <1>3 DEF Worker, OnPsCreate, OnPsDestroy, sys
  <2>2. /\ Len(queue) \in Nat
        /\ \A i \in 1..Len(queue') : i + 1 \in 1..Len(queue) /\ queue'[i] = queue[i + 1]
    BY <1>1, <2>1, QueueTaken
  <2>3. Live' = Live
    BY <2>1 DEF Live
  <2>4. \A i, j \in 1..Len(queue') : i < j /\ queue'[i].pid = queue'[j].pid
                                       => queue'[i].create /\ ~queue'[j].create
    <3>1. SUFFICES ASSUME NEW i \in 1..Len(queue'), NEW j \in 1..Len(queue'),
                          i < j, queue'[i].pid = queue'[j].pid
                   PROVE  queue'[i].create /\ ~queue'[j].create
      OBVIOUS
    <3>2. i + 1 \in 1..Len(queue) /\ j + 1 \in 1..Len(queue) /\ i + 1 < j + 1
      BY <2>2, <3>1
    <3>. QED
      BY <1>1, <2>2, <3>1, <3>2 DEF OneLife
  <2>5. \A i \in 1..Len(queue') : ~queue'[i].create => queue'[i].pid \notin Live'
    BY <1>1, <2>2, <2>3 DEF OneLife
  <2>6. ASSUME NEW i \in 1..Len(queue'), queue'[i].create,
               NEW p \in {queue'[i].pid, queue'[i].ppid} \ {SystemPid}
        PROVE  p \in Live' \/ ExitQueued(p, i)'
    <3>1. p \in Live \/ ExitQueued(p, i + 1)
      BY <1>1, <2>2, <2>6 DEF OneLife
    <3>2. i \in Nat
      OBVIOUS
    <3>. QED
      BY <1>1, <2>1, <2>3, <3>1, <3>2, ExitAdvances
  <2>. QED
    BY <2>4, <2>5, <2>6 DEF OneLife
<1>4. ASSUME NEW m \in Notice, Notify(m), m.create => (m.pid \notin used /\ m.pid \in Live'),
             m.create => m.ppid \in Live' \cup {SystemPid},
             ~m.create => m.pid \in Live \ Live',
             \A q \in Live \ Live' : q = m.pid /\ ~m.create,
             \A q \in Live' \ Live : q = m.pid /\ q \notin used
      PROVE  OneLife'
  <2>1. CASE queue' = queue /\ ~capture
    BY <1>1, <2>1 DEF OneLife, Captured
  <2>2. CASE /\ Len(queue) \in Nat
             /\ Len(queue') = Len(queue) + 1
             /\ \A i \in 1..Len(queue) : queue'[i] = queue[i]
             /\ queue'[Len(queue) + 1] = m
    <3>1. \A i \in 1..Len(queue') : \/ i \in 1..Len(queue) /\ queue'[i] = queue[i]
                                    \/ i = Len(queue) + 1 /\ queue'[i] = m
      BY <2>2
    <3>2. \A i \in 1..Len(queue) : queue[i].pid \in used
      BY <1>1, KnownIds
    <3>3. ASSUME NEW i \in 1..Len(queue), queue[i].pid = m.pid PROVE queue[i].create /\ ~m.create
      <4>1. ~m.create
        BY <1>4, <3>2, <3>3
      <4>. QED
        BY <1>1, <1>4, <3>3, <4>1 DEF OneLife
    <3>4. \A i, j \in 1..Len(queue') : i < j /\ queue'[i].pid = queue'[j].pid
                                         => queue'[i].create /\ ~queue'[j].create
      <4>1. SUFFICES ASSUME NEW i \in 1..Len(queue'), NEW j \in 1..Len(queue'),
                            i < j, queue'[i].pid = queue'[j].pid
                     PROVE  queue'[i].create /\ ~queue'[j].create
        OBVIOUS
      <4>2. i \in 1..Len(queue) /\ queue'[i] = queue[i]
        BY <2>2, <3>1, <4>1
      <4>3. CASE j \in 1..Len(queue) /\ queue'[j] = queue[j]
        BY <1>1, <4>1, <4>2, <4>3 DEF OneLife
      <4>4. CASE queue'[j] = m
        BY <3>3, <4>1, <4>2, <4>4
      <4>. QED
        BY <3>1, <4>3, <4>4
    <3>5. \A i \in 1..Len(queue') : ~queue'[i].create => queue'[i].pid \notin Live'
      <4>1. ASSUME NEW i \in 1..Len(queue), ~queue[i].create PROVE queue[i].pid \notin Live'
        BY <1>1, <1>4, <3>2, <4>1 DEF OneLife
      <4>. QED
        BY <1>4, <3>1, <4>1
    <3>6. \A p, i : p \in Live => p \in Live' \/ ExitQueued(p, i)' \/ ~(i \in 1..Len(queue))
      <4>1. SUFFICES ASSUME NEW p \in Live \ Live', NEW i \in 1..Len(queue) PROVE ExitQueued(p, i)'
        OBVIOUS
      <4>2. /\ Len(queue) + 1 \in 1..Len(queue') /\ Len(queue) + 1 > i
            /\ queue'[Len(queue) + 1].pid = p /\ ~queue'[Len(queue) + 1].create
        BY <1>4, <2>2
      <4>. QED
        BY <4>2 DEF ExitQueued
    <3>7. ASSUME NEW i \in 1..Len(queue'), queue'[i].create,
                 NEW p \in {queue'[i].pid, queue'[i].ppid} \ {SystemPid}
          PROVE  p \in Live' \/ ExitQueued(p, i)'
      <4>1. CASE i \in 1..Len(queue) /\ queue'[i] = queue[i]
        <5>1. p \in Live \/ ExitQueued(p, i)
          BY <1>1, <3>7, <4>1 DEF OneLife
        <5>2. ExitQueued(p, i) => ExitQueued(p, i)'
          BY <1>1, <1>4, ExitStays
        <5>. QED
          BY <3>6, <4>1, <5>1, <5>2
      <4>2. CASE queue'[i] = m
        BY <1>4, <3>7, <4>2
      <4>. QED
        BY <3>1, <4>1, <4>2
    <3>. QED
      BY <3>4, <3>5, <3>7 DEF OneLife
  <2>. QED
    BY <1>1, <1>4, <2>1, <2>2, QueueSent
<1>5. ASSUME NEW p \in Pids, OsExit(p) PROVE OneLife'
  <2>. DEFINE m == [create |-> FALSE, pid |-> p, ppid |-> os[p].ppid, ctime |-> os[p].ctime]
  <2>1. m \in Notice /\ Notify(m) /\ p \in Live /\ Live' = Live \ {p}
    BY <1>1, <1>5, OsExitEffect
  <2>2. m.pid = p /\ ~m.create
    OBVIOUS
  <2>. HIDE DEF m
  <2>. QED
    BY <1>4, <2>1, <2>2
<1>6. ASSUME NEW p \in Pids, NEW parent \in Parents, OsCreate(p, parent) PROVE OneLife'
  <2>. DEFINE m == [create |-> TRUE, pid |-> p, ppid |-> parent, ctime |-> clock + 1]
  <2>1. /\ m \in Notice /\ Notify(m) /\ p \notin used
        /\ Live' = Live \cup {p} /\ parent \in Live \cup {SystemPid}
    BY <1>1, <1>6, OsCreateEffect
  <2>2. m.pid = p /\ m.create /\ m.ppid = parent
    OBVIOUS
  <2>. HIDE DEF m
  <2>. QED
    BY <1>4, <2>1, <2>2
<1>. QED
  BY <1>2, <1>3, <1>5, <1>6 DEF Next, System

\* Before the worker runs every object is alive.
LEMMA MainAlive ==
    ASSUME IInv, Deaths, Main
    PROVE  \A n \in 1..Len(list') : list'[n].alive
<1>1. pc # "run"
  BY DEF Main, SetCaptureEnable, EnumSystemModules, EnumProcesses, GetProcessBaseInfo,
         GetProcessImagePath, EnumProcessesDone, FillNextParent, StartWorker
<1>2. \A n \in 1..Len(list) : list[n].alive
  BY <1>1 DEF Deaths
<1>3. CASE EnumSystemModules
  <2>1. list' = list \/ \A n \in 1..Len(list') : list'[n].alive
    BY <1>3, EnumSystemModulesEffect
  <2>. QED
    BY <1>2, <2>1
<1>4. CASE GetProcessImagePath
  <2>1. \A n \in 1..Len(list') :
          \/ n \in 1..Len(list) /\ list'[n] = list[n]
          \/ list'[n] = CUniqueProcess(base.pid, base.ppid, base.ctime)
    BY <1>4, GetProcessImagePathEffect
  <2>2. CUniqueProcess(base.pid, base.ppid, base.ctime).alive
    BY DEF CUniqueProcess
  <2>. QED
    BY <1>2, <2>1, <2>2
<1>5. CASE FillNextParent
  BY <1>2, <1>5, FillNextParentEffect
<1>6. CASE UNCHANGED list
  BY <1>2, <1>6
<1>. QED
  BY <1>3, <1>4, <1>5, <1>6 DEF Main, SetCaptureEnable, EnumProcesses, GetProcessBaseInfo,
     EnumProcessesDone, StartWorker, table

LEMMA DeathsNext == ASSUME HInv, Next, ~reused, ~reused' PROVE Deaths'
<1>1. IInv /\ Genealogy /\ OneLife /\ Deaths
  BY DEF HInv, History
<1>2. CASE Main
  BY <1>1, <1>2, MainAlive DEF Deaths
<1>3. ASSUME NEW p \in Pids, OsExit(p) PROVE Deaths'
  <2>. DEFINE m == [create |-> FALSE, pid |-> p, ppid |-> os[p].ppid, ctime |-> os[p].ctime]
  <2>1. /\ m \in Notice /\ Notify(m) /\ p \in Live /\ Live' = Live \ {p}
        /\ UNCHANGED <<table, main>>
    BY <1>1, <1>3, OsExitEffect
  <2>2. m.pid = p
    OBVIOUS
  <2>. HIDE DEF m
  <2>3. \A i \in 1..Len(queue') : (i \in 1..Len(queue) /\ queue'[i] = queue[i]) \/ queue'[i] = m
    BY <1>1, <2>1, QueueSent
  <2>. QED
    BY <1>1, <2>1, <2>2, <2>3 DEF Deaths, table, main
<1>4. ASSUME NEW p \in Pids, NEW parent \in Parents, OsCreate(p, parent) PROVE Deaths'
  <2>. DEFINE m == [create |-> TRUE, pid |-> p, ppid |-> parent, ctime |-> clock + 1]
  <2>1. /\ m \in Notice /\ Notify(m) /\ p \notin used /\ Live' = Live \cup {p}
        /\ UNCHANGED <<table, main>>
    BY <1>1, <1>4, OsCreateEffect
  <2>2. m.pid = p
    OBVIOUS
  <2>. HIDE DEF m
  <2>3. \A i \in 1..Len(queue') : (i \in 1..Len(queue) /\ queue'[i] = queue[i]) \/ queue'[i] = m
    BY <1>1, <2>1, QueueSent
  <2>4. SystemPid \notin Pids
    BY PidsAssumption DEF SystemPid
  <2>5. \A n \in 1..Len(list) : list[n].pid \in Pids => list[n].pid # p
    BY <1>1, <2>1, <2>4, KnownIds
  <2>. QED
    BY <1>1, <2>1, <2>2, <2>3, <2>5 DEF Deaths, table, main
<1>5. CASE Worker
  <2>1. /\ queue # <<>> /\ queue' = Tail(queue) /\ os' = os /\ pc' = "run" /\ pc = "run"
    BY <1>5 DEF Worker, OnPsCreate, OnPsDestroy, sys, main
  <2>2. /\ 1 \in 1..Len(queue) /\ Head(queue) = queue[1] /\ Len(queue) \in Nat
        /\ \A i \in 1..Len(queue') : i + 1 \in 1..Len(queue) /\ queue'[i] = queue[i + 1] /\ 1 < i + 1
    BY <1>1, <2>1, QueueTaken
  <2>3. Live' = Live
    BY <2>1 DEF Live
  <2>4. ASSUME NEW m, m = Head(queue), OnPsCreate PROVE Deaths'
    <3>1. \A n \in 1..Len(list') : ~list'[n].alive =>
            n \in 1..Len(list) /\ list'[n].pid = list[n].pid /\ ~list[n].alive
      BY <1>1, <2>4, OnPsCreateEffect DEF SameBirths
    <3>. QED
      BY <1>1, <2>1, <2>2, <2>3, <3>1 DEF Deaths
  <2>5. ASSUME NEW m, m = Head(queue), OnPsDestroy PROVE Deaths'
    <3>1. \A n \in 1..Len(list) : list[n].pid = m.pid => list[n].alive
      BY <1>1, <2>2, <2>5 DEF Deaths
    <3>2. \A n \in 1..Len(list') :
            /\ n \in 1..Len(list) /\ list'[n].pid = list[n].pid
            /\ ~list'[n].alive => ~list[n].alive \/ list[n].pid = m.pid
      BY <1>1, <2>5, <3>1, OnPsDestroyEffect DEF SameBirths
    <3>3. m \in Notice /\ ~m.create
      BY <1>1, <2>1, <2>5, Taken DEF OnPsDestroy
    <3>4. m.pid \in Pids
      BY <3>3 DEF Notice
    <3>5. m.pid \notin Live /\ \A i \in 1..Len(queue') : queue'[i].pid # m.pid
      BY <1>1, <2>2, <2>5, <3>3 DEF OneLife
    <3>6. ASSUME NEW n \in 1..Len(list'), ~list'[n].alive
          PROVE  list'[n].pid \in Pids \ Live' /\ \A i \in 1..Len(queue') : queue'[i].pid # list'[n].pid
      <4>1. CASE ~list[n].alive
        BY <1>1, <2>2, <2>3, <3>2, <4>1 DEF Deaths
      <4>2. CASE list[n].pid = m.pid
        BY <2>3, <3>2, <3>4, <3>5, <4>2
      <4>. QED
        BY <3>2, <3>6, <4>1, <4>2
    <3>. QED
      BY <2>1, <3>6 DEF Deaths
  <2>. QED
    BY <1>5, <2>4, <2>5 DEF Worker
<1>. QED
  BY <1>2, <1>3, <1>4, <1>5 DEF Next, System

\* A new link leads to the parent: its object is alive, since its exit comes
\* behind the creation of its child.
LEMMA LinksNext == ASSUME HInv, Next, ~reused, ~reused' PROVE Links'
<1>1. IInv /\ Genealogy /\ OneLife /\ Deaths /\ Links
  BY DEF HInv, History
<1>2. /\ Len(list) \in Nat
      /\ \A n \in 1..Len(list) : list[n].parent # NULL => list[n].parent \in 1..Len(list)
  <2>1. list \in Seq(Process) /\ \A n \in 1..Len(list) : list[n].parent \in 0..Len(list)
    BY <1>1 DEF IInv, TypeOK, Objects
  <2>. QED
    BY <2>1 DEF NULL
<1>3. CASE UNCHANGED list
  BY <1>1, <1>3 DEF Links
<1>4. CASE EnumSystemModules
  <2>1. list' = list \/ \A n \in 1..Len(list') : list'[n].parent = NULL /\ list'[n].ppid = 0
    BY <1>1, <1>4, EnumSystemModulesEffect
  <2>. QED
    BY <1>1, <2>1 DEF Links
<1>5. CASE GetProcessImagePath
  <2>1. /\ CUniqueProcess(base.pid, base.ppid, base.ctime).parent = NULL
        /\ CUniqueProcess(base.pid, base.ppid, base.ctime).pid = base.pid
    BY DEF CUniqueProcess
  <2>2. \A p \in Live : p # SystemPid
    BY PidsAssumption DEF Live, SystemPid
  <2>3. list' = list \/ /\ \A n \in 1..Len(list) : list'[n] = list[n]
                        /\ \A n \in 1..Len(list') :
                             \/ n \in 1..Len(list)
                             \/ list'[n].parent = NULL /\ list'[n].pid # SystemPid
    BY <1>1, <1>5, <2>1, <2>2, GetProcessImagePathEffect
  <2>. QED
    BY <1>1, <1>2, <2>3 DEF Links
<1>6. CASE FillNextParent
  <2>. DEFINE p == Find(list, idMap, list[cursor].ppid)
  <2>1. \A n \in 1..Len(list) : list[n].alive
    BY <1>1, <1>6, FillNextParentEffect DEF Deaths
  <2>2. WellFormed(list, idMap) /\ OnePerPid(list)
    BY <1>1 DEF IInv, TableInv
  <2>3. p # NULL => p \in 1..Len(list) /\ list[p].pid = list[cursor].ppid
    BY <2>1, <2>2, FindsOwn
  <2>4. /\ Len(list') = Len(list) /\ SameBirths(list')
        /\ \A n \in 1..Len(list) :
             list'[n].parent = IF n = cursor /\ p # NULL THEN p ELSE list[n].parent
    BY <1>1, <1>6, FillNextParentEffect
  <2>. HIDE DEF p
  <2>. QED
    BY <1>1, <1>2, <2>3, <2>4 DEF Links, SameBirths
<1>7. ASSUME NEW m, m = Head(queue), OnPsDestroy PROVE Links'
  <2>1. queue # <<>> /\ queue' = Tail(queue)
    BY <1>7 DEF OnPsDestroy
  <2>2. \A n \in 1..Len(list) : list[n].pid = m.pid => list[n].alive
    BY <1>1, <1>7, <2>1, QueueTaken DEF Deaths
  <2>3. /\ Len(list') = Len(list) /\ SameBirths(list')
        /\ \A n \in 1..Len(list) : list'[n].parent = list[n].parent
    BY <1>1, <1>7, <2>2, OnPsDestroyEffect
  <2>. QED
    BY <1>1, <1>2, <2>3 DEF Links, SameBirths
<1>8. ASSUME NEW m, m = Head(queue), OnPsCreate PROVE Links'
  <2>1. queue # <<>> /\ queue' = Tail(queue) /\ m.create
    BY <1>8 DEF OnPsCreate
  <2>2. 1 \in 1..Len(queue) /\ m = queue[1]
    BY <1>1, <1>8, <2>1, QueueTaken
  <2>3. \A n \in 1..Len(list) : list[n].pid = m.ppid => list[n].alive
    <3>1. SUFFICES ASSUME NEW n \in 1..Len(list), list[n].pid = m.ppid, ~list[n].alive PROVE FALSE
      OBVIOUS
    <3>2. /\ list[n].pid \in Pids \ Live
          /\ \A i \in 1..Len(queue) : queue[i].pid # list[n].pid
      BY <1>1, <3>1 DEF Deaths
    <3>3. m.ppid # SystemPid
      BY <3>1, <3>2, PidsAssumption DEF SystemPid
    <3>4. m.ppid \in Live \/ ExitQueued(m.ppid, 1)
      BY <1>1, <2>1, <2>2, <3>3 DEF OneLife
    <3>. QED
      BY <3>1, <3>2, <3>4 DEF ExitQueued
  <2>4. CASE /\ Len(list') = Len(list) + 1
             /\ SameBirths(list')
             /\ \A n \in 1..Len(list) : /\ list'[n].alive = list[n].alive
                                        /\ list'[n].parent = list[n].parent
             /\ list'[Len(list) + 1].pid = m.pid
             /\ list'[Len(list) + 1].ppid = m.ppid
             /\ list'[Len(list) + 1].alive
             /\ /\ \A n \in 1..Len(list') : list'[n].pid = m.ppid => list'[n].alive
                /\ list'[Len(list) + 1].parent # NULL
                => list'[list'[Len(list) + 1].parent].pid = m.ppid
    <3>1. \A n \in 1..Len(list') : n \in 1..Len(list) \/ n = Len(list) + 1
      BY <1>2, <2>4
    <3>2. \A n \in 1..Len(list') : list'[n].pid = m.ppid => list'[n].alive
      BY <2>3, <2>4, <3>1 DEF SameBirths
    <3>3. \A n \in 1..Len(list) :
            /\ list'[n].parent # NULL => list'[list'[n].parent].pid = list'[n].ppid
            /\ list'[n].pid = SystemPid => list'[n].ppid = 0
      BY <1>1, <1>2, <2>4 DEF Links, SameBirths
    <3>4. m.pid # SystemPid
      <4>1. m \in Notice
        BY <1>1, <1>8, <2>1, Taken
      <4>. QED
        BY <4>1, PidsAssumption DEF Notice, SystemPid
    <3>. QED
      BY <2>4, <3>1, <3>2, <3>3, <3>4 DEF Links
  <2>. QED
    BY <1>1, <1>3, <1>8, <2>4, OnPsCreateEffect
<1>9. OnPsCreate \/ OnPsDestroy => Links'
  BY <1>7, <1>8
<1>. QED
  BY <1>3, <1>4, <1>5, <1>6, <1>9 DEF Next, Main, Worker, System, OsCreate, OsExit, SetCaptureEnable,
     EnumProcesses, GetProcessBaseInfo, EnumProcessesDone, StartWorker, table

\* The steps of the main thread take a running process from the system to the
\* snapshot, from there to the visited process and from there to the table.
LEMMA MainTracked == ASSUME HInv, Main, ~reused PROVE Tracked'
<1>1. IInv /\ Deaths /\ Tracked /\ Captured
  BY DEF HInv, History
<1>2. UNCHANGED <<queue, os>>
  BY DEF Main, SetCaptureEnable, EnumSystemModules, EnumProcesses, GetProcessBaseInfo,
         GetProcessImagePath, EnumProcessesDone, FillNextParent, StartWorker, sys
<1>3. /\ Live' = Live
      /\ \A p, i : ExitQueued(p, i)' <=> ExitQueued(p, i)
  BY <1>2 DEF Live, ExitQueued
<1>4. \A n \in 1..Len(list') : list'[n].alive
  BY <1>1, MainAlive
<1>5. CASE SetCaptureEnable
  <2>1. Len(list) = 0 /\ list' = list /\ pc' = "modules"
    BY <1>1, <1>5 DEF SetCaptureEnable, IInv, Phases, table
  <2>. QED
    BY <2>1 DEF Tracked, Expected
<1>. SUFFICES ASSUME capture', capture PROVE Tracked'
  BY <1>1, <1>5 DEF Tracked, Main, EnumSystemModules, EnumProcesses, GetProcessBaseInfo,
     GetProcessImagePath, EnumProcessesDone, FillNextParent, StartWorker
<1>6. \A n \in 1..Len(list) : list[n].alive /\ list[n].pid # SystemPid
                                => list[n].pid \in Live \/ ExitQueued(list[n].pid, 0)
  BY <1>1 DEF Tracked
<1>7. \A p \in Live \ unread : Expected(p)
  BY <1>1 DEF Tracked
<1>8. CASE EnumSystemModules
  <2>1. /\ pc' = "snapshot"
        /\ list' = list \/ \A n \in 1..Len(list') : list'[n].pid = SystemPid
    BY <1>1, <1>8, EnumSystemModulesEffect
  <2>. QED
    BY <1>3, <1>6, <2>1 DEF Tracked, Expected
<1>9. CASE EnumProcesses
  <2>1. list' = list /\ pc' = "base" /\ (toEnum' = Live \/ unread' = Live)
    BY <1>9 DEF EnumProcesses, table
  <2>. QED
    BY <1>3, <1>6, <2>1 DEF Tracked, Expected
<1>10. ASSUME NEW q \in Pids, GetProcessBaseInfo(q) PROVE Tracked'
  <2>1. /\ list' = list /\ pc = "base" /\ toEnum' = toEnum \ {q} /\ unread' = unread
        /\ \/ q \in Live /\ pc' = "path" /\ base'.pid = q
           \/ q \notin Live /\ pc' = "base"
    BY <1>10 DEF GetProcessBaseInfo, table
  <2>2. ASSUME NEW p \in Live \ unread PROVE Expected(p)'
    <3>1. Expected(p)
      BY <1>7
    <3>. QED
      BY <1>2, <2>1, <3>1 DEF Expected
  <2>. QED
    BY <1>3, <1>6, <2>1, <2>2 DEF Tracked
<1>11. CASE GetProcessImagePath
  <2>1. /\ pc = "path" /\ pc' = "base" /\ toEnum' = toEnum /\ unread \subseteq unread'
        /\ Len(list) \in Nat
        /\ \/ /\ list' = list
              /\ base.pid \in Live => base.pid \in unread'
           \/ /\ base.pid \in Live
              /\ Len(list') = Len(list) + 1
              /\ \A n \in 1..Len(list) : list'[n] = list[n]
              /\ list'[Len(list) + 1] = CUniqueProcess(base.pid, base.ppid, base.ctime)
    BY <1>1, <1>11, GetProcessImagePathEffect
  <2>2. CUniqueProcess(base.pid, base.ppid, base.ctime).pid = base.pid
    BY DEF CUniqueProcess
  <2>3. \A n \in 1..Len(list') :
          \/ n \in 1..Len(list) /\ list'[n] = list[n]
          \/ list'[n].pid = base.pid /\ base.pid \in Live
    BY <2>1, <2>2
  <2>4. /\ \A n \in 1..Len(list) : n \in 1..Len(list') /\ list'[n] = list[n]
        /\ base.pid \in Live \ unread' => \E n \in 1..Len(list') : list'[n].pid = base.pid
    BY <2>1, <2>2
  <2>5. ASSUME NEW p \in Live \ unread' PROVE Expected(p)'
    <3>1. Expected(p)
      BY <1>7, <2>1
    <3>2. CASE p = base.pid
      BY <1>4, <2>4, <2>5, <3>2 DEF Expected
    <3>3. CASE \E n \in 1..Len(list) : list[n].pid = p /\ list[n].alive
      BY <2>4, <3>3 DEF Expected
    <3>. QED
      BY <1>2, <2>1, <3>1, <3>2, <3>3 DEF Expected
  <2>. QED
    BY <1>3, <1>6, <2>3, <2>5 DEF Tracked
<1>12. CASE EnumProcessesDone \/ StartWorker
  <2>1. /\ list' = list /\ unread' = unread
        /\ (pc = "base" /\ toEnum = {}) \/ pc = "parents"
    BY <1>12 DEF EnumProcessesDone, StartWorker, table
  <2>2. ASSUME NEW p \in Live \ unread PROVE Expected(p)'
    <3>1. Expected(p)
      BY <1>7
    <3>. QED
      BY <1>2, <2>1, <3>1 DEF Expected
  <2>. QED
    BY <1>3, <1>6, <2>1, <2>2 DEF Tracked
<1>13. CASE FillNextParent
  <2>1. /\ Len(list') = Len(list) /\ unread' = unread /\ pc = "parents"
        /\ \A n \in 1..Len(list) : list'[n].pid = list[n].pid /\ list'[n].alive = list[n].alive
    BY <1>1, <1>13, FillNextParentEffect DEF SameBirths
  <2>2. ASSUME NEW p \in Live \ unread PROVE Expected(p)'
    <3>1. Expected(p)
      BY <1>7
    <3>. QED
      BY <1>2, <2>1, <3>1 DEF Expected
  <2>. QED
    BY <1>3, <1>6, <2>1, <2>2 DEF Tracked
<1>. QED
  BY <1>5, <1>8, <1>9, <1>10, <1>11, <1>12, <1>13 DEF Main

\* What happens meanwhile is queued.
LEMMA SystemTracked == ASSUME HInv, System, ~reused, ~reused' PROVE Tracked'
<1>1. IInv /\ Tracked
  BY DEF HInv, History
<1>2. UNCHANGED <<table, main, unread, capture>>
  BY DEF System, OsCreate, OsExit
<1>. SUFFICES ASSUME capture PROVE Tracked'
  BY <1>2 DEF Tracked
<1>3. ASSUME NEW m \in Notice, Notify(m),
             \A p \in Live \ Live' : p = m.pid /\ ~m.create,
             \A p \in Live' \ Live : p = m.pid /\ m.create
      PROVE  Tracked'
  <2>1. /\ Len(queue) \in Nat
        /\ Len(queue') = Len(queue) + 1
        /\ \A i \in 1..Len(queue) : i \in 1..Len(queue') /\ queue'[i] = queue[i]
        /\ Len(queue) + 1 \in 1..Len(queue') /\ queue'[Len(queue) + 1] = m
    BY <1>1, <1>3, QueueSent
  <2>2. ASSUME NEW n \in 1..Len(list), list[n].alive, list[n].pid # SystemPid
        PROVE  list[n].pid \in Live' \/ ExitQueued(list[n].pid, 0)'
    <3>1. CASE ExitQueued(list[n].pid, 0)
      <4>1. ASSUME NEW p, p = list[n].pid PROVE ExitQueued(p, 0)'
        BY <1>1, <1>3, <3>1, <4>1, ExitStays
      <4>2. ExitQueued(list[n].pid, 0)' <=> \E j \in 1..Len(queue') : j > 0 /\ queue'[j].pid = list[n].pid /\ ~queue'[j].create
        BY <1>2 DEF ExitQueued, table
      <4>. QED
        BY <4>1, <4>2 DEF ExitQueued
    <3>2. CASE list[n].pid \in Live \ Live'
      <4>1. m.pid = list[n].pid /\ ~m.create /\ Len(queue) + 1 > 0
        BY <1>3, <2>1, <3>2
      <4>. QED
        BY <1>2, <2>1, <4>1 DEF ExitQueued, table
    <3>3. list[n].pid \in Live \/ ExitQueued(list[n].pid, 0)
      BY <1>1, <2>2 DEF Tracked
    <3>. QED
      BY <3>1, <3>2, <3>3
  <2>3. ASSUME NEW p \in Live' \ unread PROVE Expected(p)'
    <3>1. CASE p \in Live' \ Live
      BY <1>3, <2>1, <3>1 DEF Expected
    <3>2. CASE p \in Live
      <4>1. Expected(p)
        BY <1>1, <2>3, <3>2 DEF Tracked
      <4>. QED
        BY <1>2, <2>1, <4>1 DEF Expected, table, main
    <3>. QED
      BY <2>3, <3>1, <3>2
  <2>. QED
    BY <1>2, <2>2, <2>3 DEF Tracked, table
<1>4. ASSUME NEW p \in Pids, OsExit(p) PROVE Tracked'
  <2>. DEFINE m == [create |-> FALSE, pid |-> p, ppid |-> os[p].ppid, ctime |-> os[p].ctime]
  <2>1. m \in Notice /\ Notify(m) /\ p \in Live /\ Live' = Live \ {p}
    BY <1>1, <1>4, OsExitEffect
  <2>2. m.pid = p /\ ~m.create
    OBVIOUS
  <2>. HIDE DEF m
  <2>. QED
    BY <1>3, <2>1, <2>2
<1>5. ASSUME NEW p \in Pids, NEW parent \in Parents, OsCreate(p, parent) PROVE Tracked'
  <2>. DEFINE m == [create |-> TRUE, pid |-> p, ppid |-> parent, ctime |-> clock + 1]
  <2>1. m \in Notice /\ Notify(m) /\ Live' = Live \cup {p}
    BY <1>1, <1>5, OsCreateEffect
  <2>2. m.pid = p /\ m.create
    OBVIOUS
  <2>. HIDE DEF m
  <2>. QED
    BY <1>3, <2>1, <2>2
<1>. QED
  BY <1>4, <1>5 DEF System

\* The worker finds in the table what the enumeration saw, makes an object of
\* what it did not, and ends the lives of those whose exit it takes.
LEMMA WorkerTracked == ASSUME HInv, Worker, ~reused PROVE Tracked'
<1>1. IInv /\ OneLife /\ Deaths /\ Tracked
  BY DEF HInv, History
<1>2. /\ queue # <<>> /\ queue' = Tail(queue) /\ pc = "run"
      /\ UNCHANGED <<main, unread, capture, sys>>
  BY DEF Worker, OnPsCreate, OnPsDestroy
<1>. SUFFICES ASSUME capture PROVE Tracked'
  BY <1>2 DEF Tracked
<1>3. /\ 1 \in 1..Len(queue) /\ Head(queue) = queue[1]
      /\ \A i \in 1..Len(queue) : i = 1 \/ (i - 1 \in 1..Len(queue') /\ queue'[i - 1] = queue[i])
  BY <1>1, <1>2, QueueTaken
<1>4. Live' = Live
  BY <1>2 DEF Live, sys
<1>5. \A n \in 1..Len(list) : list[n].alive /\ list[n].pid # SystemPid
                                => list[n].pid \in Live \/ ExitQueued(list[n].pid, 0)
  BY <1>1 DEF Tracked
<1>6. ASSUME NEW p \in Live \ unread
      PROVE  \/ \E n \in 1..Len(list) : list[n].pid = p /\ list[n].alive
             \/ \E i \in 1..Len(queue) : queue[i].pid = p /\ queue[i].create
  BY <1>1, <1>2 DEF Tracked, Expected
<1>7. ASSUME NEW p, ExitQueued(p, 0), queue[1].create \/ queue[1].pid # p
      PROVE  ExitQueued(p, 0)'
  <2>1. PICK j \in 1..Len(queue) : queue[j].pid = p /\ ~queue[j].create
    BY <1>7 DEF ExitQueued
  <2>2. j - 1 \in 1..Len(queue') /\ queue'[j - 1].pid = p /\ ~queue'[j - 1].create
    BY <1>3, <1>7, <2>1
  <2>3. j - 1 > 0
    BY <2>2
  <2>. QED
    BY <2>2, <2>3 DEF ExitQueued
<1>8. ASSUME NEW m, m = Head(queue), OnPsCreate PROVE Tracked'
  <2>1. m = queue[1] /\ m.create /\ m.pid \in Pids
    <3>1. m \in Notice
      BY <1>1, <1>2, <1>8, Taken
    <3>. QED
      BY <1>3, <1>8, <3>1 DEF OnPsCreate, Notice
  <2>2. m.pid \in Live \/ ExitQueued(m.pid, 0)'
    <3>1. m.pid # SystemPid
      BY <2>1, PidsAssumption DEF SystemPid
    <3>2. m.pid \in Live \/ ExitQueued(m.pid, 1)
      BY <1>1, <1>3, <2>1, <3>1 DEF OneLife
    <3>3. ASSUME ExitQueued(m.pid, 0 + 1) PROVE ExitQueued(m.pid, 0)'
      BY <1>1, <1>2, <3>3, ExitAdvances
    <3>. QED
      BY <3>2, <3>3
  <2>3. \/ list' = list /\ \E n \in 1..Len(list) : list[n].pid = m.pid
        \/ /\ Len(list) \in Nat
           /\ Len(list') = Len(list) + 1
           /\ \A n \in 1..Len(list) : list'[n].pid = list[n].pid /\ list'[n].alive = list[n].alive
           /\ list'[Len(list) + 1].pid = m.pid /\ list'[Len(list) + 1].alive
    BY <1>1, <1>8, OnPsCreateEffect DEF SameBirths
  <2>4. \A n \in 1..Len(list) : n \in 1..Len(list') /\ list'[n].pid = list[n].pid
                                                     /\ list'[n].alive = list[n].alive
    BY <2>3
  <2>5. \E n \in 1..Len(list') : list'[n].pid = m.pid /\ list'[n].alive
    <3>1. \A n \in 1..Len(list) : list[n].pid = m.pid => list[n].alive
      BY <1>1, <1>3, <2>1 DEF Deaths
    <3>2. CASE list' = list
      BY <2>3, <2>4, <3>1, <3>2
    <3>3. CASE Len(list) \in Nat /\ Len(list') = Len(list) + 1
      BY <2>3, <2>4, <3>1, <3>3
    <3>. QED
      BY <2>3, <3>2, <3>3
  <2>6. ASSUME NEW p, NEW n \in 1..Len(list'), p = list'[n].pid, list'[n].alive, p # SystemPid
        PROVE  p \in Live' \/ ExitQueued(p, 0)'
    <3>1. CASE n \in 1..Len(list)
      <4>1. p \in Live \/ ExitQueued(p, 0)
        BY <1>5, <2>4, <2>6, <3>1
      <4>. QED
        BY <1>4, <1>7, <2>1, <4>1
    <3>2. ASSUME NEW q, q = m.pid PROVE q \in Live' \/ ExitQueued(q, 0)'
      BY <1>4, <2>2, <3>2 DEF ExitQueued
    <3>. QED
      BY <2>3, <2>6, <3>1, <3>2
  <2>7. ASSUME NEW p \in Live \ unread PROVE Expected(p)'
    <3>1. CASE \E n \in 1..Len(list) : list[n].pid = p /\ list[n].alive
      BY <2>4, <3>1 DEF Expected
    <3>2. ASSUME NEW i \in 1..Len(queue), queue[i].pid = p, queue[i].create
          PROVE  Expected(p)'
      <4>1. CASE i = 1
        BY <2>1, <2>5, <3>2, <4>1 DEF Expected
      <4>2. CASE i # 1
        BY <1>3, <3>2, <4>2 DEF Expected
      <4>. QED
        BY <4>1, <4>2
    <3>. QED
      BY <1>6, <3>1, <3>2
  <2>. QED
    BY <1>2, <1>4, <2>6, <2>7 DEF Tracked, ExitQueued
<1>9. ASSUME NEW m, m = Head(queue), OnPsDestroy PROVE Tracked'
  <2>1. m = queue[1] /\ ~m.create
    BY <1>3, <1>9 DEF OnPsDestroy
  <2>2. \A n \in 1..Len(list) : list[n].pid = m.pid => list[n].alive
    BY <1>1, <1>3, <2>1 DEF Deaths
  <2>3. /\ Len(list') = Len(list)
        /\ \A n \in 1..Len(list) : /\ list'[n].pid = list[n].pid
                                   /\ list[n].pid # m.pid => list'[n].alive = list[n].alive
                                   /\ list[n].pid = m.pid => ~list'[n].alive
    BY <1>1, <1>9, <2>2, OnPsDestroyEffect DEF SameBirths
  <2>4. m.pid \notin Live
    BY <1>1, <1>3, <2>1 DEF OneLife
  <2>5. ASSUME NEW p, NEW n \in 1..Len(list'), p = list'[n].pid, list'[n].alive, p # SystemPid
        PROVE  p \in Live' \/ ExitQueued(p, 0)'
    <3>1. p # m.pid /\ n \in 1..Len(list) /\ list[n].pid = p /\ list[n].alive
      BY <2>3, <2>5
    <3>2. p \in Live \/ ExitQueued(p, 0)
      BY <1>5, <2>5, <3>1
    <3>. QED
      BY <1>4, <1>7, <2>1, <3>1, <3>2
  <2>6. ASSUME NEW p \in Live \ unread PROVE Expected(p)'
    <3>1. CASE \E n \in 1..Len(list) : list[n].pid = p /\ list[n].alive
      BY <2>3, <2>4, <3>1 DEF Expected
    <3>2. CASE \E i \in 1..Len(queue) : queue[i].pid = p /\ queue[i].create
      BY <1>3, <2>1, <3>2 DEF Expected
    <3>. QED
      BY <1>6, <3>1, <3>2
  <2>. QED
    BY <1>2, <1>4, <2>5, <2>6 DEF Tracked, ExitQueued
<1>. QED
  BY <1>8, <1>9 DEF Worker

\* The whole invariant.
LEMMA InitHInv == Init => HInv
<1>. SUFFICES ASSUME Init PROVE HInv
  OBVIOUS
<1>1. /\ IInv /\ Len(list) = 0 /\ Len(queue) = 0 /\ pc = "capture" /\ ~capture
  BY InitIInv DEF Init
<1>2. Captured /\ OneLife /\ Deaths /\ Links /\ Tracked
  BY <1>1 DEF Captured, OneLife, Deaths, Links, Tracked
<1>3. ASSUME ~reused PROVE Genealogy
  <2>1. Births = {[pid |-> p, ppid |-> os[p].ppid, ctime |-> os[p].ctime] : p \in Live}
    BY <1>1 DEF Births
  <2>2. os \in [Pids -> [ctime : 0..BootClock, ppid : Parents]] /\ BootClock \in Nat /\ clock = BootClock
    BY BoundsAssumption DEF Init, OsInit
  <2>3. \A p \in Live : /\ p \in Pids
                        /\ os[p].ctime \in 1..clock
                        /\ os[p].ppid \in Parents
    BY <2>2 DEF Live
  <2>4. \A p \in Live : p \in used /\ os[p].ppid \in used /\ os[p].ppid # p
    BY DEF Init, OsInit
  <2>5. \A p, q \in Live : os[p].ppid = q => os[q].ctime < os[p].ctime
    <3>1. SUFFICES ASSUME NEW p \in Live, NEW q \in Live, os[p].ppid = q
                   PROVE  os[q].ctime < os[p].ctime
      OBVIOUS
    <3>2. ~ (os[q].ctime > os[p].ctime)
      BY <1>3, <3>1 DEF Init, OsInit
    <3>3. os[q].ctime # os[p].ctime
      BY <2>4, <3>1 DEF Init, OsInit
    <3>. QED
      BY <2>3, <3>2, <3>3
  <2>. QED
    BY <2>1, <2>3, <2>4, <2>5 DEF Genealogy
<1>. QED
  BY <1>1, <1>2, <1>3 DEF HInv, History

LEMMA CapturedNext == ASSUME IInv, Captured, Next PROVE Captured'
<1>1. CASE Main
  BY <1>1 DEF Captured, Main, SetCaptureEnable, EnumSystemModules, EnumProcesses, GetProcessBaseInfo,
     GetProcessImagePath, EnumProcessesDone, FillNextParent, StartWorker
<1>2. CASE Worker
  <2>1. /\ queue # <<>> /\ queue' = Tail(queue) /\ UNCHANGED <<pc, capture>>
    BY <1>2 DEF Worker, OnPsCreate, OnPsDestroy, main
  <2>2. Len(queue) # 0
    BY <2>1, QueueTaken
  <2>. QED
    BY <2>1, <2>2 DEF Captured
<1>3. CASE System
  <2>1. UNCHANGED <<pc, capture>> /\ (~capture => queue' = queue)
    BY <1>3 DEF System, OsCreate, OsExit, Notify, main
  <2>. QED
    BY <2>1 DEF Captured
<1>. QED
  BY <1>1, <1>2, <1>3 DEF Next

LEMMA HInvNext == HInv /\ Next => HInv'
<1>. SUFFICES ASSUME HInv, Next PROVE HInv'
  OBVIOUS
<1>1. IInv' /\ Captured'
  BY MainIInv, OnPsCreateIInv, OnPsDestroyIInv, SystemIInv, CapturedNext DEF HInv, Next, Worker
<1>2. reused => reused'
  BY DEF Next, Main, Worker, System, OsCreate, OsExit, OnPsCreate, OnPsDestroy, sys,
         SetCaptureEnable, EnumSystemModules, EnumProcesses, GetProcessBaseInfo,
         GetProcessImagePath, EnumProcessesDone, FillNextParent, StartWorker
<1>3. ASSUME ~reused' PROVE History'
  <2>1. ~reused
    BY <1>2, <1>3
  <2>2. Tracked'
    BY <1>3, <2>1, MainTracked, WorkerTracked, SystemTracked DEF Next
  <2>. QED
    BY <1>3, <2>1, <2>2, GenealogyNext, OneLifeNext, DeathsNext, LinksNext DEF History
<1>. QED
  BY <1>1, <1>3 DEF HInv

\* As long as no id is reused, the table, the notifications on their way and
\* the system tell one story of every process, whatever the main thread, the
\* worker and the system do in between.
THEOREM HistoryInvariance == Spec => []HInv
<1>1. HInv /\ UNCHANGED vars => HInv'
  BY DEF HInv, IInv, TypeOK, Objects, Known, Queued, Phases, Distinct, Captured, History, Genealogy,
         Births, OneLife, ExitQueued, Deaths, Links, Tracked, Expected, Live, vars, table, main, sys
<1>2. HInv /\ [Next]_vars => HInv'
  BY <1>1, HInvNext
<1>. QED
  BY <1>2, InitHInv, PTL DEF Spec

\* FillParent, from the enumeration's loop or from a notification, never
\* links a process to a younger one or to one of another id than its
\* parent's, although Find may return objects of other ids.
THEOREM ParentsOlder == Spec => []ParentIsOlder
<1>1. HInv => ParentIsOlder
  <2>. SUFFICES ASSUME HInv, ~reused, NEW n \in Objects, list[n].parent # NULL
                PROVE  /\ list[list[n].parent].pid = list[n].ppid
                       /\ list[list[n].parent].pid # SystemPid => list[list[n].parent].ctime < list[n].ctime
    BY DEF ParentIsOlder
  <2>. DEFINE p == list[n].parent
  <2>1. p \in 1..Len(list) /\ n \in 1..Len(list)
    <3>1. p \in 0..Len(list) /\ list \in Seq(Process)
      BY DEF HInv, IInv, TypeOK, Objects
    <3>. QED
      BY <3>1 DEF Objects, NULL
  <2>2. list[p].pid = list[n].ppid
    BY <2>1 DEF HInv, History, Links
  <2>3. ASSUME list[p].pid # SystemPid, list[n].pid # SystemPid PROVE list[p].ctime < list[n].ctime
    <3>1. Birth(list[p]) \in Births /\ Birth(list[n]) \in Births
      BY <2>1, <2>3, KnownBirths
    <3>2. Birth(list[n]).ppid = Birth(list[p]).pid
      BY <2>2 DEF Birth
    <3>3. Birth(list[p]).ctime < Birth(list[n]).ctime
      BY <3>1, <3>2 DEF HInv, History, Genealogy
    <3>. QED
      BY <3>3 DEF Birth
  <2>4. list[n].pid # SystemPid
    <3>1. SUFFICES ASSUME list[n].pid = SystemPid PROVE FALSE
      OBVIOUS
    <3>2. list[p].pid = 0
      BY <2>1, <2>2, <3>1 DEF HInv, History, Links
    <3>3. list[p].pid = SystemPid \/ list[p].pid \in Pids
      BY <2>1 DEF HInv, IInv, Known
    <3>. QED
      BY <3>2, <3>3, PidsAssumption DEF SystemPid
  <2>. QED
    BY <2>2, <2>3, <2>4
<1>. QED
  BY <1>1, HistoryInvariance, PTL

\* When the worker has caught up, the living objects are the running
\* processes: none was lost between the snapshot, the notifications queued
\* meanwhile and the worker's start, none is kept after its exit.
THEOREM TableCorrect == Spec => []TableMatchesSystem
<1>1. HInv => TableMatchesSystem
  <2>. SUFFICES ASSUME HInv, CaughtUp PROVE TableMatchesSystem
    BY DEF TableMatchesSystem
  <2>1. /\ Genealogy /\ Tracked /\ pc = "run" /\ queue = <<>> /\ capture /\ Len(queue) = 0
    BY DEF HInv, History, CaughtUp
  <2>2. ASSUME NEW n \in Objects, list[n].alive, list[n].pid # SystemPid
        PROVE  list[n].pid \in Live /\ list[n].ctime = os[list[n].pid].ctime
    <3>. DEFINE p == list[n].pid
    <3>1. p \in Live
      BY <2>1, <2>2 DEF Tracked, ExitQueued, Objects
    <3>2. /\ Birth(list[n]) \in Births
          /\ [pid |-> p, ppid |-> os[p].ppid, ctime |-> os[p].ctime] \in Births
      BY <2>2, <3>1, KnownBirths DEF Objects
    <3>3. Birth(list[n]) = [pid |-> p, ppid |-> os[p].ppid, ctime |-> os[p].ctime]
      <4>1. Birth(list[n]).pid = p
        BY DEF Birth
      <4>. QED
        BY <2>1, <3>2, <4>1 DEF Genealogy
    <3>. QED
      BY <3>1, <3>3 DEF Birth
  <2>3. \A p \in Live \ unread : \E n \in Objects : list[n].alive /\ list[n].pid = p
    BY <2>1 DEF Tracked, Expected, Objects
  <2>. QED
    BY <2>2, <2>3 DEF TableMatchesSystem
<1>. QED
  BY <1>1, HistoryInvariance, PTL
=============================================================================
